------------------------- MODULE PolicyContextProofs -------------------------
(***************************************************************************)
(* Theorems about PolicyContext, for any dicts, keys, tools, rules and     *)
(* number of tool calls and evaluations.  The invariant says who refers to *)
(* which dict, and so which dicts a merge in progress can write to, and    *)
(* between any two items which source each value of the context is from.   *)
(***************************************************************************)
EXTENDS PolicyContext, TLAPS

AllPayloads == UNION {PayloadsOf(given.calls[c]) : c \in DOMAIN given.calls}

\* The dicts nothing refers to.
Roots == {Extra, Cli, Built, Copy} \union AllPayloads

\* --context has been attached, and a context is being built or judged.
Attached == phase \in {"ready", "building", "merging", "rules"}
Started == phase \in {"building", "merging", "rules"} /\ call \in DOMAIN given.calls

\* Nothing so far has a "context" or "runtime_context" of its own.
Clean == Undisturbed(Reached)

S == GivenSources(Current)

\* No merge invents a key.
NothingInvented ==
    \A k \in Keys : UnknownKey(k) => \A d \in Dicts : heap[d][k] = None

\* Nothing refers to a root, and only the context under construction and what is
\* merged into it to the trajectory's two objects.
RefInv ==
    \A d \in Dicts, k \in Keys :
        /\ heap[d][k] \notin Roots
        /\ \A n \in Special :
              heap[d][k] \in Dicts /\ heap[d][k] = ExtraGiven[n] => k = n /\ d \in {Extra, Built, Copy}

FramesInv ==
    \A i \in DOMAIN frames :
        /\ frames[i].todo \subseteq frames[i].keys
        /\ i = 1 /\ phase = "injecting" => frames[i].target = Runtime /\ frames[i].source = Cli
        /\ i = 1 /\ phase = "merging" => frames[i].target = Built /\ frames[i].source = Copy
        /\ i > 1 => frames[i].target \notin Roots /\ frames[i].source \notin Roots

\* The roots stay as they were read, but for the one entry --context replaces.
RootsInv ==
    /\ \A d \in AllPayloads \union {Cli}, k \in Keys : heap[d][k] = given.dicts[d][k]
    /\ phase \in {"loaded", "injecting"} => \A k \in Keys : heap[Extra][k] = given.dicts[Extra][k]
    /\ Attached => \A k \in Keys : heap[Extra][k] = ExtraGiven[k]
    /\ phase = "loaded" => heap = given.dicts
    /\ phase = "injecting" => given.cli
    /\ phase \in {"loaded", "injecting", "ready"} /\ verdicts = <<>> => call = 1

\* Between two items, "merged" has the trajectory's value under the keys still
\* to come.
InjectInv ==
    phase = "injecting" =>
        /\ frames[1].keys = {k \in Keys : given.dicts[Cli][k] # None}
        /\ \A k \in Keys :
              heap[Runtime][k] = IF k \in frames[1].todo THEN Recorded[k] ELSE RuntimeGiven[k]

\* Merges inside the context do not get to the trajectory's two objects.
LowInv ==
    Clean \/ phase = "injecting" =>
        \A i \in DOMAIN frames, n \in Special : i > 1 => frames[i].target # ExtraGiven[n]

TopsInv ==
    Clean =>
        /\ ExtraGiven[ContextKey] \in Dicts =>
              \A k \in Keys : heap[ExtraGiven[ContextKey]][k] = given.dicts[ExtraGiven[ContextKey]][k]
        /\ Attached /\ ExtraGiven[RuntimeKey] \in Dicts =>
              \A k \in Keys : heap[ExtraGiven[RuntimeKey]][k] = RuntimeGiven[k]

\* A context starts empty, and first becomes what the trajectory's fields are.
FreshInv ==
    at = 1 =>
        /\ phase = "building" => \A k \in Keys : heap[Built][k] = None
        /\ phase = "merging" =>
              \A k \in Keys : heap[Built][k] = IF k \in frames[1].todo THEN None ELSE ExtraGiven[k]

\* What is merged is what was given.
CopyInv ==
    phase = "merging" =>
        /\ frames[1].keys = {k \in Keys : heap[Copy][k] # None}
        /\ Clean \/ at = 1 \/ at \in 4..7 => \A k \in Keys : heap[Copy][k] = S[at][k]

SpecialInv ==
    Clean /\ Started /\ at > 1 => \A n \in Special : heap[Built][n] = ExtraGiven[n]

PlainStays == \A k \in PlainKeys \ Special, d \in Dicts : heap[d][k] \notin Dicts

\* The sources up to this one have been merged, as far as the key goes.
Upto(k) ==
    IF phase = "merging" /\ k \notin frames[1].todo THEN at ELSE at - 1

\* The latest of the first m sources that has the key provides its value.
Latest(k, m) ==
    \/ heap[Built][k] = None /\ \A i \in 1..m : S[i][k] = None
    \/ \E i \in 1..m :
          /\ heap[Built][k] # None /\ heap[Built][k] = S[i][k]
          /\ \A j \in (i + 1)..m : S[j][k] = None

PlainInv ==
    Clean /\ Started => \A k \in PlainKeys \ Special : Latest(k, Upto(k))

\* What makes rule r report its tool whatever the calls hold.
Withheld(r) ==
    /\ given.cli
    /\ \E k \in PlainKeys \ Special :
          /\ <<k>> \in Conditional(given.rules[r].allowed)
          /\ given.dicts[Cli][k] # None
          /\ given.dicts[Cli][k] \notin given.rules[r].allowed[<<k>>]

Lacks(r) == \E p \in Conditional(given.rules[r].allowed) : Unknown(p)

\* In the first evaluation, or a later one.
Due(first, c, r) ==
    /\ given.rules[r].tool = given.calls[c].tool /\ Strict(r)
    /\ Lacks(r) \/ (Withheld(r) /\ Undisturbed(IF first THEN c ELSE Len(given.calls)))

\* The rules already applied have reported what they must.
ReportsInv ==
    phase \in {"building", "merging", "rules"} =>
        \A c \in DOMAIN given.calls, r \in DOMAIN given.rules :
            Due(verdicts = <<>>, c, r) /\ (c < call \/ (c = call /\ r < rule))
                => Reported(violations, c, r)

VerdictsInv ==
    \A e \in DOMAIN verdicts, c \in DOMAIN given.calls, r \in DOMAIN given.rules :
        Due(e = 1, c, r) => Reported(verdicts[e], c, r)

IInv ==
    /\ given \in Inputs
    /\ TypeOK
    /\ NothingInvented /\ PlainStays
    /\ RefInv /\ FramesInv /\ RootsInv
    /\ InjectInv /\ LowInv /\ TopsInv
    /\ FreshInv /\ CopyInv /\ SpecialInv /\ PlainInv
    /\ ReportsInv /\ VerdictsInv
-----------------------------------------------------------------------------
(* The same for the dicts inside. *)

NestedStays == \A k \in NestedKeys, d \in Dicts : heap[d][k] \notin Values

\* Only what has a dict in the input refers to it, and the context under
\* construction and what is merged into it.
HomeInv ==
    \A x \in AllPayloads \union {Extra}, n \in Keys : given.dicts[x][n] \in Dicts =>
        \A d \in Dicts, k \in Keys :
            heap[d][k] = given.dicts[x][n] => k = n /\ d \in {x, Built, Copy}

\* Where there was a dict there is one.
HasInv ==
    \A k \in NestedKeys :
        /\ \A d \in Dicts : given.dicts[d][k] \in Dicts => heap[d][k] \in Dicts
        /\ Attached /\ given.cli /\ RuntimeGiven[k] \in Dicts => heap[Runtime][k] \in Dicts

\* The context refers to the trajectory's two objects when they are looked up.
LookupInv ==
    Started =>
        /\ phase = "building" /\ at = 2 => \A k \in Keys : heap[Built][k] = ExtraGiven[k]
        /\ RuntimeKey \in NestedKeys /\ at > 1 /\ ExtraGiven[RuntimeKey] \in Dicts =>
              heap[Built][RuntimeKey] = ExtraGiven[RuntimeKey]

\* After a source with a dict there, the context has one.
BuiltHasInv ==
    Started /\ RuntimeKey \in NestedKeys =>
        \A k \in NestedKeys : \A j \in 1..Upto(k) : S[j][k] \in Dicts => heap[Built][k] \in Dicts

FirstSomewhere(x, k) == \E c \in DOMAIN given.calls : FirstHolder(x, k, given.calls[c])

\* The dict of a payload gets into a context only as the first.
BuiltFirstInv ==
    RuntimeKey \in NestedKeys =>
        \A x \in AllPayloads, k \in NestedKeys :
            /\ given.dicts[x][k] \in Dicts /\ heap[Built][k] = given.dicts[x][k] => FirstSomewhere(x, k)
            /\ given.dicts[x][k] \in Dicts /\ phase = "merging" /\ heap[Copy][k] = given.dicts[x][k] =>
                  at \in 4..7 /\ Sources(Current)[at] = x

\* So only that of a first holder is written to.
WrittenInv ==
    RuntimeKey \in NestedKeys =>
        \A x \in AllPayloads, k \in NestedKeys :
            /\ given.dicts[x][k] \in Dicts
            /\ \/ \E l \in Keys : heap[given.dicts[x][k]][l] # given.dicts[given.dicts[x][k]][l]
               \/ \E i \in DOMAIN frames : i > 1 /\ frames[i].target = given.dicts[x][k]
            => FirstSomewhere(x, k)

WInv ==
    /\ NestedStays /\ HomeInv /\ HasInv /\ LookupInv
    /\ BuiltHasInv /\ BuiltFirstInv /\ WrittenInv

-----------------------------------------------------------------------------
(* Values inside of dicts, while nothing has a "context" or "runtime_context"  *)
(* of its own.                                                             *)

TrajectoryContext == given.dicts[Extra][ContextKey]
TrajectoryRuntime == given.dicts[Extra][RuntimeKey]
Low == {TrajectoryContext, TrajectoryRuntime, Runtime}

\* What has the nested dicts, and the keys they are under.
Holders == ({Extra, Cli, TrajectoryContext, TrajectoryRuntime} \union AllPayloads) \intersect Dicts
Nesting == NestedKeys \ Special

PlainInsideInv ==
    \A k \in PlainKeys, d \in Dicts : heap[d][k] \in Dicts => d \in {Extra, Built, Copy}

RuntimeRefInv == \A d \in Dicts, k \in Keys : heap[d][k] = Runtime => given.cli

LowFramesInv ==
    Clean => \A i \in DOMAIN frames :
                i > 1 => frames[i].target \notin Low /\ frames[i].source \notin Low

HolderInv ==
    Clean => \A x \in Holders, n \in Keys : given.dicts[x][n] \in Dicts =>
        \A d \in Dicts, k \in Keys :
            heap[d][k] = given.dicts[x][n] => k = n /\ d \in {x, Runtime, Built, Copy}

\* The merge inside of that of a payload goes on under key n; those inside of
\* this one do not write to a nested dict of a payload.
SecondAt(n) ==
    /\ n \notin frames[1].todo
    /\ frames[2].source \in Dicts /\ frames[2].target \in Dicts
    /\ phase = "injecting" => frames[2].source = given.dicts[Cli][n] /\ frames[2].target = Recorded[n]
    /\ phase = "merging" => frames[2].source = S[at][n] /\ frames[2].target = heap[Built][n]

SecondInv == Clean /\ Len(frames) >= 2 => \E n \in Keys \ Special : SecondAt(n)

DeepInv ==
    Clean => \A i \in DOMAIN frames, x \in Holders, n \in Keys \ Special :
                i > 2 /\ given.dicts[x][n] \in Dicts => frames[i].target # given.dicts[x][n]

\* The context has the dict of the first of the first m sources with one.
First(n, m) ==
    \/ heap[Built][n] = None /\ \A i \in 1..m : S[i][n] = None
    \/ \E i \in 1..m : /\ heap[Built][n] # None /\ heap[Built][n] = S[i][n]
                       /\ \A j \in 1..(i - 1) : S[j][n] = None

FirstInv == Clean /\ Started => \A n \in Nesting : First(n, Upto(n))

\* What a payload's dict a under n holds, once --context has been attached.
LeafGiven(a, n, l) == IF a = RuntimeGiven[n] THEN RuntimeLeaf(n, l) ELSE given.dicts[a][l]

\* That merge still has to go to item l of dict a.
Pending(a, l) == Len(frames) >= 2 /\ frames[2].target = a /\ l \in frames[2].todo

InjectLeafInv ==
    phase = "injecting" /\ Clean =>
        \A x \in Holders, n \in Nesting, l \in PlainKeys : given.dicts[x][n] \in Dicts =>
            heap[given.dicts[x][n]][l] =
                IF n \in frames[1].todo \/ Pending(given.dicts[x][n], l)
                THEN given.dicts[given.dicts[x][n]][l] ELSE LeafGiven(given.dicts[x][n], n, l)

\* Where the trajectory has the dict, the runtime context's is not written to.
RuntimeKeptInv ==
    Clean /\ Attached =>
        \A n \in Nesting, l \in PlainKeys :
            TrajectoryHas(n) /\ RuntimeGiven[n] \in Dicts =>
                heap[RuntimeGiven[n]][l] = RuntimeLeaf(n, l)

\* In the first context, only the dict in it is.
InFirst == call = 1 /\ verdicts = <<>>

FirstHeapInv ==
    InFirst =>
        /\ phase \in {"loaded", "injecting", "ready"} => \A k \in Keys : heap[Built][k] = None
        /\ Attached /\ Clean =>
              \A x \in Holders, n \in Nesting, l \in PlainKeys :
                  given.dicts[x][n] \in Dicts /\ given.dicts[x][n] # heap[Built][n] =>
                      heap[given.dicts[x][n]][l] = LeafGiven(given.dicts[x][n], n, l)

\* The sources up to this one have been merged, as far as the value goes.
UptoLeaf(n, l) ==
    IF phase = "merging" /\ n \notin frames[1].todo /\ ~Pending(heap[Built][n], l) THEN at ELSE at - 1

Seen(n, l) == IF heap[Built][n] \in Dicts THEN heap[heap[Built][n]][l] ELSE None

CliLeafInv ==
    Clean /\ Started =>
        \A n \in Nesting, l \in PlainKeys :
            /\ TrajectoryHas(n) /\ UptoLeaf(n, l) = 8
            /\ RuntimeGiven[n] \in Dicts /\ RuntimeLeaf(n, l) # None
            => Seen(n, l) = RuntimeLeaf(n, l)

\* What the i-th source adds: the runtime context nothing when it is merged into
\* itself.
Adds(i, n, l) ==
    IF S[i][n] \notin Dicts \/ (i = 8 /\ ~TrajectoryHas(n)) THEN None
    ELSE LeafGiven(S[i][n], n, l)

LatestLeaf(n, l, m) ==
    \/ Seen(n, l) = None /\ \A i \in 1..m : Adds(i, n, l) = None
    \/ \E i \in 1..m :
          /\ Seen(n, l) # None /\ Seen(n, l) = Adds(i, n, l)
          /\ \A j \in (i + 1)..m : Adds(j, n, l) = None

FirstLeafInv ==
    Clean /\ Started /\ InFirst =>
        \A n \in Nesting, l \in PlainKeys : LatestLeaf(n, l, UptoLeaf(n, l))

NInv ==
    /\ PlainInsideInv /\ RuntimeRefInv /\ LowFramesInv /\ HolderInv
    /\ SecondInv /\ DeepInv /\ FirstInv
    /\ InjectLeafInv /\ RuntimeKeptInv /\ FirstHeapInv
    /\ CliLeafInv /\ FirstLeafInv

-----------------------------------------------------------------------------
(* What is given. *)

\* The parts of an input have the types InputsAssumption gives them.
LEMMA GivenTyped ==
    ASSUME given \in Inputs
    PROVE  /\ given.dicts \in [Dicts -> Objects]
           /\ given.cli \in BOOLEAN
           /\ given.calls \in Seq(ToolCalls)
           /\ given.rules \in Seq(Rules)
           /\ given.forbidden \subseteq Tools
  BY InputsAssumption

LEMMA ItemTyped ==
    ASSUME given \in Inputs, NEW d \in Dicts, NEW k \in Keys
    PROVE  given.dicts[d][k] \in Values \union Dicts \union {None}
  BY GivenTyped DEF Objects

LEMMA HeapTyped ==
    ASSUME TypeOK, NEW d \in Dicts, NEW k \in Keys
    PROVE  heap[d] \in Objects /\ heap[d][k] \in Values \union Dicts \union {None}
  BY DEF TypeOK, Objects

LEMMA PayloadsTyped ==
    ASSUME given \in Inputs
    PROVE  /\ AllPayloads \subseteq Dicts
           /\ AllPayloads \intersect {Extra, Cli, Runtime, Built, Copy} = {}
           /\ \A c \in DOMAIN given.calls : PayloadsOf(given.calls[c]) \subseteq AllPayloads
  <1>1. \A c \in DOMAIN given.calls : given.calls[c] \in ToolCalls
    BY GivenTyped
  <1>2. \A c \in DOMAIN given.calls : PayloadsOf(given.calls[c]) \subseteq Dicts
    BY <1>1 DEF ToolCalls, Payloads, PayloadsOf
  <1>3. \A c \in DOMAIN given.calls :
            PayloadsOf(given.calls[c]) \intersect {Extra, Cli, Runtime, Built, Copy} = {}
    BY PayloadsAssumption
  <1> QED
    BY <1>2, <1>3 DEF AllPayloads

LEMMA ExtraGivenItems ==
    ASSUME given \in Inputs, NEW k \in Keys
    PROVE  /\ ExtraGiven[k] = IF k = RuntimeKey /\ given.cli THEN Runtime ELSE given.dicts[Extra][k]
           /\ ExtraGiven[k] \in Values \union Dicts \union {None}
  <1>1. given.dicts[Extra] \in [Keys -> Values \union Dicts \union {None}]
    BY GivenTyped, DictsAssumption DEF Objects
  <1> QED
    BY <1>1, DictsAssumption DEF ExtraGiven

LEMMA GivenItems ==
    ASSUME given \in Inputs, NEW d, NEW k \in Keys
    PROVE  /\ Given(d)[k] = IF d \in Dicts THEN given.dicts[d][k] ELSE None
           /\ Given(d)[k] \in Values \union Dicts \union {None}
  BY ItemTyped DEF Given, Empty

LEMMA RuntimeGivenItems ==
    ASSUME given \in Inputs, NEW k \in Keys
    PROVE  RuntimeGiven[k] =
              IF given.cli /\ given.dicts[Cli][k] # None
                 /\ ~(given.dicts[Cli][k] \in Dicts /\ Recorded[k] \in Dicts)
              THEN given.dicts[Cli][k] ELSE Recorded[k]
  BY DEF RuntimeGiven

\* The sources of a context, one by one.
LEMMA SourceItems ==
    ASSUME given \in Inputs, call \in DOMAIN given.calls
    PROVE  /\ S[1] = ExtraGiven
           /\ S[2] = Given(given.dicts[Extra][ContextKey])
           /\ S[3] = RuntimeGiven /\ S[8] = RuntimeGiven
           /\ S[4] = Given(Current.input) /\ S[5] = Given(Current.output)
           /\ S[6] = Given(Current.args) /\ S[7] = Given(Current.result)
           /\ {Current.input, Current.output, Current.args, Current.result} \subseteq AllPayloads \union {None}
           /\ Sources(Current)[1] = Extra
           /\ Sources(Current)[2] = heap[Built][ContextKey]
           /\ Sources(Current)[3] = heap[Built][RuntimeKey]
           /\ Sources(Current)[8] = heap[Built][RuntimeKey]
           /\ Sources(Current)[4] = Current.input /\ Sources(Current)[5] = Current.output
           /\ Sources(Current)[6] = Current.args /\ Sources(Current)[7] = Current.result
  <1>1. PayloadsOf(Current) \subseteq AllPayloads
    BY PayloadsTyped DEF Current
  <1> QED
    BY <1>1 DEF S, GivenSources, Sources, PayloadsOf
-----------------------------------------------------------------------------
(* One step, seen from the stack and from the heap. *)

LEMMA TopTyped ==
    ASSUME TypeOK, frames # <<>>
    PROVE  /\ Len(frames) \in Nat \ {0} /\ Len(frames) \in DOMAIN frames
           /\ DOMAIN frames = 1..Len(frames) /\ 1 \in DOMAIN frames
           /\ Top = frames[Len(frames)]
           /\ \A i \in DOMAIN frames :
                 /\ frames[i] \in Frames
                 /\ frames[i].target \in Dicts /\ frames[i].source \in Dicts
                 /\ frames[i].todo \subseteq Keys /\ frames[i].keys \subseteq Keys
  <1>1. frames \in Seq(Frames)
    BY DEF TypeOK
  <1>2. Len(frames) \in Nat \ {0} /\ DOMAIN frames = 1..Len(frames)
    BY <1>1
  <1>3. \A i \in DOMAIN frames : frames[i] \in Frames
    BY <1>1
  <1>4. \A f \in Frames : /\ f.target \in Dicts /\ f.source \in Dicts
                          /\ f.todo \subseteq Keys /\ f.keys \subseteq Keys
    BY DEF Frames
  <1> QED
    BY <1>2, <1>3, <1>4 DEF Top

LEMMA FrameTyped ==
    ASSUME NEW t \in Dicts, NEW s \in Dicts, NEW ks \in SUBSET Keys
    PROVE  /\ Frame(t, s, ks) \in Frames
           /\ Frame(t, s, ks).target = t /\ Frame(t, s, ks).source = s
           /\ Frame(t, s, ks).keys = ks /\ Frame(t, s, ks).todo = ks
  BY DEF Frame, Frames

\* Taking an item leaves every frame as it is, but for what the last one still
\* has to do.
LEMMA TakenShape ==
    ASSUME TypeOK, frames # <<>>, NEW k
    PROVE  /\ Taken(k) \in Seq(Frames) /\ Len(Taken(k)) = Len(frames)
           /\ \A i \in DOMAIN frames :
                 /\ Taken(k)[i].target = frames[i].target /\ Taken(k)[i].source = frames[i].source
                 /\ Taken(k)[i].keys = frames[i].keys
                 /\ Taken(k)[i].todo = IF i = Len(frames) THEN frames[i].todo \ {k} ELSE frames[i].todo
  <1>1. [Top EXCEPT !.todo = @ \ {k}] \in Frames
    BY TopTyped DEF Frames
  <1>2. Taken(k) = [frames EXCEPT ![Len(frames)] = [Top EXCEPT !.todo = @ \ {k}]]
    BY DEF Taken, Top
  <1>3. frames \in Seq(Frames)
    BY DEF TypeOK
  <1>4. Taken(k) \in Seq(Frames) /\ Len(Taken(k)) = Len(frames)
    BY <1>1, <1>2, <1>3, TopTyped
  <1>5. Taken(k)[Len(frames)] = [Top EXCEPT !.todo = @ \ {k}]
    BY <1>2, TopTyped
  <1>6. \A i \in DOMAIN frames : i # Len(frames) => Taken(k)[i] = frames[i]
    BY <1>2, TopTyped
  <1> HIDE DEF Taken
  <1>7. /\ Taken(k)[Len(frames)].target = Top.target /\ Taken(k)[Len(frames)].source = Top.source
        /\ Taken(k)[Len(frames)].keys = Top.keys /\ Taken(k)[Len(frames)].todo = Top.todo \ {k}
    <2>1. Top \in Frames
      BY TopTyped
    <2> QED
      BY <1>5, <2>1 DEF Frames
  <1>8. Top = frames[Len(frames)]
    BY DEF Top
  <1> QED
    BY <1>4, <1>6, <1>7, <1>8

LEMMA TakenAt ==
    ASSUME TypeOK, frames # <<>>, NEW k, NEW i \in DOMAIN frames
    PROVE  /\ Len(Taken(k)) = Len(frames)
           /\ Taken(k)[i].target = frames[i].target /\ Taken(k)[i].source = frames[i].source
           /\ Taken(k)[i].keys = frames[i].keys /\ Taken(k)[i].todo \subseteq frames[i].todo
           /\ Taken(k)[i].todo = IF i = Len(frames) THEN frames[i].todo \ {k} ELSE frames[i].todo
  <1>1. /\ Len(Taken(k)) = Len(frames)
        /\ Taken(k)[i].target = frames[i].target /\ Taken(k)[i].source = frames[i].source
        /\ Taken(k)[i].keys = frames[i].keys
        /\ Taken(k)[i].todo = IF i = Len(frames) THEN frames[i].todo \ {k} ELSE frames[i].todo
    BY TakenShape
  <1> HIDE DEF Taken
  <1> QED
    BY <1>1

LEMMA PushedShape ==
    ASSUME TypeOK, frames # <<>>, NEW k, NEW f \in Frames
    PROVE  /\ Append(Taken(k), f) \in Seq(Frames)
           /\ Len(Append(Taken(k), f)) = Len(frames) + 1
           /\ DOMAIN Append(Taken(k), f) = DOMAIN frames \union {Len(frames) + 1}
           /\ \A i \in DOMAIN frames : Append(Taken(k), f)[i] = Taken(k)[i]
           /\ Append(Taken(k), f)[Len(frames) + 1] = f
  <1>1. Taken(k) \in Seq(Frames) /\ Len(Taken(k)) = Len(frames)
    BY TakenShape
  <1>2. Len(frames) \in Nat /\ DOMAIN frames = 1..Len(frames)
    BY TopTyped
  <1> HIDE DEF Taken
  <1> QED
    BY <1>1, <1>2

LEMMA PoppedShape ==
    ASSUME TypeOK, frames # <<>>
    PROVE  LET p == SubSeq(frames, 1, Len(frames) - 1) IN
           /\ p \in Seq(Frames) /\ Len(p) = Len(frames) - 1
           /\ DOMAIN p = 1..(Len(frames) - 1) /\ DOMAIN p \subseteq DOMAIN frames
           /\ \A i \in DOMAIN p : p[i] = frames[i]
  <1>1. frames \in Seq(Frames) /\ Len(frames) \in Nat \ {0} /\ DOMAIN frames = 1..Len(frames)
    BY TopTyped DEF TypeOK
  <1> QED
    BY <1>1

LEMMA RecursionTyped ==
    ASSUME TypeOK, frames # <<>>, NEW k \in Keys, Nested(Top.target, Top.source, k)
    PROVE  /\ Recursion(Top.target, Top.source, k) \in Frames
           /\ Recursion(Top.target, Top.source, k).target = heap[Top.target][k]
           /\ Recursion(Top.target, Top.source, k).source = heap[Top.source][k]
           /\ Recursion(Top.target, Top.source, k).todo = Held(heap[Top.source][k])
           /\ Recursion(Top.target, Top.source, k).keys = Held(heap[Top.source][k])
  <1> DEFINE t == heap[Top.target][k]
             s == heap[Top.source][k]
  <1>1. t \in Dicts /\ s \in Dicts /\ Held(s) \in SUBSET Keys
    BY DEF Nested, Held
  <1>2. Recursion(Top.target, Top.source, k) = Frame(t, s, Held(s))
    BY DEF Recursion
  <1> HIDE DEF t, s
  <1>3. /\ Frame(t, s, Held(s)) \in Frames
        /\ Frame(t, s, Held(s)).target = t /\ Frame(t, s, Held(s)).source = s
        /\ Frame(t, s, Held(s)).todo = Held(s) /\ Frame(t, s, Held(s)).keys = Held(s)
    BY <1>1, FrameTyped
  <1> QED
    BY <1>2, <1>3 DEF t, s

\* An item of a dict changes when one is assigned to it, when "merged" is made
\* and attached, and when a context or the copy of a payload is.
LEMMA HeapStep ==
    ASSUME given \in Inputs, TypeOK, [Next]_vars, NEW d \in Dicts, NEW k \in Keys
    PROVE  \/ heap'[d][k] = heap[d][k]
           \/ /\ Assign /\ frames # <<>>
              /\ d = Top.target /\ k \in Top.todo /\ ~Nested(Top.target, Top.source, k)
              /\ heap'[d][k] = heap[Top.source][k]
           \/ Inject /\ d = Runtime /\ heap'[d][k] = Existing[k]
           \/ Injected /\ d = Extra /\ k = RuntimeKey /\ heap'[d][k] = Runtime
           \/ (Evaluate \/ NextCall) /\ d = Built /\ heap'[d][k] = None
           \/ Begin /\ d = Copy /\ heap'[d][k] = heap[Source][k]
  <1>0. heap \in [Dicts -> Objects] /\ heap[d] \in [Keys -> Values \union Dicts \union {None}]
    BY DEF TypeOK, Objects
  <1>1. CASE Assign
    <2>1. /\ frames # <<>>
          /\ \E l \in Top.todo : /\ ~Nested(Top.target, Top.source, l)
                                 /\ heap' = Written(Top.target, Top.source, l)
      BY <1>1 DEF Assign, Iterating
    <2>2. PICK l \in Top.todo : /\ ~Nested(Top.target, Top.source, l)
                                /\ heap' = Written(Top.target, Top.source, l)
      BY <2>1
    <2>3. heap' = [heap EXCEPT ![Top.target][l] = heap[Top.source][l]]
      BY <2>2 DEF Written
    <2>4. Top.target \in Dicts /\ l \in Keys
      BY <2>1, TopTyped
    <2>5. CASE d = Top.target /\ k = l
      <3>1. heap'[d][k] = heap[Top.source][l]
        BY <1>0, <2>3, <2>4, <2>5
      <3> QED
        BY <1>1, <2>1, <2>2, <2>5, <3>1
    <2>6. CASE ~(d = Top.target /\ k = l)
      BY <1>0, <2>3, <2>4, <2>6
    <2> QED
      BY <2>5, <2>6
  <1>2. CASE Inject
    BY <1>0, <1>2, DictsAssumption DEF Inject
  <1>3. CASE Injected
    BY <1>0, <1>3, DictsAssumption DEF Injected
  <1>4. CASE Evaluate \/ NextCall
    BY <1>0, <1>4, DictsAssumption DEF Evaluate, NextCall, Empty
  <1>5. CASE Begin
    BY <1>0, <1>5, DictsAssumption DEF Begin
  <1>6. CASE \/ NoContext \/ Recurse \/ Leave \/ Raise \/ EvaluateNothing \/ Skip \/ Merged
             \/ Return \/ CheckForbidden \/ CheckRule \/ UNCHANGED vars
    BY <1>6 DEF NoContext, Recurse, Leave, Raise, EvaluateNothing, Skip, Merged,
        Return, CheckForbidden, CheckRule, vars
  <1> QED
    BY <1>1, <1>2, <1>3, <1>4, <1>5, <1>6 DEF Next

\* A frame stays, with less to do; is pushed for an item; or is the first.
LEMMA FramesStep ==
    ASSUME given \in Inputs, TypeOK, [Next]_vars, NEW i \in DOMAIN frames'
    PROVE  \/ /\ i \in DOMAIN frames /\ phase' = phase
              /\ frames'[i].target = frames[i].target /\ frames'[i].source = frames[i].source
              /\ frames'[i].keys = frames[i].keys /\ frames'[i].todo \subseteq frames[i].todo
           \/ /\ Recurse /\ frames # <<>> /\ i = Len(frames) + 1 /\ i > 1
              /\ \E k \in Top.todo : /\ Nested(Top.target, Top.source, k)
                                     /\ frames' = Append(Taken(k), frames'[i])
                                     /\ frames'[i].target = heap[Top.target][k]
                                     /\ frames'[i].source = heap[Top.source][k]
                                     /\ frames'[i].todo = Held(heap[Top.source][k])
                                     /\ frames'[i].keys = Held(heap[Top.source][k])
           \/ Inject /\ i = 1 /\ frames' = <<Frame(Runtime, Cli, Held(Cli))>>
           \/ Begin /\ i = 1 /\ frames' = <<Frame(Built, Copy, Held(Source))>>
  <1>1. CASE Assign
    <2>1. frames # <<>> /\ (\E k \in Top.todo : frames' = Taken(k)) /\ phase' = phase
      BY <1>1 DEF Assign, Iterating
    <2>2. PICK k \in Top.todo : frames' = Taken(k)
      BY <2>1
    <2>3. DOMAIN Taken(k) = DOMAIN frames
      <3>1. Taken(k) \in Seq(Frames) /\ Len(Taken(k)) = Len(frames) /\ frames \in Seq(Frames)
        BY <2>1, TakenShape DEF TypeOK
      <3> HIDE DEF Taken
      <3> QED
        BY <3>1
    <2>4. i \in DOMAIN frames
      BY <2>2, <2>3
    <2>5. /\ Taken(k)[i].target = frames[i].target /\ Taken(k)[i].source = frames[i].source
          /\ Taken(k)[i].keys = frames[i].keys /\ Taken(k)[i].todo \subseteq frames[i].todo
      BY <2>1, <2>4, TakenAt
    <2> QED
      BY <2>1, <2>2, <2>4, <2>5
  <1>2. CASE Recurse
    <2>1. /\ frames # <<>> /\ phase' = phase
          /\ \E k \in Top.todo : /\ Nested(Top.target, Top.source, k)
                                 /\ frames' = Append(Taken(k), Recursion(Top.target, Top.source, k))
      BY <1>2 DEF Recurse, Iterating
    <2>2. PICK k \in Top.todo : /\ Nested(Top.target, Top.source, k)
                                /\ frames' = Append(Taken(k), Recursion(Top.target, Top.source, k))
      BY <2>1
    <2>3. k \in Keys /\ Len(frames) \in Nat \ {0}
      BY <2>1, TopTyped
    <2>4. CASE i \in DOMAIN frames
      <3>1. frames'[i] = Taken(k)[i]
        BY <2>1, <2>2, <2>3, <2>4, RecursionTyped, PushedShape
      <3>2. /\ Taken(k)[i].target = frames[i].target /\ Taken(k)[i].source = frames[i].source
            /\ Taken(k)[i].keys = frames[i].keys /\ Taken(k)[i].todo \subseteq frames[i].todo
        BY <2>1, <2>4, TakenAt
      <3> QED
        BY <2>1, <2>4, <3>1, <3>2
    <2>5. CASE i = Len(frames) + 1
      <3>1. frames'[i] = Recursion(Top.target, Top.source, k)
        BY <2>1, <2>2, <2>3, <2>5, RecursionTyped, PushedShape
      <3> QED
        BY <1>2, <2>1, <2>2, <2>3, <2>5, <3>1, RecursionTyped
    <2>6. DOMAIN frames' = DOMAIN frames \union {Len(frames) + 1}
      BY <2>1, <2>2, <2>3, RecursionTyped, PushedShape
    <2> QED
      BY <2>4, <2>5, <2>6
  <1>3. CASE Leave
    <2>1. frames # <<>> /\ frames' = SubSeq(frames, 1, Len(frames) - 1) /\ phase' = phase
      BY <1>3 DEF Leave, Iterating
    <2> QED
      BY <2>1, PoppedShape
  <1>4. CASE Inject
    BY <1>4 DEF Inject
  <1>5. CASE Begin
    BY <1>5 DEF Begin
  <1>6. CASE Injected \/ Raise \/ Merged
    BY <1>6 DEF Injected, Raise, Merged
  <1>7. CASE UNCHANGED vars
    BY <1>7 DEF vars
  <1>8. CASE \/ NoContext \/ Evaluate \/ EvaluateNothing \/ Skip
             \/ Return \/ CheckForbidden \/ CheckRule \/ NextCall
    <2>1. phase \notin {"injecting", "merging"} /\ frames' = frames
      BY <1>8 DEF NoContext, Evaluate, EvaluateNothing, Skip, Return, CheckForbidden, CheckRule, NextCall
    <2>2. frames' = <<>>
      BY <2>1 DEF TypeOK
    <2> QED
      BY <2>2
  <1> QED
    BY <1>1, <1>2, <1>3, <1>4, <1>5, <1>6, <1>7, <1>8 DEF Next

-----------------------------------------------------------------------------
(* The type invariant. *)

LEMMA NothingFound == <<>> \in Found
  BY DEF Found

LEMMA AppendNotEmpty ==
    ASSUME NEW T, NEW s \in Seq(T), NEW x \in T
    PROVE  Append(s, x) # <<>>
  <1>1. Len(Append(s, x)) = Len(s) + 1 /\ Len(s) \in Nat
    OBVIOUS
  <1> QED
    BY <1>1

LEMMA VerdictAdded ==
    ASSUME TypeOK, Return \/ EvaluateNothing
    PROVE  verdicts' # <<>>
  BY NothingFound, AppendNotEmpty DEF Return, EvaluateNothing, TypeOK

LEMMA InitTyped == Init => given \in Inputs /\ TypeOK
  <1> SUFFICES ASSUME Init PROVE given \in Inputs /\ TypeOK
    OBVIOUS
  <1>1. given \in Inputs
    BY DEF Init
  <1>2. heap \in [Dicts -> Objects] /\ given.calls \in Seq(ToolCalls) /\ given.rules \in Seq(Rules)
    BY <1>1, GivenTyped DEF Init
  <1>3. call \in 1..(Len(given.calls) + 1) /\ rule \in 0..(Len(given.rules) + 1)
    BY <1>2 DEF Init
  <1>4. Len(verdicts) <= MaxEvaluations
    BY MaxEvaluationsAssumption DEF Init
  <1>5. violations \in Found /\ verdicts \in Seq(Found) /\ frames \in Seq(Frames)
    BY NothingFound DEF Init
  <1> QED
    BY <1>1, <1>2, <1>3, <1>4, <1>5 DEF Init, TypeOK

LEMMA ReportTyped ==
    ASSUME given \in Inputs, TypeOK, phase = "rules", NEW n \in 0..Len(given.rules)
    PROVE  Report(n) \in Found
  BY DEF TypeOK, Report, Found

LEMMA FoundKept == given' = given => Found' = Found
  BY DEF Found

\* What is written into a dict makes it no less a dict.
LEMMA HeapStaysTyped ==
    ASSUME given \in Inputs, TypeOK, [Next]_vars
    PROVE  heap' \in [Dicts -> Objects]
  <1>0. /\ heap \in [Dicts -> Objects] /\ Empty \in Objects
        /\ Runtime \in Dicts /\ Extra \in Dicts /\ Built \in Dicts /\ Copy \in Dicts
    BY DictsAssumption DEF TypeOK, Empty, Objects
  <1>1. \A d \in Dicts, k \in Keys, v \in Values \union Dicts \union {None} :
            [heap EXCEPT ![d][k] = v] \in [Dicts -> Objects]
    BY <1>0 DEF Objects
  <1>2. \A d \in Dicts, o \in Objects : [heap EXCEPT ![d] = o] \in [Dicts -> Objects]
    BY <1>0
  <1>3. CASE Assign
    <2>1. frames # <<>> /\ \E l \in Top.todo : heap' = [heap EXCEPT ![Top.target][l] = heap[Top.source][l]]
      BY <1>3 DEF Assign, Iterating, Written
    <2>2. PICK l \in Top.todo : heap' = [heap EXCEPT ![Top.target][l] = heap[Top.source][l]]
      BY <2>1
    <2>3. Top.target \in Dicts /\ Top.source \in Dicts /\ l \in Keys
      BY <2>1, TopTyped
    <2> QED
      BY <1>1, <2>2, <2>3, HeapTyped
  <1>4. CASE Inject
    <2>1. Existing \in Objects
      BY <1>0 DEF Existing
    <2> QED
      BY <1>0, <1>2, <1>4, <2>1 DEF Inject
  <1>5. CASE Injected
    BY <1>0, <1>1, <1>5, DictsAssumption DEF Injected, Special
  <1>6. CASE Evaluate \/ NextCall
    BY <1>0, <1>2, <1>6 DEF Evaluate, NextCall
  <1>7. CASE Begin
    <2>1. heap[Source] \in Objects
      BY <1>0, <1>7 DEF Begin
    <2> QED
      BY <1>0, <1>2, <1>7, <2>1 DEF Begin
  <1>8. CASE \/ NoContext \/ Recurse \/ Leave \/ Raise \/ EvaluateNothing \/ Skip \/ Merged
             \/ Return \/ CheckForbidden \/ CheckRule \/ UNCHANGED vars
    BY <1>0, <1>8 DEF NoContext, Recurse, Leave, Raise, EvaluateNothing, Skip, Merged,
        Return, CheckForbidden, CheckRule, vars
  <1> QED
    BY <1>3, <1>4, <1>5, <1>6, <1>7, <1>8 DEF Next

LEMMA FramesStayTyped ==
    ASSUME given \in Inputs, TypeOK, [Next]_vars
    PROVE  frames' \in Seq(Frames) /\ (frames' # <<>> <=> phase' \in {"injecting", "merging"})
  <1>0. frames \in Seq(Frames) /\ (frames # <<>> <=> phase \in {"injecting", "merging"})
    BY DEF TypeOK
  <1>1. CASE Assign
    <2>1. frames # <<>> /\ (\E k \in Top.todo : frames' = Taken(k)) /\ phase' = phase
      BY <1>1 DEF Assign, Iterating
    <2>2. frames' \in Seq(Frames) /\ Len(frames') = Len(frames) /\ Len(frames) \in Nat \ {0}
      BY <2>1, TakenShape, TopTyped
    <2>3. frames' # <<>>
      BY <2>2
    <2> QED
      BY <1>0, <2>1, <2>2, <2>3
  <1>2. CASE Recurse
    <2>1. /\ frames # <<>> /\ phase' = phase
          /\ \E k \in Top.todo : /\ Nested(Top.target, Top.source, k)
                                 /\ frames' = Append(Taken(k), Recursion(Top.target, Top.source, k))
      BY <1>2 DEF Recurse, Iterating
    <2>2. PICK k \in Top.todo : /\ Nested(Top.target, Top.source, k)
                                /\ frames' = Append(Taken(k), Recursion(Top.target, Top.source, k))
      BY <2>1
    <2>3. k \in Keys /\ Len(frames) \in Nat
      BY <2>1, TopTyped
    <2>4. frames' \in Seq(Frames) /\ Len(frames') = Len(frames) + 1
      BY <2>1, <2>2, <2>3, RecursionTyped, PushedShape
    <2>5. frames' # <<>>
      BY <2>3, <2>4
    <2> QED
      BY <1>0, <2>1, <2>4, <2>5
  <1>3. CASE Leave
    <2>1. /\ frames # <<>> /\ Len(frames) > 1 /\ phase' = phase
          /\ frames' = SubSeq(frames, 1, Len(frames) - 1)
      BY <1>3 DEF Leave, Iterating
    <2>2. frames' \in Seq(Frames) /\ Len(frames') = Len(frames) - 1 /\ Len(frames) \in Nat \ {0, 1}
      BY <2>1, PoppedShape, TopTyped
    <2>3. frames' # <<>>
      BY <2>2
    <2> QED
      BY <1>0, <2>1, <2>2, <2>3
  <1>4. CASE Inject \/ Begin
    <2>1. CASE Inject
      <3>1. Frame(Runtime, Cli, Held(Cli)) \in Frames
        BY FrameTyped, DictsAssumption DEF Held
      <3> QED
        BY <2>1, <3>1 DEF Inject
    <2>2. CASE Begin
      <3>1. Frame(Built, Copy, Held(Source)) \in Frames
        BY FrameTyped, DictsAssumption DEF Held
      <3> QED
        BY <2>2, <3>1 DEF Begin
    <2> QED
      BY <1>4, <2>1, <2>2
  <1>5. CASE Injected \/ Raise \/ Merged
    <2>1. frames' = <<>> /\ phase' \in {"ready", "raised", "rules", "building"}
      BY <1>5 DEF Injected, Raise, Merged, Onward
    <2> QED
      BY <2>1
  <1>6. CASE \/ NoContext \/ Evaluate \/ EvaluateNothing \/ Skip \/ Return
             \/ CheckForbidden \/ CheckRule \/ NextCall \/ UNCHANGED vars
    BY <1>0, <1>6 DEF NoContext, Evaluate, EvaluateNothing, Skip, Onward, Return,
        CheckForbidden, CheckRule, NextCall, vars
  <1> QED
    BY <1>1, <1>2, <1>3, <1>4, <1>5, <1>6 DEF Next

LEMMA NextTyped ==
    ASSUME given \in Inputs, TypeOK, [Next]_vars
    PROVE  given' = given /\ TypeOK'
  <1>0. /\ given.calls \in Seq(ToolCalls) /\ given.rules \in Seq(Rules)
        /\ heap' \in [Dicts -> Objects] /\ frames' \in Seq(Frames)
        /\ frames' # <<>> <=> phase' \in {"injecting", "merging"}
    BY GivenTyped, HeapStaysTyped, FramesStayTyped
  <1>1. given' = given /\ Found' = Found
    <2>1. given' = given
      BY DEF Next, NoContext, Inject, Injected, Assign, Recurse, Leave, Raise, Evaluate,
          EvaluateNothing, Begin, Skip, Merged, Return, CheckForbidden, CheckRule, NextCall, vars
    <2> QED
      BY <2>1, FoundKept
  <1> DEFINE Rest ==
         /\ phase \in {"loaded", "injecting", "ready", "building", "merging", "rules", "raised"}
         /\ call \in 1..(Len(given.calls) + 1)
         /\ at \in 1..9
         /\ rule \in 0..(Len(given.rules) + 1)
         /\ violations \in Found
         /\ verdicts \in Seq(Found)
         /\ Len(verdicts) <= MaxEvaluations
         /\ phase \in {"building", "merging", "rules"} => Len(verdicts) < MaxEvaluations
         /\ phase \in {"building", "merging"} => at \in 1..8
         /\ phase = "merging" => call \in DOMAIN given.calls
         /\ phase = "rules" => at = 9 /\ call \in DOMAIN given.calls
         /\ phase # "rules" => rule = 0
  <1>2. Rest /\ (frames # <<>> => phase \in {"injecting", "merging"})
    BY DEF TypeOK
  <1>3. Rest'
    <2>1. CASE NoContext \/ Inject \/ Injected \/ Raise
      BY <1>1, <1>2, <2>1 DEF NoContext, Inject, Injected, Raise
    <2>2. CASE Assign \/ Recurse \/ Leave \/ UNCHANGED vars
      BY <1>1, <1>2, <2>2 DEF Assign, Recurse, Leave, vars
    <2>3. CASE Evaluate
      BY <1>0, <1>1, <1>2, <2>3, NothingFound DEF Evaluate
    <2>4. CASE EvaluateNothing
      BY <1>1, <1>2, <2>4, NothingFound, MaxEvaluationsAssumption DEF EvaluateNothing
    <2>5. CASE Begin
      BY <1>1, <1>2, <2>5 DEF Begin
    <2>6. CASE Skip \/ Merged
      <3>1. phase \in {"building", "merging"} /\ call \in DOMAIN given.calls
        BY <1>2, <2>6 DEF Skip, Merged
      <3>2. /\ at' = at + 1
            /\ phase' = IF at = 8 THEN "rules" ELSE "building"
        BY <2>6 DEF Skip, Merged, Onward
      <3>3. /\ given' = given /\ heap' = heap /\ call' = call /\ rule' = rule
            /\ violations' = violations /\ verdicts' = verdicts
        BY <2>6 DEF Skip, Merged
      <3> QED
        BY <1>1, <1>2, <3>1, <3>2, <3>3
    <2>7. CASE Return
      BY <1>1, <1>2, <2>7, MaxEvaluationsAssumption DEF Return
    <2>8. CASE CheckForbidden
      <3>1. violations' \in Found
        BY <1>0, <1>2, <2>8, ReportTyped DEF CheckForbidden
      <3> QED
        BY <1>0, <1>1, <1>2, <2>8, <3>1 DEF CheckForbidden
    <2>9. CASE CheckRule
      <3>1. violations' \in Found
        BY <1>0, <1>2, <2>9, ReportTyped DEF CheckRule
      <3> QED
        BY <1>0, <1>1, <1>2, <2>9, <3>1 DEF CheckRule
    <2>10. CASE NextCall
      BY <1>0, <1>1, <1>2, <2>10 DEF NextCall
    <2> QED
      BY <2>1, <2>2, <2>3, <2>4, <2>5, <2>6, <2>7, <2>8, <2>9, <2>10 DEF Next
  <1> QED
    BY <1>0, <1>1, <1>3 DEF TypeOK

-----------------------------------------------------------------------------
(* Who refers to what. *)

LEMMA Distinct ==
    /\ {Extra, Cli, Runtime, Built, Copy} \subseteq Dicts
    /\ Extra \notin {Cli, Runtime, Built, Copy} /\ Cli \notin {Runtime, Built, Copy}
    /\ Runtime \notin {Built, Copy} /\ Built # Copy
    /\ None \notin Dicts /\ None \notin Values /\ Dicts \intersect Values = {}
    /\ ContextKey \in Keys /\ RuntimeKey \in Keys /\ ContextKey # RuntimeKey
    /\ \A n \in Special : n = ContextKey \/ n = RuntimeKey
  BY DictsAssumption DEF Special, ContextKey, RuntimeKey

LEMMA RootsTyped ==
    ASSUME given \in Inputs
    PROVE  Roots \subseteq Dicts /\ Runtime \notin Roots /\ None \notin Roots
  BY PayloadsTyped, Distinct DEF Roots

\* The inputs are trees.
LEMMA Trees ==
    ASSUME given \in Inputs, NEW d \in Dicts, NEW k \in Keys
    PROVE  /\ given.dicts[d][k] \notin Roots \union {Runtime}
           /\ \A e \in Dicts, l \in Keys :
                 given.dicts[d][k] \in Dicts /\ given.dicts[e][l] = given.dicts[d][k] => e = d /\ l = k
           /\ given.dicts[Runtime][k] = None /\ given.dicts[Built][k] = None /\ given.dicts[Copy][k] = None
  <1>1. Roots \union {Runtime} = TopOf(given)
    BY DEF Roots, TopOf, AllPayloads
  <1> QED
    BY <1>1, TreesAssumption DEF Empty

\* A key never gets a value that was not under it somewhere, but for "merged".
LEMMA SameKey ==
    ASSUME IInv, [Next]_vars, NEW d \in Dicts, NEW k \in Keys
    PROVE  \/ heap'[d][k] = None
           \/ k = RuntimeKey /\ given.cli /\ heap'[d][k] = Runtime
           \/ \E e \in Dicts : heap'[d][k] = heap[e][k]
  <1>1. Existing[k] = None \/ \E e \in Dicts : Existing[k] = heap[e][k]
    BY DEF Existing, Empty
  <1>2. CASE Assign /\ frames # <<>> /\ heap'[d][k] = heap[Top.source][k]
    BY <1>2, TopTyped DEF IInv
  <1>3. CASE Injected /\ k = RuntimeKey /\ heap'[d][k] = Runtime
    BY <1>3 DEF Injected, IInv, RootsInv
  <1>4. CASE Begin /\ heap'[d][k] = heap[Source][k]
    BY <1>4 DEF Begin
  <1> QED
    BY <1>1, <1>2, <1>3, <1>4, HeapStep DEF IInv

\* The merge that goes on is that of the context, or of "merged", or one inside.
LEMMA TopFrame ==
    ASSUME IInv, frames # <<>>
    PROVE  /\ Top = frames[Len(frames)] /\ Top.todo \subseteq Top.keys
           /\ \/ /\ Len(frames) = 1 /\ phase = "injecting"
                 /\ Top.target = Runtime /\ Top.source = Cli /\ Top = frames[1]
              \/ /\ Len(frames) = 1 /\ phase = "merging"
                 /\ Top.target = Built /\ Top.source = Copy /\ Top = frames[1]
              \/ Len(frames) > 1 /\ Top.target \notin Roots /\ Top.source \notin Roots
  <1>1. /\ Len(frames) \in Nat \ {0} /\ Len(frames) \in DOMAIN frames
        /\ Top = frames[Len(frames)] /\ phase \in {"injecting", "merging"}
    BY TopTyped DEF IInv, TypeOK
  <1>2. CASE Len(frames) = 1
    BY <1>1, <1>2 DEF IInv, FramesInv
  <1>3. CASE Len(frames) > 1
    BY <1>1, <1>3 DEF IInv, FramesInv
  <1> QED
    BY <1>1, <1>2, <1>3

LEMMA NothingInventedPreserved ==
    ASSUME IInv, [Next]_vars
    PROVE  NothingInvented'
  <1>0. given' = given
    BY NextTyped DEF IInv
  <1> SUFFICES ASSUME NEW k \in Keys, UnknownKey(k), NEW d \in Dicts
               PROVE  heap'[d][k] = None
    BY <1>0 DEF NothingInvented, UnknownKey
  <1>1. \A e \in Dicts : heap[e][k] = None
    BY DEF IInv, NothingInvented
  <1> QED
    BY <1>1, SameKey DEF UnknownKey

LEMMA PlainStaysPreserved ==
    ASSUME IInv, [Next]_vars
    PROVE  PlainStays'
  <1>0. given' = given
    BY NextTyped DEF IInv
  <1> SUFFICES ASSUME NEW k \in PlainKeys \ Special, NEW d \in Dicts
               PROVE  heap'[d][k] \notin Dicts
    BY <1>0 DEF PlainStays, PlainKeys
  <1>1. k \in Keys /\ k # RuntimeKey /\ \A e \in Dicts : heap[e][k] \notin Dicts
    BY DEF IInv, PlainStays, PlainKeys, Special
  <1> QED
    BY <1>1, SameKey, Distinct

LEMMA RefPreserved ==
    ASSUME IInv, [Next]_vars
    PROVE  RefInv'
  <1>0. given' = given /\ given \in Inputs /\ TypeOK
    BY NextTyped DEF IInv
  <1>1. Roots' = Roots /\ ExtraGiven' = ExtraGiven
    BY <1>0 DEF Roots, AllPayloads, ExtraGiven
  <1> SUFFICES ASSUME NEW d \in Dicts, NEW k \in Keys
               PROVE  /\ heap'[d][k] \notin Roots
                      /\ \A n \in Special :
                            heap'[d][k] \in Dicts /\ heap'[d][k] = ExtraGiven[n]
                                => k = n /\ d \in {Extra, Built, Copy}
    BY <1>1 DEF RefInv
  <1>2. \A e \in Dicts : heap[e][k] \notin Roots
    BY DEF IInv, RefInv
  <1>3. heap'[d][k] \notin Roots
    BY <1>0, <1>2, SameKey, RootsTyped
  <1>4. ASSUME NEW n \in Special, heap'[d][k] \in Dicts, heap'[d][k] = ExtraGiven[n]
        PROVE  k = n /\ d \in {Extra, Built, Copy}
    <2>1. \A e \in Dicts : heap[e][k] = heap'[d][k] => k = n /\ e \in {Extra, Built, Copy}
      BY <1>4 DEF IInv, RefInv
    <2>2. CASE heap'[d][k] = heap[d][k]
      BY <2>1, <2>2
    <2>3. CASE Assign /\ frames # <<>> /\ d = Top.target /\ heap'[d][k] = heap[Top.source][k]
      <3>1. k = n /\ Top.source \in {Extra, Built, Copy}
        BY <1>0, <2>1, <2>3, TopTyped
      <3>2. Top.target = Built
        BY <2>3, <3>1, TopFrame, Distinct DEF Roots
      <3> QED
        BY <2>3, <3>1, <3>2
    <2>4. CASE Inject /\ heap'[d][k] = Existing[k]
      <3>1. heap[Extra][RuntimeKey] \in Dicts /\ heap'[d][k] = heap[heap[Extra][RuntimeKey]][k]
        BY <1>4, <2>4, Distinct DEF Existing, Empty
      <3>2. heap[Extra][RuntimeKey] \notin {Extra, Built, Copy}
        BY Distinct DEF IInv, RefInv, Roots
      <3> QED
        BY <2>1, <3>1, <3>2
    <2>5. CASE Injected /\ d = Extra /\ k = RuntimeKey /\ heap'[d][k] = Runtime
      <3>1. n # ContextKey
        BY <1>0, <1>4, <2>5, Trees, ExtraGivenItems, Distinct
      <3> QED
        BY <2>5, <3>1, Distinct
    <2>6. CASE Begin /\ d = Copy /\ heap'[d][k] = heap[Source][k]
      BY <2>1, <2>6 DEF Begin
    <2>7. CASE heap'[d][k] = None
      BY <1>4, <2>7, Distinct
    <2> QED
      BY <1>0, <2>2, <2>3, <2>4, <2>5, <2>6, <2>7, HeapStep
  <1> QED
    BY <1>3, <1>4

LEMMA FramesPreserved ==
    ASSUME IInv, [Next]_vars
    PROVE  FramesInv'
  <1>0. given' = given /\ given \in Inputs /\ TypeOK
    BY NextTyped DEF IInv
  <1>1. Roots' = Roots
    BY <1>0 DEF Roots, AllPayloads
  <1> SUFFICES ASSUME NEW i \in DOMAIN frames'
               PROVE  /\ frames'[i].todo \subseteq frames'[i].keys
                      /\ i = 1 /\ phase' = "injecting" =>
                            frames'[i].target = Runtime /\ frames'[i].source = Cli
                      /\ i = 1 /\ phase' = "merging" =>
                            frames'[i].target = Built /\ frames'[i].source = Copy
                      /\ i > 1 => frames'[i].target \notin Roots /\ frames'[i].source \notin Roots
    BY <1>1 DEF FramesInv
  <1>2. CASE /\ i \in DOMAIN frames /\ phase' = phase
             /\ frames'[i].target = frames[i].target /\ frames'[i].source = frames[i].source
             /\ frames'[i].keys = frames[i].keys /\ frames'[i].todo \subseteq frames[i].todo
    BY <1>2 DEF IInv, FramesInv
  <1>3. CASE /\ frames # <<>> /\ i > 1
             /\ \E k \in Top.todo : /\ frames'[i].target = heap[Top.target][k]
                                    /\ frames'[i].source = heap[Top.source][k]
                                    /\ frames'[i].todo = Held(heap[Top.source][k])
                                    /\ frames'[i].keys = Held(heap[Top.source][k])
    <2>1. /\ Top.target \in Dicts /\ Top.source \in Dicts /\ Top.todo \subseteq Keys
          /\ DOMAIN frames = 1..Len(frames) /\ Len(frames) \in Nat
      BY <1>0, <1>3, TopTyped
    <2>2. \A k \in Top.todo : heap[Top.target][k] \notin Roots /\ heap[Top.source][k] \notin Roots
      BY <2>1 DEF IInv, RefInv
    <2> QED
      BY <1>3, <2>1, <2>2
  <1>4. CASE Inject /\ i = 1 /\ frames' = <<Frame(Runtime, Cli, Held(Cli))>>
    BY <1>4, FrameTyped, Distinct DEF Inject, Held
  <1>5. CASE Begin /\ i = 1 /\ frames' = <<Frame(Built, Copy, Held(Source))>>
    BY <1>5, FrameTyped, Distinct DEF Begin, Held
  <1> QED
    BY <1>0, <1>2, <1>3, <1>4, <1>5, FramesStep

LEMMA RootsPreserved ==
    ASSUME IInv, [Next]_vars
    PROVE  RootsInv'
  <1>0. given' = given /\ given \in Inputs /\ TypeOK
    BY NextTyped DEF IInv
  <1>1. AllPayloads' = AllPayloads /\ ExtraGiven' = ExtraGiven
    BY <1>0 DEF AllPayloads, ExtraGiven
  <1>2. \A d \in AllPayloads \union {Cli, Extra} : frames # <<>> => d # Top.target
    BY TopFrame, Distinct, PayloadsTyped DEF Roots, IInv
  <1>3. \A d \in AllPayloads \union {Cli}, k \in Keys : heap'[d][k] = given.dicts[d][k]
    <2> TAKE d \in AllPayloads \union {Cli}, k \in Keys
    <2>1. d \in Dicts /\ d \notin {Extra, Runtime, Built, Copy}
      BY <1>0, PayloadsTyped, Distinct
    <2>2. heap'[d][k] = heap[d][k]
      BY <1>0, <1>2, <2>1, HeapStep
    <2> QED
      BY <2>2 DEF IInv, RootsInv
  <1>4. \A k \in Keys : heap'[Extra][k] = IF Injected /\ k = RuntimeKey THEN Runtime ELSE heap[Extra][k]
    <2> TAKE k \in Keys
    <2>1. CASE Injected
      BY <1>0, <2>1, Distinct DEF Injected, TypeOK, Objects
    <2>2. CASE ~Injected
      BY <1>0, <1>2, <2>2, HeapStep, Distinct
    <2> QED
      BY <2>1, <2>2
  <1>5. phase' \in {"loaded", "injecting"} => \A k \in Keys : heap'[Extra][k] = given.dicts[Extra][k]
    <2> SUFFICES ASSUME phase' \in {"loaded", "injecting"}
                 PROVE  phase \in {"loaded", "injecting"} /\ ~Injected
      BY <1>4 DEF IInv, RootsInv
    <2> QED
      BY DEF Next, NoContext, Inject, Injected, Assign, Recurse, Leave, Raise, Evaluate,
          EvaluateNothing, Begin, Skip, Onward, Merged, Return, CheckForbidden, CheckRule, NextCall, vars
  <1>6. Attached' => \A k \in Keys : heap'[Extra][k] = ExtraGiven[k]
    <2> SUFFICES ASSUME Attached' PROVE \A k \in Keys : heap'[Extra][k] = ExtraGiven[k]
      OBVIOUS
    <2>1. CASE Attached
      <3>1. ~Injected
        BY <2>1 DEF Injected, Attached
      <3> QED
        BY <1>4, <2>1, <3>1 DEF IInv, RootsInv
    <2>2. CASE NoContext
      <3>1. ~Injected /\ ~given.cli /\ phase = "loaded"
        BY <2>2 DEF Injected, NoContext
      <3> QED
        BY <1>0, <1>4, <3>1, ExtraGivenItems DEF IInv, RootsInv
    <2>3. CASE Injected
      <3>1. given.cli /\ phase = "injecting"
        BY <2>3 DEF Injected, IInv, RootsInv
      <3> QED
        BY <1>0, <1>4, <2>3, <3>1, ExtraGivenItems DEF IInv, RootsInv
    <2>4. Attached \/ NoContext \/ Injected
      BY DEF Attached, Next, NoContext, Inject, Injected, Assign, Recurse, Leave, Raise, Evaluate,
          EvaluateNothing, Begin, Skip, Merged, Return, CheckForbidden, CheckRule, NextCall, vars
    <2> QED
      BY <2>1, <2>2, <2>3, <2>4
  <1>7. phase' = "loaded" => heap' = given.dicts
    <2> SUFFICES ASSUME phase' = "loaded" PROVE heap' = heap /\ phase = "loaded"
      BY DEF IInv, RootsInv
    <2>1. phase = "loaded" => frames = <<>>
      BY <1>0 DEF TypeOK
    <2> QED
      BY <2>1 DEF Next, NoContext, Inject, Injected, Assign, Iterating, Recurse, Leave, Raise, Evaluate,
          EvaluateNothing, Begin, Skip, Onward, Merged, Return, CheckForbidden, CheckRule, NextCall, vars
  <1>8. phase' = "injecting" => given.cli
    BY DEF IInv, RootsInv, Next, NoContext, Inject, Injected, Assign, Recurse, Leave, Raise, Evaluate,
        EvaluateNothing, Begin, Skip, Onward, Merged, Return, CheckForbidden, CheckRule, NextCall, vars
  <1>9. phase' \in {"loaded", "injecting", "ready"} /\ verdicts' = <<>> => call' = 1
    <2> SUFFICES ASSUME phase' \in {"loaded", "injecting", "ready"}, verdicts' = <<>>
                 PROVE  call' = 1
      OBVIOUS
    <2>1. CASE Return \/ EvaluateNothing
      BY <1>0, <2>1, VerdictAdded
    <2>2. CASE ~(Return \/ EvaluateNothing)
      BY <2>2 DEF IInv, RootsInv, Next, NoContext, Inject, Injected, Assign, Recurse, Leave, Raise,
          Evaluate, Begin, Skip, Onward, Merged, CheckForbidden, CheckRule, NextCall, vars
    <2> QED
      BY <2>1, <2>2
  <1> QED
    BY <1>0, <1>1, <1>3, <1>5, <1>6, <1>7, <1>8, <1>9 DEF RootsInv

-----------------------------------------------------------------------------
(* What a merge in progress can write to. *)

\* With nothing that has a "context" or "runtime_context" of its own, only the
\* trajectory's fields bring these keys into a context.
LEMMA SourcesClean ==
    ASSUME given \in Inputs, TypeOK, Clean, Started, NEW i \in 2..8, NEW n \in Special
    PROVE  S[i][n] = None
  <1>0. n \in Keys
    BY Distinct
  <1>1. \A d \in Consulted(Reached) : Given(d)[n] = None
    BY <1>0, GivenItems DEF Clean, Undisturbed
  <1>2. call \in 1..Reached \intersect DOMAIN given.calls
    BY GivenTyped DEF Reached, Started, TypeOK
  <1>3. /\ given.dicts[Extra][ContextKey] \in Consulted(Reached)
        /\ given.dicts[Extra][RuntimeKey] \in Consulted(Reached)
        /\ given.cli => Cli \in Consulted(Reached)
        /\ PayloadsOf(Current) \subseteq Consulted(Reached)
    BY <1>2 DEF Consulted, Current
  <1>4. Given(None)[n] = None
    BY <1>0, GivenItems, Distinct
  <1>5. /\ Given(Current.input)[n] = None /\ Given(Current.output)[n] = None
        /\ Given(Current.args)[n] = None /\ Given(Current.result)[n] = None
    BY <1>1, <1>3, <1>4 DEF PayloadsOf
  <1>6. RuntimeGiven[n] = None
    <2>1. Recorded[n] = None
      BY <1>1, <1>3 DEF Recorded
    <2>2. given.cli => given.dicts[Cli][n] = None
      BY <1>0, <1>1, <1>3, GivenItems, Distinct
    <2> QED
      BY <1>0, <2>1, <2>2, RuntimeGivenItems
  <1>7. S[2][n] = None /\ S[3][n] = None /\ S[8][n] = None
    BY <1>1, <1>3, <1>6, SourceItems DEF Started
  <1>8. S[4][n] = None /\ S[5][n] = None /\ S[6][n] = None /\ S[7][n] = None
    BY <1>5, SourceItems DEF Started
  <1> QED
    BY <1>7, <1>8

LEMMA CleanKept ==
    ASSUME IInv, [Next]_vars, Clean'
    PROVE  Clean
  <1>0. /\ given' = given /\ given \in Inputs /\ TypeOK /\ TypeOK'
        /\ given.calls \in Seq(ToolCalls)
    BY NextTyped, GivenTyped DEF IInv
  <1>1. call' \in Nat /\ call \in Nat
    BY <1>0 DEF TypeOK
  <1>2. \A c \in 1..Reached \intersect DOMAIN given.calls : c \in 1..(Reached')
    <2>1. CASE verdicts' # <<>>
      BY <1>0, <2>1 DEF Reached
    <2>2. CASE verdicts' = <<>>
      <3>1. verdicts = <<>>
        <4>1. CASE Return \/ EvaluateNothing
          BY <1>0, <2>2, <4>1, VerdictAdded
        <4>2. CASE ~(Return \/ EvaluateNothing)
          BY <2>2, <4>2 DEF Next, NoContext, Inject, Injected, Assign, Recurse, Leave, Raise,
              Evaluate, Begin, Skip, Onward, Merged, CheckForbidden, CheckRule, NextCall, vars
        <4> QED
          BY <4>1, <4>2
      <3>2. Reached = call /\ Reached' = call'
        BY <2>2, <3>1 DEF Reached
      <3>3. CASE Evaluate
        BY <3>1, <3>2, <3>3 DEF Evaluate, IInv, RootsInv
      <3>4. CASE NextCall
        BY <1>1, <3>2, <3>4 DEF NextCall
      <3>5. CASE ~(Evaluate \/ NextCall)
        <4>1. call' = call
          BY <3>5 DEF Next, NoContext, Inject, Injected, Assign, Recurse, Leave, Raise, EvaluateNothing,
              Return, Begin, Skip, Onward, Merged, CheckForbidden, CheckRule, vars
        <4> QED
          BY <3>2, <4>1
      <3> QED
        BY <3>3, <3>4, <3>5
    <2> QED
      BY <2>1, <2>2
  <1>3. Clean' = Undisturbed(Reached')
    BY <1>0 DEF Clean, Undisturbed, Consulted
  <1>4. Consulted(Reached) \subseteq Consulted(Reached')
    BY <1>2 DEF Consulted
  <1> QED
    BY <1>3, <1>4 DEF Clean, Undisturbed

\* One step, seen from the merge of a payload (or --context) as a whole.
LEMMA BottomStep ==
    ASSUME IInv, [Next]_vars, frames # <<>>, frames' # <<>>
    PROVE  /\ phase' = phase /\ call' = call /\ at' = at /\ verdicts' = verdicts
           /\ frames'[1].keys = frames[1].keys
           /\ \/ /\ frames'[1].todo = frames[1].todo
                 /\ \A d \in {Extra, Cli, Built, Copy}, k \in Keys : heap'[d][k] = heap[d][k]
                 /\ phase = "injecting" => \A k \in Keys : heap'[Runtime][k] = heap[Runtime][k]
              \/ /\ Held(frames[1].source) = frames[1].keys
                 /\ \E k \in frames[1].todo :
                       /\ ~Nested(frames[1].target, frames[1].source, k)
                       /\ heap' = [heap EXCEPT ![frames[1].target][k] = heap[frames[1].source][k]]
                       /\ frames'[1].todo = frames[1].todo \ {k}
              \/ /\ Held(frames[1].source) = frames[1].keys
                 /\ \E k \in frames[1].todo :
                       /\ Nested(frames[1].target, frames[1].source, k)
                       /\ heap' = heap
                       /\ frames'[1].todo = frames[1].todo \ {k}
  <1>0. given \in Inputs /\ TypeOK /\ TypeOK'
    BY NextTyped DEF IInv
  <1>1. Len(frames) \in Nat \ {0} /\ 1 \in DOMAIN frames /\ Top = frames[Len(frames)]
    BY <1>0, TopTyped
  <1>2. phase \in {"injecting", "merging"} /\ phase' \in {"injecting", "merging"}
    BY <1>0 DEF TypeOK
  <1>3. CASE Assign
    <2>1. /\ phase' = phase /\ call' = call /\ at' = at /\ verdicts' = verdicts
          /\ Held(Top.source) = Top.keys
          /\ \E k \in Top.todo : /\ ~Nested(Top.target, Top.source, k)
                                 /\ heap' = [heap EXCEPT ![Top.target][k] = heap[Top.source][k]]
                                 /\ frames' = Taken(k)
      BY <1>3 DEF Assign, Iterating, Written
    <2>2. PICK k \in Top.todo : /\ ~Nested(Top.target, Top.source, k)
                                /\ heap' = [heap EXCEPT ![Top.target][k] = heap[Top.source][k]]
                                /\ frames' = Taken(k)
      BY <2>1
    <2>3. /\ frames'[1].keys = frames[1].keys
          /\ frames'[1].todo = IF 1 = Len(frames) THEN frames[1].todo \ {k} ELSE frames[1].todo
      <3>1. /\ Taken(k)[1].keys = frames[1].keys
            /\ Taken(k)[1].todo = IF 1 = Len(frames) THEN frames[1].todo \ {k} ELSE frames[1].todo
        BY <1>0, <1>1, TakenAt
      <3> QED
        BY <2>2, <3>1
    <2>4. CASE Len(frames) = 1
      BY <1>1, <2>1, <2>2, <2>3, <2>4
    <2>5. CASE Len(frames) # 1
      <3>1. Top.target \notin {Extra, Cli, Built, Copy}
        BY <2>5, TopFrame DEF Roots
      <3>2. phase = "injecting" => Top.target # Runtime
        <4> SUFFICES ASSUME phase = "injecting" PROVE Top.target # Runtime
          OBVIOUS
        <4>1. ExtraGiven[RuntimeKey] = Runtime
          BY <1>0, ExtraGivenItems, Distinct DEF IInv, RootsInv
        <4>2. Len(frames) \in DOMAIN frames /\ Len(frames) > 1
          BY <1>0, <1>1, <2>5, TopTyped
        <4> QED
          BY <1>1, <4>1, <4>2 DEF IInv, LowInv, Special
      <3>3. \A d \in Dicts, l \in Keys : d # Top.target => heap'[d][l] = heap[d][l]
        BY <1>0, <2>2 DEF TypeOK
      <3> QED
        BY <2>1, <2>3, <2>5, <3>1, <3>2, <3>3, Distinct
    <2> QED
      BY <2>4, <2>5
  <1>4. CASE Recurse
    <2>1. /\ phase' = phase /\ call' = call /\ at' = at /\ verdicts' = verdicts /\ heap' = heap
          /\ Held(Top.source) = Top.keys
          /\ \E k \in Top.todo : /\ Nested(Top.target, Top.source, k)
                                 /\ frames' = Append(Taken(k), Recursion(Top.target, Top.source, k))
      BY <1>4 DEF Recurse, Iterating
    <2>2. PICK k \in Top.todo : /\ Nested(Top.target, Top.source, k)
                                /\ frames' = Append(Taken(k), Recursion(Top.target, Top.source, k))
      BY <2>1
    <2>3. k \in Keys
      BY <1>0, TopTyped
    <2>4. frames'[1] = Taken(k)[1]
      BY <1>0, <1>1, <2>2, <2>3, RecursionTyped, PushedShape
    <2>5. /\ frames'[1].keys = frames[1].keys
          /\ frames'[1].todo = IF 1 = Len(frames) THEN frames[1].todo \ {k} ELSE frames[1].todo
      <3>1. /\ Taken(k)[1].keys = frames[1].keys
            /\ Taken(k)[1].todo = IF 1 = Len(frames) THEN frames[1].todo \ {k} ELSE frames[1].todo
        BY <1>0, <1>1, TakenAt
      <3> QED
        BY <2>4, <3>1
    <2> QED
      BY <1>1, <2>1, <2>2, <2>5
  <1>5. CASE Leave
    <2>1. /\ phase' = phase /\ call' = call /\ at' = at /\ verdicts' = verdicts /\ heap' = heap
          /\ Len(frames) > 1 /\ frames' = SubSeq(frames, 1, Len(frames) - 1)
      BY <1>5 DEF Leave
    <2>2. 1 \in 1..(Len(frames) - 1)
      BY <1>1, <2>1
    <2>3. frames'[1] = frames[1]
      BY <1>0, <2>1, <2>2, PoppedShape
    <2> QED
      BY <2>1, <2>3
  <1>6. CASE UNCHANGED vars
    BY <1>6 DEF vars
  <1> QED
    BY <1>2, <1>3, <1>4, <1>5, <1>6 DEF Next, NoContext, Inject, Injected, Raise, Evaluate,
        EvaluateNothing, Begin, Skip, Merged, Return, CheckForbidden, CheckRule, NextCall

\* What is given, and so what follows from it, stays as it is.
LEMMA Kept ==
    ASSUME IInv, [Next]_vars
    PROVE  /\ given' = given /\ given \in Inputs /\ TypeOK /\ TypeOK'
           /\ ExtraGiven' = ExtraGiven /\ RuntimeGiven' = RuntimeGiven /\ Recorded' = Recorded
           /\ (call' = call => S' = S)
  <1>1. given' = given /\ given \in Inputs /\ TypeOK /\ TypeOK'
    BY NextTyped DEF IInv
  <1>2. ExtraGiven' = ExtraGiven
    BY <1>1 DEF ExtraGiven
  <1>3. Recorded' = Recorded /\ \A d : Given(d)' = Given(d)
    BY <1>1 DEF Recorded, Given
  <1>4. RuntimeGiven' = RuntimeGiven
    BY <1>1, <1>3 DEF RuntimeGiven
  <1>5. call' = call => S' = S
    BY <1>1, <1>2, <1>3, <1>4 DEF S, GivenSources, Current
  <1> QED
    BY <1>1, <1>2, <1>3, <1>4, <1>5

LEMMA InjectPreserved ==
    ASSUME IInv, [Next]_vars
    PROVE  InjectInv'
  <1>0. given' = given /\ given \in Inputs /\ TypeOK /\ TypeOK'
    BY Kept
  <1> SUFFICES ASSUME phase' = "injecting"
               PROVE  /\ frames'[1].keys = {k \in Keys : given.dicts[Cli][k] # None}
                      /\ \A k \in Keys :
                            heap'[Runtime][k] = IF k \in frames'[1].todo THEN Recorded[k] ELSE RuntimeGiven[k]
    BY Kept DEF InjectInv
  <1>1. CASE Inject
    <2>1. heap = given.dicts /\ given.cli
      BY <1>1 DEF Inject, IInv, RootsInv
    <2>2. frames'[1].keys = Held(Cli) /\ frames'[1].todo = Held(Cli)
      BY <1>1, FrameTyped, Distinct DEF Inject, Held
    <2>3. Held(Cli) = {k \in Keys : given.dicts[Cli][k] # None}
      BY <2>1 DEF Held
    <2>4. \A k \in Keys : heap'[Runtime][k] = Recorded[k]
      <3>1. Existing = Recorded
        BY <2>1 DEF Existing, Recorded, Given
      <3>2. heap' = [heap EXCEPT ![Runtime] = Existing]
        BY <1>1 DEF Inject
      <3> QED
        BY <1>0, <3>1, <3>2, Distinct DEF TypeOK
    <2>5. \A k \in Keys : k \notin Held(Cli) => RuntimeGiven[k] = Recorded[k]
      BY <1>0, <2>3, RuntimeGivenItems
    <2> QED
      BY <2>2, <2>3, <2>4, <2>5
  <1>2. CASE phase = "injecting"
    <2>0. frames # <<>> /\ frames' # <<>>
      BY <1>0, <1>2 DEF TypeOK
    <2>1. /\ frames[1].keys = {k \in Keys : given.dicts[Cli][k] # None}
          /\ frames'[1].keys = frames[1].keys /\ frames[1].todo \subseteq frames[1].keys
          /\ \A k \in Keys : heap[Runtime][k] = IF k \in frames[1].todo THEN Recorded[k] ELSE RuntimeGiven[k]
          /\ given.cli /\ frames[1].target = Runtime /\ frames[1].source = Cli
      BY <1>0, <1>2, <2>0, BottomStep, TopTyped DEF IInv, InjectInv, FramesInv, RootsInv
    <2>2. CASE frames'[1].todo = frames[1].todo /\ \A k \in Keys : heap'[Runtime][k] = heap[Runtime][k]
      BY <2>1, <2>2
    <2>3. ASSUME NEW k \in frames[1].todo,
                 ~Nested(frames[1].target, frames[1].source, k),
                 heap' = [heap EXCEPT ![frames[1].target][k] = heap[frames[1].source][k]],
                 frames'[1].todo = frames[1].todo \ {k}
          PROVE  \A l \in Keys :
                    heap'[Runtime][l] = IF l \in frames'[1].todo THEN Recorded[l] ELSE RuntimeGiven[l]
      <3>1. k \in Keys /\ given.dicts[Cli][k] # None /\ heap[Cli][k] = given.dicts[Cli][k]
        BY <2>1, <2>3 DEF IInv, RootsInv
      <3>2. heap[Runtime][k] = Recorded[k] /\ ~(given.dicts[Cli][k] \in Dicts /\ Recorded[k] \in Dicts)
        BY <2>1, <2>3, <3>1 DEF Nested
      <3>3. RuntimeGiven[k] = given.dicts[Cli][k]
        BY <1>0, <2>1, <3>1, <3>2, RuntimeGivenItems
      <3>4. \A l \in Keys : heap'[Runtime][l] = IF l = k THEN heap[Cli][k] ELSE heap[Runtime][l]
        BY <1>0, <2>1, <2>3, <3>1, Distinct DEF TypeOK, Objects
      <3> QED
        BY <2>1, <2>3, <3>1, <3>3, <3>4
    <2>4. ASSUME NEW k \in frames[1].todo,
                 Nested(frames[1].target, frames[1].source, k),
                 heap' = heap,
                 frames'[1].todo = frames[1].todo \ {k}
          PROVE  \A l \in Keys :
                    heap'[Runtime][l] = IF l \in frames'[1].todo THEN Recorded[l] ELSE RuntimeGiven[l]
      <3>1. k \in Keys /\ heap[Cli][k] = given.dicts[Cli][k] /\ heap[Runtime][k] = Recorded[k]
        BY <2>1, <2>4 DEF IInv, RootsInv
      <3>2. given.dicts[Cli][k] \in Dicts /\ Recorded[k] \in Dicts
        BY <2>1, <2>4, <3>1 DEF Nested
      <3>3. RuntimeGiven[k] = Recorded[k]
        BY <1>0, <3>1, <3>2, RuntimeGivenItems
      <3> QED
        BY <2>1, <2>4, <3>1, <3>3
    <2> QED
      BY <1>2, <2>0, <2>1, <2>2, <2>3, <2>4, BottomStep
  <1>3. Inject \/ phase = "injecting"
    BY DEF Next, NoContext, Inject, Injected, Assign, Recurse, Leave, Raise, Evaluate, EvaluateNothing,
        Begin, Skip, Onward, Merged, Return, CheckForbidden, CheckRule, NextCall, vars
  <1> QED
    BY <1>1, <1>2, <1>3

LEMMA LowPreserved ==
    ASSUME IInv, [Next]_vars
    PROVE  LowInv'
  <1>0. given' = given /\ given \in Inputs /\ TypeOK /\ TypeOK' /\ ExtraGiven' = ExtraGiven
    BY Kept
  <1> SUFFICES ASSUME Clean' \/ phase' = "injecting",
                      NEW i \in DOMAIN frames', NEW n \in Special, i > 1
               PROVE  frames'[i].target # ExtraGiven[n]
    BY <1>0 DEF LowInv
  <1>1. CASE i \in DOMAIN frames /\ phase' = phase /\ frames'[i].target = frames[i].target
    BY <1>1, CleanKept DEF IInv, LowInv
  <1>2. ASSUME NEW k \in Top.todo, Recurse, frames # <<>>, Nested(Top.target, Top.source, k),
               frames'[i].target = heap[Top.target][k], frames'[i].target = ExtraGiven[n]
        PROVE  FALSE
    <2>0. phase' = phase /\ Top.target \in Dicts /\ k \in Keys
      BY <1>0, <1>2, TopTyped DEF Recurse
    <2>1. k = n /\ Top.target \in {Extra, Built, Copy}
      BY <1>2, <2>0 DEF IInv, RefInv, Nested
    <2>2. phase = "merging" /\ Top = frames[1] /\ Top.target = Built /\ Top.source = Copy
      BY <1>2, <2>1, TopFrame, Distinct DEF Roots
    <2>3. Clean
      BY <2>0, <2>2, CleanKept
    <2>4. heap[Built][k] # None /\ heap[Copy][k] # None
      BY <1>2, <2>2, Distinct DEF Nested
    <2>5. at # 1
      BY <1>2, <2>0, <2>2, <2>4 DEF IInv, FreshInv
    <2>6. at \in 2..8 /\ Started
      BY <1>0, <2>2, <2>5 DEF TypeOK, Started
    <2>7. heap[Copy][k] = S[at][k]
      BY <2>0, <2>2, <2>3 DEF IInv, CopyInv
    <2> QED
      BY <1>0, <2>1, <2>3, <2>4, <2>6, <2>7, SourcesClean
  <1> QED
    BY <1>0, <1>1, <1>2, FramesStep

\* Nothing but --context, before any context is built, writes to the
\* trajectory's two objects.
LEMMA LowWritten ==
    ASSUME IInv, [Next]_vars, Clean,
           NEW n \in Special, ExtraGiven[n] \in Dicts, NEW k \in Keys,
           n = ContextKey \/ Attached
    PROVE  heap'[ExtraGiven[n]][k] = heap[ExtraGiven[n]][k]
  <1>0. given \in Inputs /\ TypeOK
    BY Kept
  <1>1. ExtraGiven[n] \notin {Extra, Cli, Built, Copy}
    BY <1>0, ExtraGivenItems, Trees, Distinct DEF Roots
  <1>2. ExtraGiven[n] = Runtime => Attached
    BY <1>0, ExtraGivenItems, Trees, Distinct
  <1>3. frames # <<>> => ExtraGiven[n] # Top.target
    <2> SUFFICES ASSUME frames # <<>> PROVE ExtraGiven[n] # Top.target
      OBVIOUS
    <2>1. CASE Len(frames) > 1
      <3>1. Len(frames) \in DOMAIN frames /\ Top = frames[Len(frames)]
        BY <1>0, TopTyped
      <3> QED
        BY <2>1, <3>1 DEF IInv, LowInv
    <2>2. CASE ~(Len(frames) > 1)
      BY <1>1, <1>2, <2>2, TopFrame DEF Attached
    <2> QED
      BY <2>1, <2>2
  <1>4. Inject => ~Attached
    BY DEF Inject, Attached
  <1> QED
    BY <1>0, <1>1, <1>2, <1>3, <1>4, HeapStep

LEMMA TopsPreserved ==
    ASSUME IInv, [Next]_vars
    PROVE  TopsInv'
  <1>0. /\ given' = given /\ given \in Inputs /\ TypeOK /\ TypeOK'
        /\ ExtraGiven' = ExtraGiven /\ RuntimeGiven' = RuntimeGiven
    BY Kept
  <1> SUFFICES ASSUME Clean'
               PROVE  /\ ExtraGiven[ContextKey] \in Dicts =>
                            \A k \in Keys : heap'[ExtraGiven[ContextKey]][k] = given.dicts[ExtraGiven[ContextKey]][k]
                      /\ Attached' /\ ExtraGiven[RuntimeKey] \in Dicts =>
                            \A k \in Keys : heap'[ExtraGiven[RuntimeKey]][k] = RuntimeGiven[k]
    BY <1>0 DEF TopsInv
  <1>1. Clean
    BY CleanKept
  <1>2. ExtraGiven[ContextKey] \in Dicts =>
            \A k \in Keys : heap'[ExtraGiven[ContextKey]][k] = given.dicts[ExtraGiven[ContextKey]][k]
    BY <1>1, LowWritten DEF IInv, TopsInv, Special
  <1>3. ASSUME Attached', ExtraGiven[RuntimeKey] \in Dicts, NEW k \in Keys
        PROVE  heap'[ExtraGiven[RuntimeKey]][k] = RuntimeGiven[k]
    <2>1. CASE Attached
      BY <1>1, <1>3, <2>1, LowWritten DEF IInv, TopsInv, Special
    <2>2. CASE NoContext
      <3>1. heap' = given.dicts /\ ~given.cli
        BY <2>2 DEF NoContext, IInv, RootsInv
      <3>2. ExtraGiven[RuntimeKey] = given.dicts[Extra][RuntimeKey]
        BY <1>0, <3>1, ExtraGivenItems, Distinct
      <3>3. RuntimeGiven[k] = Recorded[k]
        BY <1>0, <3>1, RuntimeGivenItems
      <3> QED
        BY <1>0, <1>3, <3>1, <3>2, <3>3, GivenItems DEF Recorded
    <2>3. CASE Injected
      <3>1. phase = "injecting" /\ Top.todo = {} /\ Len(frames) = 1
        BY <2>3 DEF Injected
      <3>2. Top = frames[1] /\ given.cli
        BY <3>1 DEF Top, IInv, RootsInv
      <3>3. heap[Runtime][k] = RuntimeGiven[k]
        BY <3>1, <3>2 DEF IInv, InjectInv
      <3>4. ExtraGiven[RuntimeKey] = Runtime
        BY <1>0, <3>2, ExtraGivenItems, Distinct
      <3>5. heap'[Runtime][k] = heap[Runtime][k]
        BY <1>0, <2>3, Distinct DEF Injected, TypeOK
      <3> QED
        BY <3>3, <3>4, <3>5
    <2>4. Attached \/ NoContext \/ Injected
      BY <1>3 DEF Attached, Next, NoContext, Inject, Injected, Assign, Recurse, Leave, Raise, Evaluate,
          EvaluateNothing, Begin, Skip, Merged, Return, CheckForbidden, CheckRule, NextCall, vars
    <2> QED
      BY <2>1, <2>2, <2>3, <2>4
  <1> QED
    BY <1>2, <1>3

-----------------------------------------------------------------------------
(* The context, item by item. *)

\* Which payload the context is built from next.
LEMMA NextSource ==
    ASSUME IInv, phase = "building", call \in DOMAIN given.calls
    PROVE  /\ at \in 1..8
           /\ at = 1 => Source = Extra
           /\ at = 2 => Source = heap[Built][ContextKey]
           /\ at \in {3, 8} => Source = heap[Built][RuntimeKey]
           /\ at \in 4..7 => Source \in AllPayloads \union {None} /\ S[at] = Given(Source)
  <1>1. at \in 1..8
    BY DEF IInv, TypeOK
  <1> QED
    BY <1>1, SourceItems DEF Source, IInv

\* A merge of a payload begins with what was given.
LEMMA BegunWith ==
    ASSUME IInv, Begin, Clean \/ at = 1 \/ at \in 4..7, NEW k \in Keys
    PROVE  heap[Source][k] = S[at][k]
  <1>0. /\ given \in Inputs /\ TypeOK /\ call \in DOMAIN given.calls /\ Source \in Dicts
        /\ phase = "building" /\ Attached /\ Started
    BY DEF IInv, Begin, Attached, Started
  <1>1. CASE at = 1
    BY <1>0, <1>1, NextSource, SourceItems DEF IInv, RootsInv
  <1>2. CASE at \in 4..7
    <2>1. Source \in AllPayloads /\ S[at] = Given(Source)
      BY <1>0, <1>2, NextSource, Distinct
    <2> QED
      BY <1>0, <2>1, GivenItems DEF IInv, RootsInv
  <1>3. CASE Clean /\ at = 2
    <2>1. Source = ExtraGiven[ContextKey]
      BY <1>0, <1>3, NextSource DEF IInv, SpecialInv, Special
    <2>2. ExtraGiven[ContextKey] = given.dicts[Extra][ContextKey]
      BY <1>0, ExtraGivenItems, Distinct
    <2>3. S[2][k] = given.dicts[Source][k]
      BY <1>0, <2>1, <2>2, SourceItems, GivenItems
    <2> QED
      BY <1>0, <1>3, <2>1, <2>3 DEF IInv, TopsInv
  <1>4. CASE Clean /\ at \in {3, 8}
    <2>1. Source = ExtraGiven[RuntimeKey]
      BY <1>0, <1>4, NextSource DEF IInv, SpecialInv, Special
    <2>2. S[at] = RuntimeGiven
      BY <1>0, <1>4, SourceItems
    <2> QED
      BY <1>0, <1>4, <2>1, <2>2 DEF IInv, TopsInv
  <1> QED
    BY <1>0, <1>1, <1>2, <1>3, <1>4, NextSource

\* A payload that is passed over provides nothing.
LEMMA SkippedEmpty ==
    ASSUME IInv, Skip, Clean, NEW k \in Keys
    PROVE  at \in 2..8 /\ S[at][k] = None
  <1>0. /\ given \in Inputs /\ TypeOK /\ call \in DOMAIN given.calls /\ Source \notin Dicts
        /\ phase = "building" /\ Started
    BY DEF IInv, Skip, Started
  <1>1. at \in 2..8
    BY <1>0, NextSource, Distinct
  <1>2. CASE at \in 4..7
    BY <1>0, <1>2, NextSource, GivenItems
  <1>3. CASE at = 2
    <2>1. Source = ExtraGiven[ContextKey]
      BY <1>0, <1>3, NextSource DEF IInv, SpecialInv, Special
    <2>2. ExtraGiven[ContextKey] = given.dicts[Extra][ContextKey]
      BY <1>0, ExtraGivenItems, Distinct
    <2> QED
      BY <1>0, <1>3, <2>1, <2>2, SourceItems, GivenItems
  <1>4. CASE at \in {3, 8}
    <2>1. Source = ExtraGiven[RuntimeKey]
      BY <1>0, <1>4, NextSource DEF IInv, SpecialInv, Special
    <2>2. ~given.cli /\ given.dicts[Extra][RuntimeKey] \notin Dicts
      BY <1>0, <2>1, ExtraGivenItems, Distinct
    <2>3. RuntimeGiven[k] = None
      BY <1>0, <2>2, RuntimeGivenItems, GivenItems DEF Recorded
    <2> QED
      BY <1>0, <1>1, <1>4, <2>3, SourceItems
  <1> QED
    BY <1>1, <1>2, <1>3, <1>4

LEMMA FreshPreserved ==
    ASSUME IInv, [Next]_vars
    PROVE  FreshInv'
  <1>0. given' = given /\ given \in Inputs /\ TypeOK /\ TypeOK' /\ ExtraGiven' = ExtraGiven
    BY Kept
  <1> SUFFICES ASSUME at' = 1
               PROVE  /\ phase' = "building" => \A k \in Keys : heap'[Built][k] = None
                      /\ phase' = "merging" =>
                            \A k \in Keys : heap'[Built][k] = IF k \in frames'[1].todo THEN None ELSE ExtraGiven[k]
    BY <1>0 DEF FreshInv
  <1>1. ASSUME phase' = "building", NEW k \in Keys
        PROVE  heap'[Built][k] = None
    <2>1. CASE Evaluate \/ NextCall
      BY <1>0, <2>1, Distinct DEF Evaluate, NextCall, Empty, TypeOK
    <2>2. CASE ~(Evaluate \/ NextCall)
      <3>1. at \in 1..9 /\ (phase = "building" => frames = <<>>)
        BY <1>0 DEF TypeOK
      <3>2. phase = "building" /\ at = 1 /\ heap' = heap
        BY <1>1, <2>2, <3>1 DEF Next, NoContext, Inject, Injected, Assign, Recurse, Leave, Raise, Iterating,
            EvaluateNothing, Begin, Skip, Onward, Merged, Return, CheckForbidden, CheckRule, vars
      <3> QED
        BY <3>2 DEF IInv, FreshInv
    <2> QED
      BY <2>1, <2>2
  <1>2. ASSUME phase' = "merging"
        PROVE  \A k \in Keys : heap'[Built][k] = IF k \in frames'[1].todo THEN None ELSE ExtraGiven[k]
    <2>1. CASE Begin
      <3>1. at = 1 /\ Source = Extra /\ phase = "building" /\ Attached
        BY <2>1, NextSource DEF Begin, Attached
      <3>2. frames'[1].todo = {k \in Keys : heap[Extra][k] # None}
        BY <2>1, <3>1, FrameTyped, Distinct DEF Begin, Held
      <3>3. \A k \in Keys : heap'[Built][k] = None
        BY <1>0, <2>1, <3>1, Distinct DEF Begin, IInv, FreshInv, TypeOK
      <3> QED
        BY <3>1, <3>2, <3>3 DEF IInv, RootsInv
    <2>2. CASE phase = "merging"
      <3>0. frames # <<>> /\ frames' # <<>>
        BY <1>0, <1>2, <2>2 DEF TypeOK
      <3>1. /\ at = 1 /\ frames[1].target = Built /\ frames[1].source = Copy
            /\ \A k \in Keys : heap[Built][k] = IF k \in frames[1].todo THEN None ELSE ExtraGiven[k]
            /\ \A k \in Keys : heap[Copy][k] = ExtraGiven[k]
            /\ frames[1].todo \subseteq Keys
        <4>1. at = 1 /\ call \in DOMAIN given.calls
          BY <1>0, <2>2, <3>0, BottomStep DEF TypeOK
        <4> QED
          BY <1>0, <2>2, <3>0, <4>1, TopTyped, SourceItems DEF IInv, FreshInv, CopyInv, FramesInv
      <3>2. ASSUME NEW k \in frames[1].todo,
                   heap' = [heap EXCEPT ![frames[1].target][k] = heap[frames[1].source][k]],
                   frames'[1].todo = frames[1].todo \ {k}
            PROVE  \A l \in Keys : heap'[Built][l] = IF l \in frames'[1].todo THEN None ELSE ExtraGiven[l]
        <4>1. \A l \in Keys : heap'[Built][l] = IF l = k THEN heap[Copy][k] ELSE heap[Built][l]
          BY <1>0, <3>1, <3>2, Distinct DEF TypeOK, Objects
        <4> QED
          BY <3>1, <3>2, <4>1
      <3>3. \A k \in frames[1].todo : ~Nested(frames[1].target, frames[1].source, k)
        BY <3>1, Distinct DEF Nested
      <3>4. CASE frames'[1].todo = frames[1].todo /\ \A k \in Keys : heap'[Built][k] = heap[Built][k]
        BY <3>1, <3>4
      <3> QED
        BY <3>0, <3>2, <3>3, <3>4, BottomStep
    <2>3. Begin \/ phase = "merging"
      BY <1>2 DEF Next, NoContext, Inject, Injected, Assign, Recurse, Leave, Raise, Evaluate, EvaluateNothing,
          Begin, Skip, Onward, Merged, Return, CheckForbidden, CheckRule, NextCall, vars
    <2> QED
      BY <2>1, <2>2, <2>3
  <1> QED
    BY <1>1, <1>2

LEMMA CopyPreserved ==
    ASSUME IInv, [Next]_vars
    PROVE  CopyInv'
  <1>0. given' = given /\ given \in Inputs /\ TypeOK /\ TypeOK' /\ (call' = call => S' = S)
    BY Kept
  <1> SUFFICES ASSUME phase' = "merging"
               PROVE  /\ frames'[1].keys = {k \in Keys : heap'[Copy][k] # None}
                      /\ Clean' \/ at' = 1 \/ at' \in 4..7 => \A k \in Keys : heap'[Copy][k] = S'[at'][k]
    BY DEF CopyInv
  <1>1. CASE Begin
    <2>1. call' = call /\ at' = at
      BY <1>1 DEF Begin
    <2>2. \A k \in Keys : heap'[Copy][k] = heap[Source][k]
      BY <1>0, <1>1, Distinct DEF Begin, TypeOK
    <2>3. frames'[1].keys = {k \in Keys : heap[Source][k] # None}
      BY <1>1, FrameTyped, Distinct DEF Begin, Held
    <2> QED
      BY <1>0, <1>1, <2>1, <2>2, <2>3, BegunWith, CleanKept
  <1>2. CASE phase = "merging"
    <2>0. frames # <<>> /\ frames' # <<>>
      BY <1>0, <1>2 DEF TypeOK
    <2>1. frames[1].target = Built
      BY <1>0, <1>2, <2>0, TopTyped DEF IInv, FramesInv
    <2>2. call' = call /\ at' = at /\ frames'[1].keys = frames[1].keys
      BY <2>0, BottomStep
    <2>3. \A k \in Keys : heap'[Copy][k] = heap[Copy][k]
      <3>1. ASSUME NEW l, heap' = [heap EXCEPT ![frames[1].target][l] = heap[frames[1].source][l]]
            PROVE  heap'[Copy] = heap[Copy]
        BY <1>0, <2>1, <3>1, Distinct DEF TypeOK
      <3> QED
        BY <2>0, <3>1, BottomStep
    <2> QED
      BY <1>0, <1>2, <2>2, <2>3, CleanKept DEF IInv, CopyInv
  <1>3. Begin \/ phase = "merging"
    BY DEF Next, NoContext, Inject, Injected, Assign, Recurse, Leave, Raise, Evaluate, EvaluateNothing,
        Begin, Skip, Onward, Merged, Return, CheckForbidden, CheckRule, NextCall, vars
  <1> QED
    BY <1>1, <1>2, <1>3

\* What a step does to one item of the context under construction.
LEMMA BuiltStep ==
    ASSUME IInv, [Next]_vars, phase = "merging", phase' = "merging", NEW k \in Keys
    PROVE  \/ /\ heap'[Built][k] = heap[Built][k]
              /\ k \in frames'[1].todo <=> k \in frames[1].todo
           \/ /\ k \in frames[1].todo /\ k \notin frames'[1].todo
              /\ heap[Copy][k] # None /\ ~Nested(Built, Copy, k) /\ heap'[Built][k] = heap[Copy][k]
           \/ /\ k \in frames[1].todo /\ k \notin frames'[1].todo
              /\ Nested(Built, Copy, k) /\ heap'[Built][k] = heap[Built][k]
  <1>0. frames # <<>> /\ frames' # <<>> /\ TypeOK
    BY Kept DEF TypeOK
  <1>1. frames[1].target = Built /\ frames[1].source = Copy /\ frames[1].todo \subseteq frames[1].keys
    BY <1>0, TopTyped DEF IInv, FramesInv
  <1>2. \A l \in frames[1].keys : heap[Copy][l] # None
    BY DEF IInv, CopyInv
  <1>3. ASSUME NEW l \in frames[1].todo, ~Nested(Built, Copy, l),
               heap' = [heap EXCEPT ![Built][l] = heap[Copy][l]], frames'[1].todo = frames[1].todo \ {l}
        PROVE  \/ /\ heap'[Built][k] = heap[Built][k]
                  /\ k \in frames'[1].todo <=> k \in frames[1].todo
               \/ /\ k \in frames[1].todo /\ k \notin frames'[1].todo
                  /\ heap[Copy][k] # None /\ ~Nested(Built, Copy, k) /\ heap'[Built][k] = heap[Copy][k]
    <2>1. heap'[Built][k] = IF k = l THEN heap[Copy][l] ELSE heap[Built][k]
      BY <1>0, <1>3, Distinct DEF TypeOK, Objects
    <2> QED
      BY <1>1, <1>2, <1>3, <2>1
  <1>4. ASSUME NEW l \in frames[1].todo, Nested(Built, Copy, l), heap' = heap,
               frames'[1].todo = frames[1].todo \ {l}
        PROVE  \/ /\ heap'[Built][k] = heap[Built][k]
                  /\ k \in frames'[1].todo <=> k \in frames[1].todo
               \/ /\ k \in frames[1].todo /\ k \notin frames'[1].todo
                  /\ Nested(Built, Copy, k) /\ heap'[Built][k] = heap[Built][k]
    BY <1>4
  <1> QED
    BY <1>0, <1>1, <1>3, <1>4, BottomStep

\* How a context in the making becomes what it is next.
LEMMA ContextStep ==
    ASSUME IInv, [Next]_vars, Started'
    PROVE  \/ (Evaluate \/ NextCall) /\ at' = 1 /\ phase' = "building" /\ \A k \in Keys : heap'[Built][k] = None
           \/ /\ Begin /\ at' = at /\ call' = call /\ phase = "building" /\ phase' = "merging" /\ Started
              /\ \A k \in Keys : heap'[Built][k] = heap[Built][k]
              /\ frames'[1].todo = Held(Source)
           \/ Skip /\ at' = at + 1 /\ call' = call /\ heap' = heap /\ phase' # "merging" /\ Started
           \/ /\ Merged /\ at' = at + 1 /\ call' = call /\ heap' = heap /\ phase' # "merging" /\ Started
              /\ phase = "merging" /\ frames[1].todo = {}
           \/ phase = "merging" /\ phase' = "merging" /\ at' = at /\ call' = call /\ Started
           \/ phase # "merging" /\ phase' = phase /\ at' = at /\ call' = call /\ heap' = heap /\ Started
  <1>0. given' = given /\ given \in Inputs /\ TypeOK /\ TypeOK'
    BY Kept
  <1>1. CASE Evaluate \/ NextCall
    BY <1>0, <1>1, Distinct DEF Evaluate, NextCall, Empty, TypeOK
  <1>2. CASE Begin
    <2>1. \A k \in Keys : heap'[Built][k] = heap[Built][k]
      BY <1>0, <1>2, Distinct DEF Begin, TypeOK
    <2>2. frames'[1].todo = Held(Source)
      BY <1>2, FrameTyped, Distinct DEF Begin, Held
    <2> QED
      BY <1>2, <2>1, <2>2 DEF Begin, Started
  <1>3. CASE Skip
    <2>1. phase' # "merging" /\ at' = at + 1
      BY <1>3 DEF Skip, Onward
    <2> QED
      BY <1>3, <2>1 DEF Skip, Started
  <1>4. CASE Merged
    <2>1. phase' # "merging" /\ at' = at + 1
      BY <1>4 DEF Merged, Onward
    <2>2. Top = frames[1] /\ Top.todo = {}
      BY <1>4 DEF Merged, Top
    <2>3. call \in DOMAIN given.calls /\ phase = "merging"
      BY <1>0, <1>4 DEF Merged, TypeOK
    <2> QED
      BY <1>4, <2>1, <2>2, <2>3 DEF Merged, Started
  <1>5. CASE Assign \/ Recurse \/ Leave
    <2>1. phase' = phase /\ call' = call /\ at' = at /\ frames # <<>>
      BY <1>0, <1>5 DEF Assign, Recurse, Leave, Iterating
    <2>2. phase = "merging"
      BY <1>0, <2>1 DEF TypeOK, Started
    <2> QED
      BY <1>0, <2>1, <2>2 DEF Started
  <1>6. CASE CheckForbidden \/ CheckRule \/ UNCHANGED vars
    BY <1>0, <1>6 DEF CheckForbidden, CheckRule, vars, Started
  <1>7. CASE NoContext \/ Inject \/ Injected \/ Raise \/ EvaluateNothing \/ Return
    BY <1>0, <1>7 DEF NoContext, Inject, Injected, Raise, EvaluateNothing, Return, Started
  <1> QED
    BY <1>1, <1>2, <1>3, <1>4, <1>5, <1>6, <1>7 DEF Next

LEMMA SpecialPreserved ==
    ASSUME IInv, [Next]_vars
    PROVE  SpecialInv'
  <1>0. given' = given /\ given \in Inputs /\ TypeOK /\ TypeOK' /\ ExtraGiven' = ExtraGiven
    BY Kept
  <1> SUFFICES ASSUME Clean', Started', at' > 1, NEW n \in Special
               PROVE  heap'[Built][n] = ExtraGiven[n]
    BY <1>0 DEF SpecialInv
  <1>1. Clean /\ n \in Keys
    BY CleanKept, Distinct
  <1>2. Started /\ at > 1 => heap[Built][n] = ExtraGiven[n]
    BY <1>1 DEF IInv, SpecialInv
  <1>3. CASE Skip /\ heap' = heap /\ Started
    BY <1>1, <1>2, <1>3, SkippedEmpty
  <1>4. CASE Merged /\ heap' = heap /\ Started /\ phase = "merging" /\ frames[1].todo = {}
    <2>1. at = 1 => heap[Built][n] = ExtraGiven[n]
      BY <1>1, <1>4 DEF IInv, FreshInv
    <2>2. at \in 1..8
      BY <1>0, <1>4 DEF TypeOK
    <2> QED
      BY <1>2, <1>4, <2>1, <2>2
  <1>5. CASE phase = "merging" /\ phase' = "merging" /\ at' = at /\ Started
    <2>1. at \in 2..8 /\ heap[Built][n] = ExtraGiven[n]
      BY <1>0, <1>2, <1>5 DEF TypeOK
    <2>2. heap[Copy][n] = None
      BY <1>0, <1>1, <1>5, <2>1, SourcesClean DEF IInv, CopyInv
    <2> QED
      BY <1>1, <1>5, <2>1, <2>2, BuiltStep
  <1> QED
    BY <1>0, <1>1, <1>2, <1>3, <1>4, <1>5, ContextStep

LEMMA LatestKept ==
    ASSUME NEW k, NEW m \in Nat, Latest(k, m), S[m + 1][k] = None
    PROVE  Latest(k, m + 1)
  <1>1. CASE heap[Built][k] = None
    BY <1>1 DEF Latest
  <1>2. CASE heap[Built][k] # None
    <2>1. PICK i \in 1..m : /\ heap[Built][k] = S[i][k]
                            /\ \A j \in (i + 1)..m : S[j][k] = None
      BY <1>2 DEF Latest
    <2>2. \A j \in (i + 1)..(m + 1) : S[j][k] = None
      BY <2>1
    <2> QED
      BY <1>2, <2>1, <2>2 DEF Latest
  <1> QED
    BY <1>1, <1>2

\* A plain value is that of the latest payload merged that has one.
LEMMA PlainPreserved ==
    ASSUME IInv, [Next]_vars
    PROVE  PlainInv'
  <1>0. given' = given /\ given \in Inputs /\ TypeOK /\ TypeOK' /\ (call' = call => S' = S)
    BY Kept
  <1> SUFFICES ASSUME Clean', Started', NEW k \in PlainKeys \ Special
               PROVE  Latest(k, Upto(k))'
    BY <1>0 DEF PlainInv, PlainKeys
  <1>1. Clean /\ k \in Keys /\ at \in 1..9
    BY <1>0, CleanKept DEF PlainKeys, TypeOK
  <1>2. Started => Latest(k, Upto(k))
    BY <1>1 DEF IInv, PlainInv
  <1>3. CASE (Evaluate \/ NextCall) /\ at' = 1 /\ phase' = "building" /\ heap'[Built][k] = None
    <2>1. Upto(k)' = 0
      BY <1>3 DEF Upto
    <2> QED
      BY <1>3, <2>1 DEF Latest
  <1>4. CASE /\ Begin /\ at' = at /\ call' = call /\ phase = "building" /\ phase' = "merging" /\ Started
             /\ heap'[Built][k] = heap[Built][k] /\ frames'[1].todo = Held(Source)
    <2>1. Latest(k, at - 1)
      BY <1>2, <1>4 DEF Upto
    <2>2. heap[Source][k] = S[at][k]
      BY <1>1, <1>4, BegunWith
    <2>3. CASE heap[Source][k] # None
      <3>1. Upto(k)' = at - 1
        BY <1>1, <1>4, <2>3 DEF Upto, Held
      <3> QED
        BY <1>0, <1>4, <2>1, <3>1 DEF Latest
    <2>4. CASE heap[Source][k] = None
      <3>1. Upto(k)' = at
        BY <1>1, <1>4, <2>4 DEF Upto, Held
      <3>2. at - 1 \in Nat /\ (at - 1) + 1 = at
        BY <1>1
      <3>3. Latest(k, at)
        BY <2>1, <2>2, <2>4, <3>2, LatestKept
      <3> QED
        BY <1>0, <1>4, <3>1, <3>3 DEF Latest
    <2> QED
      BY <2>3, <2>4
  <1>5. CASE Skip /\ at' = at + 1 /\ call' = call /\ heap' = heap /\ phase' # "merging" /\ Started
    <2>1. Latest(k, at - 1) /\ S[at][k] = None /\ Upto(k)' = at
      BY <1>1, <1>2, <1>5, SkippedEmpty DEF Upto, Skip
    <2>2. at - 1 \in Nat /\ (at - 1) + 1 = at
      BY <1>1
    <2>3. Latest(k, at)
      BY <2>1, <2>2, LatestKept
    <2> QED
      BY <1>0, <1>5, <2>1, <2>3 DEF Latest
  <1>6. CASE /\ Merged /\ at' = at + 1 /\ call' = call /\ heap' = heap /\ phase' # "merging" /\ Started
             /\ phase = "merging" /\ frames[1].todo = {}
    <2>1. Latest(k, at) /\ Upto(k)' = at
      BY <1>1, <1>2, <1>6 DEF Upto
    <2> QED
      BY <1>0, <1>6, <2>1 DEF Latest
  <1>7. CASE phase = "merging" /\ phase' = "merging" /\ at' = at /\ call' = call /\ Started
    <2>1. ~Nested(Built, Copy, k)
      BY Distinct DEF Nested, IInv, PlainStays
    <2>2. CASE heap'[Built][k] = heap[Built][k] /\ (k \in frames'[1].todo <=> k \in frames[1].todo)
      <3>1. Upto(k)' = Upto(k)
        BY <1>7, <2>2 DEF Upto
      <3> QED
        BY <1>0, <1>2, <1>7, <2>2, <3>1 DEF Latest
    <2>3. CASE k \notin frames'[1].todo /\ heap[Copy][k] # None /\ heap'[Built][k] = heap[Copy][k]
      <3>1. heap'[Built][k] = S[at][k] /\ heap'[Built][k] # None
        BY <1>1, <1>7, <2>3 DEF IInv, CopyInv
      <3>2. Upto(k)' = at
        BY <1>7, <2>3 DEF Upto
      <3> QED
        BY <1>0, <1>1, <1>7, <3>1, <3>2 DEF Latest
    <2> QED
      BY <1>1, <1>7, <2>1, <2>2, <2>3, BuiltStep
  <1>8. CASE phase # "merging" /\ phase' = phase /\ at' = at /\ call' = call /\ heap' = heap /\ Started
    <2>1. Upto(k)' = Upto(k)
      BY <1>8 DEF Upto
    <2> QED
      BY <1>0, <1>2, <1>8, <2>1 DEF Latest
  <1> QED
    BY <1>1, <1>3, <1>4, <1>5, <1>6, <1>7, <1>8, ContextStep

-----------------------------------------------------------------------------
(* Reports. *)

\* What the documentation promises of plain values follows from which source
\* was the latest with one, once all eight have been merged.
LEMMA LatestTakesPrecedence ==
    ASSUME IInv
    PROVE  PlainByPrecedence
  <1> SUFFICES ASSUME phase = "rules", Clean, NEW k \in PlainKeys \ Special
               PROVE  LET P == Precedence(Current) IN
                      FirstOf([i \in 1..7 |-> P[i][k]], heap[Built][k])
    BY DEF PlainByPrecedence, Clean
  <1> DEFINE P == Precedence(Current)
             V == [i \in 1..7 |-> P[i][k]]
  <1>0. given \in Inputs /\ at = 9 /\ Started /\ k \in Keys /\ k # RuntimeKey
    BY DEF IInv, TypeOK, Started, PlainKeys, Special
  <1>1. Latest(k, 8)
    BY <1>0 DEF IInv, PlainInv, Upto
  <1>2. /\ P[1] = RuntimeGiven /\ P[2] = Given(Current.result) /\ P[3] = Given(Current.args)
        /\ P[4] = Given(Current.output) /\ P[5] = Given(Current.input)
        /\ P[6] = Given(given.dicts[Extra][ContextKey]) /\ P[7] = given.dicts[Extra]
    BY DEF Precedence
  <1>3. ExtraGiven[k] = given.dicts[Extra][k]
    BY <1>0, ExtraGivenItems
  <1>4. /\ S[8][k] = V[1] /\ S[7][k] = V[2] /\ S[6][k] = V[3] /\ S[5][k] = V[4]
        /\ S[4][k] = V[5] /\ S[2][k] = V[6] /\ S[1][k] = V[7] /\ S[3][k] = V[1]
    BY <1>0, <1>2, <1>3, SourceItems DEF Started
  <1>5. DOMAIN V = 1..7
    OBVIOUS
  <1> HIDE DEF P, V
  <1>6. CASE heap[Built][k] = None
    <2>1. \A i \in 1..8 : S[i][k] = None
      BY <1>1, <1>6 DEF Latest
    <2>2. \A i \in 1..7 : V[i] = None
      BY <1>4, <2>1
    <2>3. FirstOf(V, heap[Built][k])
      BY <1>5, <1>6, <2>2 DEF FirstOf
    <2> QED
      BY <2>3 DEF V, P
  <1>7. CASE heap[Built][k] # None
    <2>1. PICK i \in 1..8 : /\ heap[Built][k] = S[i][k]
                            /\ \A j \in (i + 1)..8 : S[j][k] = None
      BY <1>1, <1>7 DEF Latest
    <2>2. i # 3
      BY <1>4, <1>7, <2>1
    <2>3. CASE i \in 4..8
      <3>1. heap[Built][k] = V[9 - i] /\ 9 - i \in 1..7
        BY <1>4, <2>1, <2>3
      <3>2. \A j \in 1..((9 - i) - 1) : V[j] = None
        BY <1>4, <2>1, <2>3
      <3>3. FirstOf(V, heap[Built][k])
        BY <1>5, <1>7, <3>1, <3>2 DEF FirstOf
      <3> QED
        BY <3>3 DEF V, P
    <2>4. CASE i \in 1..2
      <3>1. heap[Built][k] = V[8 - i] /\ 8 - i \in 1..7
        BY <1>4, <2>1, <2>4
      <3>2. \A j \in 1..((8 - i) - 1) : V[j] = None
        BY <1>4, <2>1, <2>4
      <3>3. FirstOf(V, heap[Built][k])
        BY <1>5, <1>7, <3>1, <3>2 DEF FirstOf
      <3> QED
        BY <3>3 DEF V, P
    <2> QED
      BY <2>1, <2>2, <2>3, <2>4
  <1> QED
    BY <1>6, <1>7

LEMMA UnknownResolved ==
    ASSUME IInv, NEW p \in Paths, Unknown(p)
    PROVE  Resolve(p) = None
  <1>1. TypeOK /\ \A k \in Keys : UnknownKey(k) => \A d \in Dicts : heap[d][k] = None
    BY DEF IInv, NothingInvented
  <1>2. CASE \E k \in Keys : p = <<k>>
    BY <1>1, <1>2, Distinct DEF Unknown, Resolve
  <1>3. CASE \E k, l \in Keys : p = <<k, l>>
    <2>1. PICK k \in Keys, l \in Keys : p = <<k, l>>
      BY <1>3
    <2>2. UnknownKey(k) \/ UnknownKey(l)
      BY <2>1 DEF Unknown
    <2>3. Resolve(p) = IF heap[Built][k] \in Dicts THEN heap[heap[Built][k]][l] ELSE None
      BY <2>1 DEF Resolve
    <2> QED
      BY <1>1, <2>2, <2>3, Distinct
  <1> QED
    BY <1>2, <1>3 DEF Paths

\* A rule that requires what nobody provides, or another value than the CLI's,
\* is not satisfied by the context.
LEMMA NotAllowed ==
    ASSUME IInv, phase = "rules", NEW r \in DOMAIN given.rules, Due(verdicts = <<>>, call, r)
    PROVE  ~Matched(given.rules[r].allowed)
  <1>1. CASE Lacks(r)
    <2>1. PICK p \in Conditional(given.rules[r].allowed) : Unknown(p)
      BY <1>1 DEF Lacks
    <2>2. Resolve(p) = None
      BY <2>1, UnknownResolved DEF Conditional
    <2> QED
      BY <2>1, <2>2 DEF Matched
  <1>2. CASE Withheld(r) /\ Clean
    <2>1. PICK k \in PlainKeys \ Special :
             /\ given.cli /\ <<k>> \in Conditional(given.rules[r].allowed)
             /\ given.dicts[Cli][k] # None
             /\ given.dicts[Cli][k] \notin given.rules[r].allowed[<<k>>]
      BY <1>2 DEF Withheld
    <2>2. Cli \in Dicts /\ k \in Keys /\ given \in Inputs
      BY Distinct DEF PlainKeys, IInv
    <2>3. RuntimeGiven[k] = given.dicts[Cli][k]
      BY <2>1, <2>2, RuntimeGivenItems DEF PlainKeys
    <2>4. heap[Built][k] = given.dicts[Cli][k]
      <3> DEFINE P == Precedence(Current)
                 V == [i \in 1..7 |-> P[i][k]]
      <3>1. FirstOf(V, heap[Built][k])
        BY <1>2, LatestTakesPrecedence DEF PlainByPrecedence, Clean
      <3>2. P[1] = RuntimeGiven
        BY DEF Precedence
      <3>3. V[1] = given.dicts[Cli][k] /\ DOMAIN V = 1..7
        BY <2>3, <3>2
      <3> HIDE DEF V
      <3> QED
        BY <2>1, <3>1, <3>3 DEF FirstOf
    <2>5. Resolve(<<k>>) = heap[Built][k]
      BY DEF Resolve
    <2> QED
      BY <2>1, <2>4, <2>5 DEF Matched
  <1> QED
    BY <1>1, <1>2 DEF Due, Clean, Reached

LEMMA AppendKeeps ==
    ASSUME NEW T, NEW s \in Seq(T), NEW x \in T
    PROVE  /\ \A i \in DOMAIN s : i \in DOMAIN Append(s, x) /\ Append(s, x)[i] = s[i]
           /\ Len(s) + 1 \in DOMAIN Append(s, x) /\ Append(s, x)[Len(s) + 1] = x
  OBVIOUS

\* A report stays, and the one made is there.
LEMMA ReportKept ==
    ASSUME given \in Inputs, TypeOK, phase = "rules", NEW n \in 0..Len(given.rules)
    PROVE  /\ \A c, r : Reported(violations, c, r) => Reported(Report(n), c, r)
           /\ Reported(Report(n), call, n)
  <1>1. /\ [call |-> call, rule |-> n] \in [call : DOMAIN given.calls, rule : 0..Len(given.rules)]
        /\ violations \in Seq([call : DOMAIN given.calls, rule : 0..Len(given.rules)])
    BY DEF TypeOK, Found
  <1> QED
    BY <1>1, AppendKeeps DEF Reported, Report

LEMMA DueKept ==
    ASSUME given' = given
    PROVE  /\ \A c, r : Due(verdicts = <<>>, c, r)' <=> Due(verdicts' = <<>>, c, r)
           /\ \A e, c, r : Due(e = 1, c, r)' <=> Due(e = 1, c, r)
  <1>1. \A r : Withheld(r)' <=> Withheld(r)
    BY DEF Withheld, Conditional, Paths, PlainKeys
  <1>2. \A r : Lacks(r)' <=> Lacks(r)
    BY DEF Lacks, Unknown, UnknownKey, Conditional, Paths
  <1>3. \A n : Undisturbed(n)' <=> Undisturbed(n)
    BY DEF Undisturbed, Consulted
  <1>4. \A r : Strict(r)' <=> Strict(r)
    BY DEF Strict
  <1> QED
    BY <1>1, <1>2, <1>3, <1>4 DEF Due

LEMMA ReportsPreserved ==
    ASSUME IInv, [Next]_vars
    PROVE  ReportsInv'
  <1>0. /\ given' = given /\ given \in Inputs /\ TypeOK
        /\ given.calls \in Seq(ToolCalls) /\ given.rules \in Seq(Rules)
    BY NextTyped, GivenTyped DEF IInv
  <1> SUFFICES ASSUME phase' \in {"building", "merging", "rules"},
                      NEW c \in DOMAIN given.calls, NEW r \in DOMAIN given.rules,
                      Due(verdicts' = <<>>, c, r), c < call' \/ (c = call' /\ r < rule')
               PROVE  Reported(violations', c, r)
    BY <1>0, DueKept DEF ReportsInv, Reported
  <1>1. c \in Nat /\ r \in Nat /\ c >= 1 /\ r >= 1 /\ r <= Len(given.rules)
    BY <1>0
  <1>2. CASE CheckForbidden
    <2>1. Reported(violations, c, r)
      BY <1>1, <1>2 DEF CheckForbidden, IInv, ReportsInv
    <2> QED
      BY <1>0, <1>2, <2>1, ReportKept DEF CheckForbidden
  <1>3. CASE CheckRule
    <2>0. phase = "rules" /\ call' = call /\ rule' = rule + 1 /\ verdicts' = verdicts
      BY <1>3 DEF CheckRule
    <2>1. CASE c = call /\ r = rule
      <3>1. ~Matched(given.rules[r].allowed)
        BY <2>0, <2>1, NotAllowed
      <3>2. Violates(given.rules[rule])
        BY <2>1, <3>1 DEF Violates, Due, Strict, Current
      <3> QED
        BY <1>0, <1>3, <2>1, <3>2, ReportKept DEF CheckRule
    <2>2. CASE ~(c = call /\ r = rule)
      <3>1. call \in Nat /\ rule \in Nat
        BY <1>0 DEF TypeOK
      <3>2. c < call \/ (c = call /\ r < rule)
        BY <1>1, <2>0, <2>2, <3>1
      <3>3. Reported(violations, c, r)
        BY <2>0, <3>2 DEF IInv, ReportsInv
      <3> QED
        BY <1>0, <1>3, <3>3, ReportKept DEF CheckRule
    <2> QED
      BY <2>1, <2>2
  <1>4. CASE NextCall
    BY <1>0, <1>1, <1>4 DEF NextCall, IInv, ReportsInv, TypeOK
  <1>5. CASE Evaluate
    BY <1>0, <1>1, <1>5 DEF Evaluate, TypeOK
  <1>6. CASE Assign \/ Recurse \/ Leave \/ Begin \/ Skip \/ Merged \/ UNCHANGED vars
    <2>1. /\ UNCHANGED <<call, rule, violations, verdicts>>
          /\ phase \in {"building", "merging", "rules"}
      BY <1>6 DEF Assign, Recurse, Leave, Begin, Skip, Merged, vars
    <2> QED
      BY <2>1 DEF IInv, ReportsInv
  <1>7. CASE NoContext \/ Inject \/ Injected \/ Raise \/ EvaluateNothing \/ Return
    BY <1>7 DEF NoContext, Inject, Injected, Raise, EvaluateNothing, Return
  <1> QED
    BY <1>2, <1>3, <1>4, <1>5, <1>6, <1>7 DEF Next

\* An evaluation that ends has judged every call by every rule.
LEMMA VerdictsPreserved ==
    ASSUME IInv, [Next]_vars
    PROVE  VerdictsInv'
  <1>0. /\ given' = given /\ given \in Inputs /\ TypeOK
        /\ given.calls \in Seq(ToolCalls) /\ given.rules \in Seq(Rules)
    BY NextTyped, GivenTyped DEF IInv
  <1> SUFFICES ASSUME NEW e \in DOMAIN verdicts',
                      NEW c \in DOMAIN given.calls, NEW r \in DOMAIN given.rules,
                      Due(e = 1, c, r)
               PROVE  Reported(verdicts'[e], c, r)
    <2>1. \A e, c, r : (Due(e = 1, c, r) => Reported(verdicts[e], c, r))'
                           <=> (Due(e = 1, c, r) => Reported(verdicts'[e], c, r))
      BY <1>0, DueKept DEF Reported
    <2> QED
      BY <1>0, <2>1 DEF VerdictsInv
  <1>1. CASE Return
    <2>1. verdicts' = Append(verdicts, violations) /\ verdicts \in Seq(Found) /\ violations \in Found
      BY <1>0, <1>1 DEF Return, TypeOK
    <2>2. CASE e = Len(verdicts) + 1
      <3>1. (e = 1) = (verdicts = <<>>)
        BY <2>1, <2>2
      <3>2. Due(verdicts = <<>>, c, r)
        BY <3>1
      <3>3. Reported(violations, c, r)
        BY <1>0, <1>1, <3>2 DEF Return, IInv, ReportsInv, TypeOK
      <3> QED
        BY <2>1, <2>2, <3>3, AppendKeeps
    <2>3. CASE e \in DOMAIN verdicts
      BY <2>1, <2>3, AppendKeeps DEF IInv, VerdictsInv
    <2> QED
      BY <2>1, <2>2, <2>3
  <1>2. CASE EvaluateNothing
    BY <1>0, <1>2 DEF EvaluateNothing
  <1>3. CASE ~(Return \/ EvaluateNothing)
    <2>1. verdicts' = verdicts
      BY <1>3 DEF Next, NoContext, Inject, Injected, Assign, Recurse, Leave, Raise, Evaluate,
          Begin, Skip, Merged, CheckForbidden, CheckRule, NextCall, vars
    <2> QED
      BY <2>1 DEF IInv, VerdictsInv
  <1> QED
    BY <1>1, <1>2, <1>3

-----------------------------------------------------------------------------
(* Which dicts of payloads are written to. *)

LEMMA NestedStaysPreserved ==
    ASSUME IInv, WInv, [Next]_vars
    PROVE  NestedStays'
  <1>0. given' = given
    BY Kept
  <1> SUFFICES ASSUME NEW k \in NestedKeys, NEW d \in Dicts
               PROVE  heap'[d][k] \notin Values
    BY <1>0 DEF NestedStays, NestedKeys
  <1>1. k \in Keys /\ \A e \in Dicts : heap[e][k] \notin Values
    BY DEF WInv, NestedStays, NestedKeys
  <1> QED
    BY <1>1, SameKey, Distinct

LEMMA HomePreserved ==
    ASSUME IInv, WInv, [Next]_vars
    PROVE  HomeInv'
  <1>0. given' = given /\ given \in Inputs /\ TypeOK
    BY Kept
  <1>1. AllPayloads' = AllPayloads
    BY <1>0 DEF AllPayloads
  <1> SUFFICES ASSUME NEW x \in AllPayloads \union {Extra}, NEW n \in Keys, given.dicts[x][n] \in Dicts,
                      NEW d \in Dicts, NEW k \in Keys, heap'[d][k] = given.dicts[x][n]
               PROVE  k = n /\ d \in {x, Built, Copy}
    BY <1>0, <1>1 DEF HomeInv
  <1>2. \A e \in Dicts : heap[e][k] = heap'[d][k] => k = n /\ e \in {x, Built, Copy}
    BY DEF WInv, HomeInv
  <1>3. {x, Built, Copy} \subseteq Roots /\ x \in Dicts
    BY <1>0, RootsTyped DEF Roots
  <1>4. CASE Assign /\ frames # <<>> /\ d = Top.target /\ heap'[d][k] = heap[Top.source][k]
    <2>1. k = n /\ Top.source \in {x, Built, Copy}
      BY <1>0, <1>2, <1>4, TopTyped
    <2>2. Top.target = Built
      <3>1. Cli \notin {x, Built, Copy}
        BY <1>0, PayloadsTyped, Distinct
      <3> QED
        BY <1>3, <1>4, <2>1, <3>1, TopFrame
    <2> QED
      BY <1>4, <2>1, <2>2
  <1>5. CASE Inject /\ heap'[d][k] = Existing[k]
    <2>1. heap[Extra][RuntimeKey] \in Dicts /\ heap'[d][k] = heap[heap[Extra][RuntimeKey]][k]
      BY <1>5, Distinct DEF Existing, Empty
    <2>2. heap[Extra][RuntimeKey] \notin Roots
      BY Distinct DEF IInv, RefInv
    <2> QED
      BY <1>2, <1>3, <2>1, <2>2
  <1>6. CASE heap'[d][k] = Runtime
    BY <1>0, <1>3, <1>6, Trees
  <1>7. CASE Begin /\ d = Copy /\ heap'[d][k] = heap[Source][k]
    BY <1>2, <1>7 DEF Begin
  <1>8. heap'[d][k] # None
    BY Distinct
  <1> QED
    BY <1>0, <1>2, <1>4, <1>5, <1>6, <1>7, <1>8, HeapStep

\* What is assigned under a key that holds dicts is a dict.
LEMMA DictAssigned ==
    ASSUME IInv, WInv, NEW k \in NestedKeys, Assign, frames # <<>>, k \in Top.todo
    PROVE  heap[Top.source][k] \in Dicts
  <1>1. Held(Top.source) = Top.keys /\ Top.todo \subseteq Top.keys /\ Top.source \in Dicts /\ k \in Keys
    BY TopFrame, TopTyped DEF Assign, Iterating, NestedKeys, IInv
  <1>2. heap[Top.source][k] # None
    BY <1>1 DEF Held
  <1> QED
    BY <1>1, <1>2, HeapTyped DEF WInv, NestedStays, IInv

LEMMA HasPreserved ==
    ASSUME IInv, WInv, [Next]_vars
    PROVE  HasInv'
  <1>0. given' = given /\ given \in Inputs /\ TypeOK /\ RuntimeGiven' = RuntimeGiven
    BY Kept
  <1> SUFFICES ASSUME NEW k \in NestedKeys
               PROVE  /\ \A d \in Dicts : given.dicts[d][k] \in Dicts => heap'[d][k] \in Dicts
                      /\ Attached' /\ given.cli /\ RuntimeGiven[k] \in Dicts => heap'[Runtime][k] \in Dicts
    BY <1>0 DEF HasInv, NestedKeys
  <1>1. k \in Keys
    BY DEF NestedKeys
  <1>2. ASSUME NEW d \in Dicts, given.dicts[d][k] \in Dicts
        PROVE  heap'[d][k] \in Dicts
    <2>1. heap[d][k] \in Dicts
      BY <1>2 DEF WInv, HasInv
    <2>2. d \notin {Runtime, Built, Copy}
      BY <1>0, <1>1, <1>2, Trees, Distinct
    <2> QED
      BY <1>0, <1>1, <2>1, <2>2, HeapStep, DictAssigned, Distinct
  <1>3. ASSUME Attached', given.cli, RuntimeGiven[k] \in Dicts
        PROVE  heap'[Runtime][k] \in Dicts
    <2>1. CASE Attached
      <3>1. heap[Runtime][k] \in Dicts
        BY <1>3, <2>1 DEF WInv, HasInv
      <3>2. ~Inject
        BY <2>1 DEF Inject, Attached
      <3> QED
        BY <1>0, <1>1, <3>1, <3>2, HeapStep, DictAssigned, Distinct
    <2>2. CASE Injected
      <3>1. phase = "injecting" /\ Top.todo = {} /\ Len(frames) = 1
        BY <2>2 DEF Injected
      <3>2. heap[Runtime][k] = RuntimeGiven[k]
        BY <1>1, <3>1 DEF Top, IInv, InjectInv
      <3>3. heap'[Runtime][k] = heap[Runtime][k]
        BY <1>0, <2>2, Distinct DEF Injected, TypeOK
      <3> QED
        BY <1>3, <3>2, <3>3
    <2>3. Attached \/ Injected
      BY <1>3 DEF Attached, Next, NoContext, Inject, Injected, Assign, Recurse, Leave, Raise, Evaluate,
          EvaluateNothing, Begin, Skip, Merged, Return, CheckForbidden, CheckRule, NextCall, vars
    <2> QED
      BY <2>1, <2>2, <2>3
  <1> QED
    BY <1>2, <1>3

LEMMA LookupPreserved ==
    ASSUME IInv, WInv, [Next]_vars
    PROVE  LookupInv'
  <1>0. given' = given /\ given \in Inputs /\ TypeOK /\ TypeOK' /\ ExtraGiven' = ExtraGiven
    BY Kept
  <1>1. ASSUME Started', phase' = "building", at' = 2, NEW k \in Keys
        PROVE  heap'[Built][k] = ExtraGiven[k]
    <2>1. CASE Skip /\ at' = at + 1 /\ Started
      <3>1. at = 1
        BY <1>0, <1>1, <2>1 DEF TypeOK
      <3>2. Source = Extra /\ Source \notin Dicts
        BY <2>1, <3>1, NextSource DEF Skip
      <3> QED
        BY <3>2, Distinct
    <2>2. CASE Merged /\ at' = at + 1 /\ heap' = heap /\ phase = "merging" /\ frames[1].todo = {}
      <3>1. at = 1
        BY <1>0, <1>1, <2>2 DEF TypeOK
      <3> QED
        BY <2>2, <3>1 DEF IInv, FreshInv
    <2> QED
      BY <1>1, <2>1, <2>2, ContextStep DEF WInv, LookupInv
  <1>2. ASSUME Started', RuntimeKey \in NestedKeys, at' > 1, ExtraGiven[RuntimeKey] \in Dicts
        PROVE  heap'[Built][RuntimeKey] = ExtraGiven[RuntimeKey]
    <2>0. RuntimeKey \in Keys /\ at \in 1..9
      BY <1>0, Distinct DEF TypeOK
    <2>1. CASE Skip /\ heap' = heap /\ Started
      <3>1. at # 1
        BY <2>1, NextSource, Distinct DEF Skip
      <3> QED
        BY <1>2, <2>0, <2>1, <3>1 DEF WInv, LookupInv
    <2>2. CASE Merged /\ heap' = heap /\ Started /\ phase = "merging" /\ frames[1].todo = {}
      BY <1>2, <2>0, <2>2 DEF WInv, LookupInv, IInv, FreshInv
    <2>3. CASE phase = "merging" /\ phase' = "merging" /\ at' = at /\ Started
      <3>1. heap[Built][RuntimeKey] = ExtraGiven[RuntimeKey]
        BY <1>2, <2>0, <2>3 DEF WInv, LookupInv
      <3>2. heap[Copy][RuntimeKey] # None => Nested(Built, Copy, RuntimeKey)
        BY <1>0, <1>2, <2>0, <3>1, HeapTyped, Distinct DEF WInv, NestedStays, Nested
      <3> QED
        BY <2>0, <2>3, <3>1, <3>2, BuiltStep
    <2> QED
      BY <1>2, <2>0, <2>1, <2>2, <2>3, ContextStep DEF WInv, LookupInv
  <1> QED
    BY <1>0, <1>1, <1>2 DEF LookupInv, NestedKeys

\* A source that is given a dict under a key has one when it is looked up.
LEMMA SourceHas ==
    ASSUME IInv, WInv, phase = "building", call \in DOMAIN given.calls,
           RuntimeKey \in NestedKeys, NEW k \in NestedKeys, S[at][k] \in Dicts
    PROVE  Source \in Dicts /\ heap[Source][k] \in Dicts
  <1>0. /\ given \in Inputs /\ TypeOK /\ at \in 1..8 /\ k \in Keys /\ Attached /\ Started
        /\ RuntimeKey \in Keys /\ ContextKey \in Keys
    BY NextSource, Distinct DEF IInv, NestedKeys, Attached, Started
  <1>1. CASE at = 1
    BY <1>0, <1>1, NextSource, SourceItems, Distinct DEF IInv, RootsInv
  <1>2. CASE at \in 4..7
    <2>1. Source \in AllPayloads \union {None} /\ S[at] = Given(Source)
      BY <1>0, <1>2, NextSource
    <2>2. Source \in Dicts /\ given.dicts[Source][k] \in Dicts
      BY <1>0, <2>1, GivenItems, Distinct
    <2> QED
      BY <2>2 DEF WInv, HasInv
  <1>3. CASE at = 2
    <2>1. Source = ExtraGiven[ContextKey]
      BY <1>0, <1>3, NextSource DEF WInv, LookupInv
    <2>2. ExtraGiven[ContextKey] = given.dicts[Extra][ContextKey]
      BY <1>0, ExtraGivenItems, Distinct
    <2>3. S[at] = Given(Source)
      BY <1>0, <1>3, <2>1, <2>2, SourceItems
    <2>4. Source \in Dicts /\ given.dicts[Source][k] \in Dicts
      BY <1>0, <2>3, GivenItems, Distinct
    <2> QED
      BY <2>4 DEF WInv, HasInv
  <1>4. CASE at \in {3, 8}
    <2>1. RuntimeGiven[k] \in Dicts
      BY <1>0, <1>4, SourceItems
    <2>2. CASE given.cli
      <3>1. ExtraGiven[RuntimeKey] = Runtime
        BY <1>0, <2>2, ExtraGivenItems
      <3>2. Source = Runtime
        BY <1>0, <1>4, <3>1, NextSource, Distinct DEF WInv, LookupInv
      <3> QED
        BY <1>0, <2>1, <2>2, <3>2, Distinct DEF WInv, HasInv
    <2>3. CASE ~given.cli
      <3>1. ExtraGiven[RuntimeKey] = given.dicts[Extra][RuntimeKey]
        BY <1>0, <2>3, ExtraGivenItems
      <3>2. Recorded[k] \in Dicts
        BY <1>0, <2>1, <2>3, RuntimeGivenItems
      <3>3. given.dicts[Extra][RuntimeKey] \in Dicts /\ given.dicts[given.dicts[Extra][RuntimeKey]][k] \in Dicts
        BY <1>0, <3>2, GivenItems, Distinct DEF Recorded
      <3>4. Source = given.dicts[Extra][RuntimeKey]
        BY <1>0, <1>4, <3>1, <3>3, NextSource DEF WInv, LookupInv
      <3> QED
        BY <3>3, <3>4 DEF WInv, HasInv
    <2> QED
      BY <2>2, <2>3
  <1> QED
    BY <1>0, <1>1, <1>2, <1>3, <1>4

LEMMA BuiltHasPreserved ==
    ASSUME IInv, WInv, [Next]_vars
    PROVE  BuiltHasInv'
  <1>0. given' = given /\ given \in Inputs /\ TypeOK /\ TypeOK' /\ (call' = call => S' = S)
    BY Kept
  <1> SUFFICES ASSUME Started', RuntimeKey \in NestedKeys, NEW k \in NestedKeys,
                      NEW j \in 1..(Upto(k)'), S'[j][k] \in Dicts
               PROVE  heap'[Built][k] \in Dicts
    BY <1>0 DEF BuiltHasInv, NestedKeys
  <1>1. k \in Keys /\ at \in 1..9
    BY <1>0 DEF NestedKeys, TypeOK
  <1>2. Started => \A i \in 1..Upto(k) : S[i][k] \in Dicts => heap[Built][k] \in Dicts
    BY DEF WInv, BuiltHasInv
  <1>3. CASE (Evaluate \/ NextCall) /\ at' = 1 /\ phase' = "building"
    <2>1. Upto(k)' = 0
      BY <1>3 DEF Upto
    <2> QED
      BY <2>1
  <1>4. CASE /\ Begin /\ at' = at /\ call' = call /\ phase = "building" /\ phase' = "merging" /\ Started
             /\ heap'[Built][k] = heap[Built][k] /\ frames'[1].todo = Held(Source)
    <2>1. Upto(k) = at - 1 /\ Upto(k)' = IF heap[Source][k] # None THEN at - 1 ELSE at
      BY <1>1, <1>4 DEF Upto, Held
    <2>2. heap[Source][k] = None => S[at][k] \notin Dicts
      BY <1>4, SourceHas, Distinct DEF Started
    <2>3. j \in 1..Upto(k)
      BY <1>0, <1>1, <1>4, <2>1, <2>2
    <2> QED
      BY <1>0, <1>2, <1>4, <2>3
  <1>5. CASE Skip /\ at' = at + 1 /\ call' = call /\ heap' = heap /\ phase' # "merging" /\ Started
    <2>1. Upto(k) = at - 1 /\ Upto(k)' = at
      BY <1>1, <1>5 DEF Upto, Skip
    <2>2. S[at][k] \notin Dicts
      BY <1>5, SourceHas DEF Started, Skip
    <2>3. j \in 1..Upto(k)
      BY <1>0, <1>1, <1>5, <2>1, <2>2
    <2> QED
      BY <1>0, <1>2, <1>5, <2>3
  <1>6. CASE /\ Merged /\ at' = at + 1 /\ call' = call /\ heap' = heap /\ phase' # "merging" /\ Started
             /\ phase = "merging" /\ frames[1].todo = {}
    <2>1. Upto(k) = at /\ Upto(k)' = at
      BY <1>1, <1>6 DEF Upto
    <2> QED
      BY <1>0, <1>2, <1>6, <2>1
  <1>7. CASE phase = "merging" /\ phase' = "merging" /\ at' = at /\ call' = call /\ Started
    <2>1. CASE heap'[Built][k] = heap[Built][k] /\ (k \in frames'[1].todo <=> k \in frames[1].todo)
      <3>1. Upto(k)' = Upto(k)
        BY <1>7, <2>1 DEF Upto
      <3> QED
        BY <1>0, <1>2, <1>7, <2>1, <3>1
    <2>2. CASE heap[Copy][k] # None /\ heap'[Built][k] = heap[Copy][k]
      BY <1>0, <1>1, <2>2, HeapTyped, Distinct DEF WInv, NestedStays
    <2>3. CASE Nested(Built, Copy, k) /\ heap'[Built][k] = heap[Built][k]
      BY <2>3 DEF Nested
    <2> QED
      BY <1>1, <1>7, <2>1, <2>2, <2>3, BuiltStep
  <1>8. CASE phase # "merging" /\ phase' = phase /\ at' = at /\ call' = call /\ heap' = heap /\ Started
    <2>1. Upto(k)' = Upto(k)
      BY <1>8 DEF Upto
    <2> QED
      BY <1>0, <1>2, <1>8, <2>1
  <1> QED
    BY <1>1, <1>3, <1>4, <1>5, <1>6, <1>7, <1>8, ContextStep

LEMMA BuiltFirstPreserved ==
    ASSUME IInv, WInv, [Next]_vars
    PROVE  BuiltFirstInv'
  <1>0. given' = given /\ given \in Inputs /\ TypeOK /\ TypeOK'
    BY Kept
  <1>1. AllPayloads' = AllPayloads /\ \A x, k : FirstSomewhere(x, k)' <=> FirstSomewhere(x, k)
    BY <1>0 DEF AllPayloads, FirstSomewhere, FirstHolder, GivenSources, ExtraGiven, RuntimeGiven, Recorded, Given
  <1> SUFFICES ASSUME RuntimeKey \in NestedKeys, NEW x \in AllPayloads, NEW k \in NestedKeys,
                      given.dicts[x][k] \in Dicts
               PROVE  /\ heap'[Built][k] = given.dicts[x][k] => FirstSomewhere(x, k)
                      /\ phase' = "merging" /\ heap'[Copy][k] = given.dicts[x][k] =>
                            at' \in 4..7 /\ Sources(Current)'[at'] = x
    BY <1>0, <1>1 DEF BuiltFirstInv, NestedKeys
  <1>2. k \in Keys /\ x \in Dicts /\ x \notin {Extra, Cli, Runtime, Built, Copy}
    BY <1>0, PayloadsTyped DEF NestedKeys
  <1>3. ASSUME heap'[Built][k] = given.dicts[x][k]
        PROVE  FirstSomewhere(x, k)
    <2>1. CASE heap'[Built][k] = heap[Built][k]
      BY <1>3, <2>1 DEF WInv, BuiltFirstInv
    <2>2. CASE heap'[Built][k] # heap[Built][k]
      <3>1. phase = "merging" /\ phase' = "merging"
        <4>1. Assign /\ frames # <<>> /\ Built = Top.target
          BY <1>0, <1>2, <1>3, <2>2, HeapStep, Distinct
        <4>2. phase' = phase
          BY <4>1 DEF Assign
        <4> QED
          BY <4>1, <4>2, TopFrame, Distinct DEF Roots
      <3>2. /\ k \in frames[1].todo /\ ~Nested(Built, Copy, k) /\ heap[Copy][k] = given.dicts[x][k]
        BY <1>2, <1>3, <2>2, <3>1, BuiltStep
      <3>3. at \in 4..7 /\ Sources(Current)[at] = x
        BY <3>1, <3>2 DEF WInv, BuiltFirstInv
      <3>4. heap[Built][k] \notin Dicts
        BY <3>2 DEF Nested
      <3>5. Started /\ Upto(k) = at - 1
        BY <1>0, <3>1, <3>2 DEF Started, Upto, TypeOK
      <3>6. \A j \in 1..(at - 1) : S[j][k] \notin Dicts
        BY <3>4, <3>5 DEF WInv, BuiltHasInv
      <3>7. <<Current.input, Current.output, Current.args, Current.result>>[at - 3] = x
        BY <1>0, <3>3, <3>5, SourceItems DEF Started
      <3>8. FirstHolder(x, k, given.calls[call])
        BY <3>3, <3>6, <3>7 DEF FirstHolder, S, Current
      <3> QED
        BY <3>5, <3>8 DEF FirstSomewhere, Started
    <2> QED
      BY <2>1, <2>2
  <1>4. ASSUME phase' = "merging", heap'[Copy][k] = given.dicts[x][k]
        PROVE  at' \in 4..7 /\ Sources(Current)'[at'] = x
    <2>1. CASE Begin
      <3>1. heap[Source][k] = given.dicts[x][k] /\ Source \in Dicts /\ phase = "building"
              /\ at' = at /\ call' = call /\ call \in DOMAIN given.calls
        BY <1>0, <1>4, <2>1, Distinct DEF Begin, TypeOK
      <3>2. Source \in {x, Built, Copy}
        BY <1>2, <3>1 DEF WInv, HomeInv
      <3>3. at \in 4..7
        <4>1. ContextKey \in Keys /\ RuntimeKey \in Keys /\ {x, Built, Copy} \subseteq Roots
          BY <1>0, Distinct DEF Roots
        <4>2. heap[Built][ContextKey] \notin Roots /\ heap[Built][RuntimeKey] \notin Roots
          BY <4>1, Distinct DEF IInv, RefInv
        <4>3. at \notin {1, 2, 3, 8}
          BY <1>2, <3>1, <3>2, <4>1, <4>2, NextSource, Distinct
        <4> QED
          BY <3>1, <4>3, NextSource
      <3>4. Source = x
        BY <1>0, <3>1, <3>2, <3>3, NextSource, PayloadsTyped, Distinct
      <3>5. Sources(Current)'[at] = Sources(Current)[at]
        BY <1>0, <3>1, <3>3 DEF Sources, Current
      <3> QED
        BY <3>1, <3>3, <3>4, <3>5 DEF Source
    <2>2. CASE phase = "merging"
      <3>1. at' = at /\ call' = call
        BY <1>0, <1>4, <2>2, BottomStep DEF TypeOK
      <3>2. heap'[Copy][k] = heap[Copy][k]
        BY <1>0, <1>2, <2>2, HeapStep, TopFrame, Distinct DEF Roots, Begin
      <3>3. at \in 4..7 /\ Sources(Current)[at] = x
        BY <1>4, <2>2, <3>2 DEF WInv, BuiltFirstInv
      <3>4. Sources(Current)'[at] = Sources(Current)[at]
        BY <1>0, <3>1, <3>3 DEF Sources, Current
      <3> QED
        BY <3>1, <3>3, <3>4
    <2>3. Begin \/ phase = "merging"
      BY <1>4 DEF Next, NoContext, Inject, Injected, Assign, Recurse, Leave, Raise, Evaluate, EvaluateNothing,
          Begin, Skip, Onward, Merged, Return, CheckForbidden, CheckRule, NextCall, vars
    <2> QED
      BY <2>1, <2>2, <2>3
  <1> QED
    BY <1>3, <1>4

LEMMA WrittenPreserved ==
    ASSUME IInv, WInv, [Next]_vars
    PROVE  WrittenInv'
  <1>0. given' = given /\ given \in Inputs /\ TypeOK /\ TypeOK'
    BY Kept
  <1>1. AllPayloads' = AllPayloads /\ \A x, k : FirstSomewhere(x, k)' <=> FirstSomewhere(x, k)
    BY <1>0 DEF AllPayloads, FirstSomewhere, FirstHolder, GivenSources, ExtraGiven, RuntimeGiven, Recorded, Given
  <1> SUFFICES ASSUME RuntimeKey \in NestedKeys, NEW x \in AllPayloads, NEW k \in NestedKeys,
                      given.dicts[x][k] \in Dicts,
                      \/ \E l \in Keys : heap'[given.dicts[x][k]][l] # given.dicts[given.dicts[x][k]][l]
                      \/ \E i \in DOMAIN frames' : i > 1 /\ frames'[i].target = given.dicts[x][k]
               PROVE  FirstSomewhere(x, k)
    BY <1>0, <1>1 DEF WrittenInv, NestedKeys
  <1> DEFINE nested == given.dicts[x][k]
  <1>2. /\ k \in Keys /\ x \in Dicts /\ x \notin {Extra, Cli, Runtime, Built, Copy}
        /\ nested \notin {Extra, Runtime, Built, Copy} /\ nested \in Dicts
        /\ {x, Built, Copy} \subseteq Roots
    BY <1>0, PayloadsTyped, Trees DEF NestedKeys, Roots
  <1> HIDE DEF nested
  <1>3. ASSUME NEW i \in DOMAIN frames, i > 1, frames[i].target = nested
        PROVE  FirstSomewhere(x, k)
    BY <1>3 DEF WInv, WrittenInv, nested
  <1>4. ASSUME NEW l \in Keys, heap'[nested][l] # given.dicts[nested][l]
        PROVE  FirstSomewhere(x, k)
    <2>1. CASE heap'[nested][l] = heap[nested][l]
      BY <1>4, <2>1 DEF WInv, WrittenInv, nested
    <2>2. CASE heap'[nested][l] # heap[nested][l]
      <3>1. frames # <<>> /\ Top.target = nested
        BY <1>0, <1>2, <2>2, HeapStep
      <3>2. Len(frames) > 1
        BY <1>2, <3>1, TopFrame
      <3>3. Len(frames) \in DOMAIN frames /\ Top = frames[Len(frames)]
        BY <1>0, <3>1, TopTyped
      <3> QED
        BY <1>3, <3>1, <3>2, <3>3
    <2> QED
      BY <2>1, <2>2
  <1>5. ASSUME NEW i \in DOMAIN frames', i > 1, frames'[i].target = nested
        PROVE  FirstSomewhere(x, k)
    <2>1. CASE i \in DOMAIN frames /\ frames'[i].target = frames[i].target
      BY <1>3, <1>5, <2>1
    <2>2. ASSUME NEW n \in Top.todo, frames # <<>>, frames'[i].target = heap[Top.target][n]
          PROVE  FirstSomewhere(x, k)
      <3>1. Top.target \in Dicts /\ n \in Keys
        BY <1>0, <2>2, TopTyped
      <3>2. n = k /\ Top.target \in {x, Built, Copy}
        <4>1. heap[Top.target][n] = given.dicts[x][k] /\ given.dicts[x][k] \in Dicts
          BY <1>2, <1>5, <2>2 DEF nested
        <4> QED
          BY <1>2, <3>1, <4>1 DEF WInv, HomeInv
      <3>3. Top.target = Built
        BY <1>2, <2>2, <3>2, TopFrame, Distinct
      <3> QED
        BY <1>2, <1>5, <2>2, <3>2, <3>3 DEF WInv, BuiltFirstInv, nested
    <2> QED
      BY <1>0, <1>5, <2>1, <2>2, FramesStep
  <1> QED
    BY <1>4, <1>5 DEF nested

-----------------------------------------------------------------------------
(* Who refers to the dicts inside, and what writes to them. *)

LEMMA PlainInsidePreserved ==
    ASSUME IInv, PlainInsideInv, [Next]_vars
    PROVE  PlainInsideInv'
  <1>0. given' = given /\ given \in Inputs /\ TypeOK
    BY Kept
  <1> SUFFICES ASSUME NEW k \in PlainKeys, NEW d \in Dicts, heap'[d][k] \in Dicts
               PROVE  d \in {Extra, Built, Copy}
    BY <1>0 DEF PlainInsideInv, PlainKeys
  <1>1. k \in Keys /\ \A e \in Dicts : heap[e][k] \in Dicts => e \in {Extra, Built, Copy}
    BY DEF PlainInsideInv, PlainKeys
  <1>2. CASE Assign /\ frames # <<>> /\ d = Top.target /\ heap'[d][k] = heap[Top.source][k]
    <2>1. Top.source \in {Extra, Built, Copy}
      BY <1>0, <1>1, <1>2, TopTyped
    <2> QED
      BY <1>2, <2>1, TopFrame, Distinct DEF Roots
  <1>3. CASE Inject /\ heap'[d][k] = Existing[k]
    <2>1. heap[Extra][RuntimeKey] \in Dicts /\ heap'[d][k] = heap[heap[Extra][RuntimeKey]][k]
      BY <1>1, <1>3, Distinct DEF Existing, Empty
    <2>2. heap[Extra][RuntimeKey] \notin {Extra, Built, Copy}
      BY Distinct DEF IInv, RefInv, Roots
    <2> QED
      BY <1>1, <2>1, <2>2
  <1>4. heap'[d][k] # None
    BY Distinct
  <1> QED
    BY <1>0, <1>1, <1>2, <1>3, <1>4, HeapStep

LEMMA RuntimeRefPreserved ==
    ASSUME IInv, RuntimeRefInv, [Next]_vars
    PROVE  RuntimeRefInv'
  <1>1. given' = given
    BY Kept
  <1> SUFFICES ASSUME NEW d \in Dicts, NEW k \in Keys, heap'[d][k] = Runtime
               PROVE  given.cli
    BY <1>1 DEF RuntimeRefInv
  <1> QED
    BY SameKey, Distinct DEF RuntimeRefInv

\* Only the keys "context" and "runtime_context" lead to the trajectory's two
\* objects.
LEMMA LowRefs ==
    ASSUME IInv, WInv, RuntimeRefInv, NEW d \in Dicts, NEW k \in Keys,
           heap[d][k] \in Low, heap[d][k] \in Dicts
    PROVE  k \in Special /\ d \in {Extra, Built, Copy}
  <1>1. given \in Inputs /\ ContextKey \in Special /\ RuntimeKey \in Special /\ Special \subseteq Keys
    BY Distinct DEF IInv, Special
  <1>2. CASE heap[d][k] = TrajectoryContext \/ heap[d][k] = TrajectoryRuntime
    BY <1>1, <1>2 DEF WInv, HomeInv, TrajectoryContext, TrajectoryRuntime
  <1>3. CASE heap[d][k] = Runtime
    <2>1. ExtraGiven[RuntimeKey] = Runtime
      BY <1>1, <1>3, ExtraGivenItems DEF RuntimeRefInv
    <2> QED
      BY <1>1, <1>3, <2>1 DEF IInv, RefInv
  <1> QED
    BY <1>2, <1>3 DEF Low

\* While nothing has one of these keys of its own, no merge goes on under them.
LEMMA NoSpecialNested ==
    ASSUME IInv, Clean, phase = "merging", NEW k \in Special, k \in frames[1].todo, Nested(Built, Copy, k)
    PROVE  FALSE
  <1>0. TypeOK /\ given \in Inputs /\ k \in Keys /\ Started
    BY Distinct DEF IInv, TypeOK, Started
  <1>1. heap[Built][k] # None /\ heap[Copy][k] # None
    BY Distinct DEF Nested
  <1>2. at # 1
    BY <1>0, <1>1 DEF IInv, FreshInv
  <1>3. at \in 2..8
    BY <1>0, <1>2 DEF TypeOK
  <1>4. heap[Copy][k] = S[at][k]
    BY <1>0 DEF IInv, CopyInv
  <1> QED
    BY <1>0, <1>1, <1>3, <1>4, SourcesClean

LEMMA LowFramesPreserved ==
    ASSUME IInv, WInv, RuntimeRefInv, LowFramesInv, [Next]_vars
    PROVE  LowFramesInv'
  <1>0. given' = given /\ given \in Inputs /\ TypeOK
    BY Kept
  <1>1. Low' = Low
    BY <1>0 DEF Low, TrajectoryContext, TrajectoryRuntime
  <1> SUFFICES ASSUME Clean', NEW i \in DOMAIN frames', i > 1
               PROVE  frames'[i].target \notin Low /\ frames'[i].source \notin Low
    BY <1>1 DEF LowFramesInv
  <1>2. Clean
    BY CleanKept
  <1>3. ASSUME NEW k \in Top.todo, frames # <<>>, Nested(Top.target, Top.source, k),
               frames'[i].target = heap[Top.target][k], frames'[i].source = heap[Top.source][k]
        PROVE  frames'[i].target \notin Low /\ frames'[i].source \notin Low
    <2>1. k \in Keys /\ Top.target \in Dicts /\ Top.source \in Dicts
      BY <1>0, <1>3, TopTyped
    <2> SUFFICES ASSUME heap[Top.target][k] \in Low \/ heap[Top.source][k] \in Low PROVE FALSE
      BY <1>3
    <2>2. k \in Special /\ (Top.target \in {Extra, Built, Copy} \/ Top.source \in {Extra, Built, Copy})
      BY <1>3, <2>1, LowRefs DEF Nested
    <2>3. phase = "merging" /\ Top = frames[1] /\ Top.target = Built /\ Top.source = Copy
      BY <1>3, <2>2, TopFrame, Distinct DEF Roots
    <2> QED
      BY <1>2, <1>3, <2>2, <2>3, NoSpecialNested
  <1> QED
    BY <1>0, <1>2, <1>3, FramesStep DEF LowFramesInv

LEMMA HolderPreserved ==
    ASSUME IInv, LowFramesInv, HolderInv, [Next]_vars
    PROVE  HolderInv'
  <1>0. given' = given /\ given \in Inputs /\ TypeOK
    BY Kept
  <1>1. Holders' = Holders
    BY <1>0 DEF Holders, TrajectoryContext, TrajectoryRuntime, AllPayloads
  <1> SUFFICES ASSUME Clean', NEW x \in Holders, NEW n \in Keys, given.dicts[x][n] \in Dicts,
                      NEW d \in Dicts, NEW k \in Keys, heap'[d][k] = given.dicts[x][n]
               PROVE  k = n /\ d \in {x, Runtime, Built, Copy}
    BY <1>0, <1>1 DEF HolderInv
  <1>2. Clean
    BY CleanKept
  <1>3. \A e \in Dicts : heap[e][k] = heap'[d][k] => k = n /\ e \in {x, Runtime, Built, Copy}
    BY <1>2 DEF HolderInv
  <1>4. CASE Assign /\ frames # <<>> /\ d = Top.target /\ heap'[d][k] = heap[Top.source][k]
    <2>1. k = n /\ Top.source \in {x, Runtime, Built, Copy}
      BY <1>0, <1>3, <1>4, TopTyped
    <2>2. {x, Runtime, Built, Copy} \subseteq Roots \union Low
      BY DEF Roots, Low, Holders
    <2>3. Len(frames) \in DOMAIN frames /\ Top = frames[Len(frames)]
      BY <1>0, <1>4, TopTyped
    <2>4. ~(Len(frames) > 1)
      BY <1>2, <1>4, <2>1, <2>2, <2>3, TopFrame DEF LowFramesInv
    <2> QED
      BY <1>4, <2>1, <2>4, TopFrame
  <1>5. CASE Inject /\ d = Runtime /\ heap'[d][k] = Existing[k]
    <2>1. heap[Extra][RuntimeKey] \in Dicts /\ heap'[d][k] = heap[heap[Extra][RuntimeKey]][k]
      BY <1>5, Distinct DEF Existing, Empty
    <2> QED
      BY <1>3, <1>5, <2>1
  <1>6. heap'[d][k] # Runtime /\ heap'[d][k] # None
    BY <1>0, Trees, Distinct DEF Holders
  <1>7. CASE Begin /\ d = Copy /\ heap'[d][k] = heap[Source][k]
    BY <1>3, <1>7 DEF Begin
  <1> QED
    BY <1>0, <1>3, <1>4, <1>5, <1>6, <1>7, HeapStep

-----------------------------------------------------------------------------
(* The merges inside of that of a payload. *)

LEMMA Depths ==
    ASSUME TypeOK, frames # <<>>
    PROVE  /\ Len(frames) \in Nat
           /\ Len(frames) = 1 \/ Len(frames) = 2 \/ Len(frames) > 2
           /\ Len(frames) >= 2 <=> Len(frames) # 1
           /\ Len(frames) > 2 => Len(frames) # 2 /\ Len(frames) # 1
           /\ Len(frames) # 1 => 1 # Len(frames) /\ Len(frames) > 1
  <1>1. Len(frames) \in Nat \ {0}
    BY TopTyped
  <1>2. ASSUME NEW n \in Nat \ {0}
        PROVE  /\ n = 1 \/ n = 2 \/ n > 2
               /\ n >= 2 <=> n # 1
               /\ n > 2 => n # 2 /\ n # 1
               /\ n # 1 => 1 # n /\ n > 1
    OBVIOUS
  <1> QED
    BY <1>1, <1>2

\* While something is merged, only the merge goes on.
LEMMA MergeGoesOn ==
    ASSUME TypeOK, TypeOK', [Next]_vars, frames # <<>>, frames' # <<>>
    PROVE  Assign \/ Recurse \/ Leave \/ UNCHANGED vars
  <1>1. phase \in {"injecting", "merging"} /\ phase' \in {"injecting", "merging"}
    BY DEF TypeOK
  <1>2. ~(NoContext \/ Inject \/ Evaluate \/ EvaluateNothing \/ Begin \/ Skip \/ Return)
    BY <1>1 DEF NoContext, Inject, Evaluate, EvaluateNothing, Begin, Skip, Return
  <1>3. ~(CheckForbidden \/ CheckRule \/ NextCall)
    BY <1>1 DEF CheckForbidden, CheckRule, NextCall
  <1>4. ~(Injected \/ Raise \/ Merged)
    BY DEF Injected, Raise, Merged
  <1> QED
    BY <1>2, <1>3, <1>4 DEF Next

\* One step of the merge of a payload as a whole.
LEMMA OneStep ==
    ASSUME IInv, [Next]_vars, frames # <<>>, Len(frames) = 1, frames' # <<>>
    PROVE  \/ heap' = heap /\ Len(frames') = 1 /\ frames'[1].todo = frames[1].todo
           \/ /\ Len(frames') = 1
              /\ \E k \in frames[1].todo :
                    /\ ~Nested(frames[1].target, frames[1].source, k)
                    /\ heap' = [heap EXCEPT ![frames[1].target][k] = heap[frames[1].source][k]]
                    /\ frames'[1].todo = frames[1].todo \ {k}
           \/ /\ Len(frames') = 2 /\ heap' = heap
              /\ \E k \in frames[1].todo :
                    /\ Nested(frames[1].target, frames[1].source, k)
                    /\ frames'[1].todo = frames[1].todo \ {k}
                    /\ frames'[2].target = heap[frames[1].target][k]
                    /\ frames'[2].source = heap[frames[1].source][k]
                    /\ frames'[2].todo = Held(heap[frames[1].source][k])
  <1>0. given \in Inputs /\ TypeOK /\ TypeOK'
    BY Kept
  <1>1. 1 \in DOMAIN frames /\ Top = frames[1]
    BY <1>0, TopTyped
  <1>2. phase \in {"injecting", "merging"} /\ phase' \in {"injecting", "merging"}
    BY <1>0 DEF TypeOK
  <1>3. CASE Assign
    <2>1. PICK k \in Top.todo : /\ ~Nested(Top.target, Top.source, k)
                                /\ heap' = [heap EXCEPT ![Top.target][k] = heap[Top.source][k]]
                                /\ frames' = Taken(k)
      BY <1>3 DEF Assign, Written
    <2>2. Len(Taken(k)) = 1 /\ Taken(k)[1].todo = frames[1].todo \ {k}
      BY <1>0, <1>1, TakenAt, Depths
    <2> QED
      BY <1>1, <2>1, <2>2
  <1>4. CASE Recurse
    <2>0. heap' = heap
      BY <1>4 DEF Recurse
    <2>1. PICK k \in Top.todo : /\ Nested(Top.target, Top.source, k)
                                /\ frames' = Append(Taken(k), Recursion(Top.target, Top.source, k))
      BY <1>4 DEF Recurse
    <2>2. k \in Keys
      BY <1>0, <1>1, TopTyped
    <2>3. /\ Len(frames') = 2 /\ frames'[1] = Taken(k)[1]
          /\ frames'[2] = Recursion(Top.target, Top.source, k)
      BY <1>0, <1>1, <2>1, <2>2, RecursionTyped, PushedShape
    <2>4. Taken(k)[1].todo = frames[1].todo \ {k}
      BY <1>0, <1>1, TakenAt
    <2>5. /\ frames'[2].target = heap[Top.target][k] /\ frames'[2].source = heap[Top.source][k]
          /\ frames'[2].todo = Held(heap[Top.source][k])
      BY <1>0, <2>1, <2>2, <2>3, RecursionTyped
    <2> QED
      BY <1>1, <2>0, <2>1, <2>3, <2>4, <2>5
  <1>5. CASE UNCHANGED vars
    BY <1>5 DEF vars
  <1>6. ~Leave
    BY <1>0, Depths DEF Leave
  <1> QED
    BY <1>0, <1>3, <1>4, <1>5, <1>6, MergeGoesOn

\* One step of the merge inside of it, or of one inside of that.
LEMMA SecondStep ==
    ASSUME IInv, [Next]_vars, frames # <<>>, Len(frames) >= 2, frames' # <<>>
    PROVE  \/ /\ Len(frames') >= 2
              /\ frames'[2].target = frames[2].target /\ frames'[2].source = frames[2].source
              /\ frames'[2].todo = frames[2].todo
              /\ \/ heap' = heap
                 \/ Len(frames) > 2
           \/ /\ Len(frames') >= 2 /\ Len(frames) = 2
              /\ frames'[2].target = frames[2].target /\ frames'[2].source = frames[2].source
              /\ \E k \in frames[2].todo :
                    /\ frames'[2].todo = frames[2].todo \ {k} /\ heap[frames[2].source][k] # None
                    /\ \/ /\ ~Nested(frames[2].target, frames[2].source, k)
                          /\ heap' = [heap EXCEPT ![frames[2].target][k] = heap[frames[2].source][k]]
                       \/ /\ Nested(frames[2].target, frames[2].source, k)
                          /\ heap' = heap
           \/ Len(frames') = 1 /\ Len(frames) = 2 /\ frames[2].todo = {} /\ heap' = heap
  <1>0. given \in Inputs /\ TypeOK /\ TypeOK'
    BY Kept
  <1>1. Len(frames) \in Nat \ {0} /\ 2 \in DOMAIN frames /\ Top = frames[Len(frames)]
    BY <1>0, TopTyped
  <1>2. phase \in {"injecting", "merging"} /\ phase' \in {"injecting", "merging"}
    BY <1>0 DEF TypeOK
  <1>7. (Assign \/ Recurse) => \A k \in Top.todo : heap[Top.source][k] # None
    BY TopFrame DEF Assign, Recurse, Iterating, Held
  <1>3. CASE Assign
    <2>1. PICK k \in Top.todo : /\ ~Nested(Top.target, Top.source, k)
                                /\ heap' = [heap EXCEPT ![Top.target][k] = heap[Top.source][k]]
                                /\ frames' = Taken(k)
      BY <1>3 DEF Assign, Written
    <2>2. /\ Len(frames') = Len(frames)
          /\ frames'[2].target = frames[2].target /\ frames'[2].source = frames[2].source
          /\ frames'[2].todo = IF 2 = Len(frames) THEN frames[2].todo \ {k} ELSE frames[2].todo
      <3>1. /\ Taken(k)[2].target = frames[2].target /\ Taken(k)[2].source = frames[2].source
            /\ Taken(k)[2].todo = IF 2 = Len(frames) THEN frames[2].todo \ {k} ELSE frames[2].todo
            /\ Len(Taken(k)) = Len(frames)
        BY <1>0, <1>1, TakenAt
      <3> QED
        BY <2>1, <3>1
    <2>3. CASE Len(frames) = 2
      BY <1>1, <1>3, <1>7, <2>1, <2>2, <2>3
    <2>4. CASE Len(frames) > 2
      BY <1>1, <2>2, <2>4
    <2> QED
      BY <1>0, <1>1, <2>3, <2>4, Depths
  <1>4. CASE Recurse
    <2>0. heap' = heap
      BY <1>4 DEF Recurse
    <2>1. PICK k \in Top.todo : /\ Nested(Top.target, Top.source, k)
                                /\ frames' = Append(Taken(k), Recursion(Top.target, Top.source, k))
      BY <1>4 DEF Recurse
    <2>2. k \in Keys
      BY <1>0, <1>1, TopTyped
    <2>3. Len(frames') = Len(frames) + 1 /\ frames'[2] = Taken(k)[2]
      BY <1>0, <1>1, <2>1, <2>2, RecursionTyped, PushedShape
    <2>4. /\ Taken(k)[2].target = frames[2].target /\ Taken(k)[2].source = frames[2].source
          /\ Taken(k)[2].todo = IF 2 = Len(frames) THEN frames[2].todo \ {k} ELSE frames[2].todo
      BY <1>0, <1>1, TakenAt
    <2>5. /\ frames'[2].target = frames[2].target /\ frames'[2].source = frames[2].source
          /\ frames'[2].todo = IF 2 = Len(frames) THEN frames[2].todo \ {k} ELSE frames[2].todo
      BY <2>3, <2>4
    <2>6. CASE Len(frames) = 2
      BY <1>1, <1>4, <1>7, <2>0, <2>1, <2>3, <2>5, <2>6
    <2>7. CASE Len(frames) > 2
      BY <1>1, <2>0, <2>3, <2>5, <2>7
    <2> QED
      BY <1>0, <1>1, <2>6, <2>7, Depths
  <1>5. CASE Leave
    <2>1. heap' = heap /\ Top.todo = {} /\ frames' = SubSeq(frames, 1, Len(frames) - 1)
      BY <1>5 DEF Leave
    <2>2. /\ Len(frames') = Len(frames) - 1
          /\ \A i \in 1..(Len(frames) - 1) : frames'[i] = frames[i]
      BY <1>0, <2>1, PoppedShape
    <2>3. CASE Len(frames) = 2
      BY <1>1, <2>1, <2>2, <2>3
    <2>4. CASE Len(frames) > 2
      <3>1. 2 \in 1..(Len(frames) - 1)
        BY <1>1, <2>4
      <3> QED
        BY <1>1, <2>1, <2>2, <2>4, <3>1
    <2> QED
      BY <1>0, <1>1, <2>3, <2>4, Depths
  <1>6. CASE UNCHANGED vars
    BY <1>6 DEF vars
  <1> QED
    BY <1>0, <1>3, <1>4, <1>5, <1>6, MergeGoesOn

\* Meanwhile the merge of the payload stays where it is.
LEMMA SecondKeeps ==
    ASSUME IInv, [Next]_vars, frames # <<>>, Len(frames) >= 2, frames' # <<>>
    PROVE  /\ phase' = phase /\ call' = call /\ at' = at /\ verdicts' = verdicts
           /\ frames'[1].todo = frames[1].todo
           /\ \A d \in {Extra, Cli, Built, Copy}, k \in Keys : heap'[d][k] = heap[d][k]
  <1>0. given \in Inputs /\ TypeOK /\ TypeOK'
    BY Kept
  <1>1. Len(frames) \in Nat \ {0} /\ 1 \in DOMAIN frames /\ Top = frames[Len(frames)]
    BY <1>0, TopTyped
  <1>2. phase' = phase /\ call' = call /\ at' = at /\ verdicts' = verdicts
    BY BottomStep
  <1>3. frames'[1].todo = frames[1].todo
    <2>1. 1 \in DOMAIN frames'
      BY <1>0, TopTyped DEF TypeOK
    <2>2. CASE Assign
      <3>1. PICK k \in Top.todo : frames' = Taken(k)
        BY <2>2 DEF Assign
      <3>2. Taken(k)[1].todo = IF 1 = Len(frames) THEN frames[1].todo \ {k} ELSE frames[1].todo
        BY <1>0, <1>1, TakenAt
      <3> QED
        BY <1>0, <3>1, <3>2, Depths
    <2>3. CASE Recurse
      <3>1. PICK k \in Top.todo : /\ Nested(Top.target, Top.source, k)
                                  /\ frames' = Append(Taken(k), Recursion(Top.target, Top.source, k))
        BY <2>3 DEF Recurse
      <3>2. k \in Keys
        BY <1>0, TopTyped
      <3>3. frames'[1] = Taken(k)[1]
        BY <1>0, <1>1, <3>1, <3>2, RecursionTyped, PushedShape
      <3>4. Taken(k)[1].todo = frames[1].todo
        <4>1. Taken(k)[1].todo = IF 1 = Len(frames) THEN frames[1].todo \ {k} ELSE frames[1].todo
          BY <1>0, <1>1, TakenAt
        <4> QED
          BY <1>0, <4>1, Depths
      <3> QED
        BY <3>3, <3>4
    <2>4. CASE Leave
      <3>1. frames' = SubSeq(frames, 1, Len(frames) - 1) /\ 1 \in 1..(Len(frames) - 1)
        BY <1>1, <2>4 DEF Leave
      <3>2. frames'[1] = frames[1]
        BY <1>0, <3>1, PoppedShape
      <3> QED
        BY <3>2
    <2>5. CASE UNCHANGED vars
      BY <2>5 DEF vars
    <2>6. phase \in {"injecting", "merging"} /\ phase' \in {"injecting", "merging"}
      BY <1>0 DEF TypeOK
    <2> QED
      BY <2>2, <2>3, <2>4, <2>5, <2>6 DEF Next, NoContext, Inject, Injected, Raise, Evaluate,
          EvaluateNothing, Begin, Skip, Merged, Return, CheckForbidden, CheckRule, NextCall
  <1>4. ASSUME NEW d \in {Extra, Cli, Built, Copy}, NEW k \in Keys
        PROVE  heap'[d][k] = heap[d][k]
    <2>1. Top.target \notin {Extra, Cli, Built, Copy}
      BY <1>1, TopFrame DEF Roots
    <2>2. ~(Inject \/ Injected \/ Evaluate \/ NextCall \/ Begin)
      BY <1>0, <1>2 DEF Inject, Injected, Evaluate, NextCall, Begin, TypeOK
    <2> QED
      BY <1>0, <2>1, <2>2, HeapStep, Distinct
  <1> QED
    BY <1>2, <1>3, <1>4

LEMMA SecondPreserved ==
    ASSUME IInv, SecondInv, [Next]_vars
    PROVE  SecondInv'
  <1>0. /\ given' = given /\ given \in Inputs /\ TypeOK /\ TypeOK' /\ Recorded' = Recorded
        /\ (call' = call => S' = S)
    BY Kept
  <1> SUFFICES ASSUME Clean', Len(frames') >= 2
               PROVE  \E n \in Keys \ Special : SecondAt(n)'
    BY DEF SecondInv
  <1>1. Clean /\ frames' # <<>> /\ 2 \in DOMAIN frames'
    BY <1>0, CleanKept DEF TypeOK
  <1>2. frames # <<>>
    BY <1>0, <1>1, FramesStep
  <1>3. Len(frames) \in Nat \ {0} /\ phase \in {"injecting", "merging"}
    BY <1>0, <1>2, TopTyped DEF TypeOK
  <1>4. CASE Len(frames) >= 2
    <2>1. PICK n \in Keys \ Special : SecondAt(n)
      BY <1>1, <1>4 DEF SecondInv
    <2>2. /\ phase' = phase /\ call' = call /\ at' = at
          /\ frames'[1].todo = frames[1].todo /\ heap'[Built][n] = heap[Built][n]
      BY <1>1, <1>2, <1>4, SecondKeeps
    <2>3. frames'[2].target = frames[2].target /\ frames'[2].source = frames[2].source
      BY <1>1, <1>2, <1>4, SecondStep
    <2>4. SecondAt(n)'
      BY <1>0, <2>1, <2>2, <2>3 DEF SecondAt
    <2> QED
      BY <2>4
  <1>5. CASE Len(frames) = 1
    <2>1. phase' = phase /\ call' = call /\ at' = at
      BY <1>1, <1>2, BottomStep
    <2>2. PICK n \in frames[1].todo :
                /\ heap' = heap
                /\ Nested(frames[1].target, frames[1].source, n)
                /\ frames'[1].todo = frames[1].todo \ {n}
                /\ frames'[2].target = heap[frames[1].target][n]
                /\ frames'[2].source = heap[frames[1].source][n]
      BY <1>1, <1>2, <1>5, OneStep
    <2>3. n \in Keys
      BY <1>0, <1>2, TopTyped
    <2>4. frames'[2].source \in Dicts /\ frames'[2].target \in Dicts
      BY <2>2 DEF Nested
    <2>5. CASE phase = "injecting"
      <3>1. frames[1].target = Runtime /\ frames[1].source = Cli
        BY <1>0, <1>2, <2>5, TopTyped DEF IInv, FramesInv
      <3>2. heap[Cli][n] = given.dicts[Cli][n] /\ heap[Runtime][n] = Recorded[n] /\ given.cli
        BY <2>2, <2>3, <2>5 DEF IInv, RootsInv, InjectInv
      <3>3. n \notin Special
        <4>1. Cli \in Consulted(Reached)
          BY <3>2 DEF Consulted
        <4>2. \A k \in Special : given.dicts[Cli][k] = None
          BY <1>1, <4>1, Distinct DEF Clean, Undisturbed
        <4> QED
          BY <2>4, <2>2, <3>1, <3>2, <4>2, Distinct
      <3>4. SecondAt(n)'
        BY <1>0, <2>1, <2>2, <2>4, <2>5, <3>1, <3>2 DEF SecondAt
      <3> QED
        BY <2>3, <3>3, <3>4
    <2>6. CASE phase = "merging"
      <3>1. frames[1].target = Built /\ frames[1].source = Copy
        BY <1>0, <1>2, <2>6, TopTyped DEF IInv, FramesInv
      <3>2. n \notin Special
        BY <1>1, <2>2, <2>6, <3>1, NoSpecialNested
      <3>3. heap[Copy][n] = S[at][n]
        BY <1>1, <2>3, <2>6 DEF IInv, CopyInv
      <3>4. SecondAt(n)'
        BY <1>0, <2>1, <2>2, <2>4, <2>6, <3>1, <3>3 DEF SecondAt
      <3> QED
        BY <2>3, <3>2, <3>4
    <2> QED
      BY <1>3, <2>5, <2>6
  <1> QED
    BY <1>0, <1>3, <1>4, <1>5, Depths

LEMMA DeepPreserved ==
    ASSUME IInv, LowFramesInv, HolderInv, DeepInv, [Next]_vars
    PROVE  DeepInv'
  <1>0. given' = given /\ given \in Inputs /\ TypeOK
    BY Kept
  <1>1. Holders' = Holders
    BY <1>0 DEF Holders, TrajectoryContext, TrajectoryRuntime, AllPayloads
  <1> SUFFICES ASSUME Clean', NEW i \in DOMAIN frames', NEW x \in Holders, NEW n \in Keys \ Special,
                      i > 2, given.dicts[x][n] \in Dicts, frames'[i].target = given.dicts[x][n]
               PROVE  FALSE
    BY <1>0, <1>1 DEF DeepInv
  <1>2. Clean
    BY CleanKept
  <1>3. ASSUME NEW k \in Top.todo, frames # <<>>, i = Len(frames) + 1,
               frames'[i].target = heap[Top.target][k]
        PROVE  FALSE
    <2>1. /\ k \in Keys /\ Top.target \in Dicts /\ Len(frames) \in DOMAIN frames
          /\ Len(frames) \in Nat /\ Top = frames[Len(frames)]
      BY <1>0, <1>3, TopTyped
    <2>2. Top.target \in {x, Runtime, Built, Copy}
      BY <1>2, <1>3, <2>1 DEF HolderInv
    <2>3. {x, Runtime, Built, Copy} \subseteq Roots \union Low
      BY DEF Roots, Low, Holders
    <2>4. Len(frames) > 1
      BY <1>3, <2>1
    <2> QED
      BY <1>2, <1>3, <2>1, <2>2, <2>3, <2>4, TopFrame DEF LowFramesInv
  <1> QED
    BY <1>0, <1>2, <1>3, FramesStep DEF DeepInv

\* A dict under n is the target of such a merge only under n.
LEMMA SecondUnder ==
    ASSUME IInv, HolderInv, Clean, phase \in {"injecting", "merging"},
           NEW x \in Holders, NEW n \in Keys \ Special, given.dicts[x][n] \in Dicts,
           NEW m \in Keys \ Special, SecondAt(m), frames[2].target = given.dicts[x][n]
    PROVE  m = n
  <1>0. given \in Inputs /\ TypeOK /\ x \in Dicts
    BY DEF Holders, IInv
  <1>1. CASE phase = "merging"
    <2>1. heap[Built][m] = given.dicts[x][n]
      BY <1>1 DEF SecondAt
    <2> QED
      BY <2>1, Distinct DEF HolderInv
  <1>2. CASE phase = "injecting"
    <2>1. Recorded[m] = given.dicts[x][n]
      BY <1>2 DEF SecondAt
    <2>2. TrajectoryRuntime \in Dicts /\ given.dicts[TrajectoryRuntime][m] = given.dicts[x][n]
      BY <1>0, <2>1, GivenItems, Distinct DEF Recorded, TrajectoryRuntime
    <2> QED
      BY <1>0, <2>2, Trees
  <1> QED
    BY <1>1, <1>2

\* A dict a under n is written to only by the merge that goes on under n.
LEMMA LeafStep ==
    ASSUME IInv, HolderInv, SecondInv, DeepInv, [Next]_vars, Clean,
           NEW x \in Holders, NEW n \in Keys \ Special, given.dicts[x][n] \in Dicts,
           NEW l \in Keys, heap'[given.dicts[x][n]][l] # heap[given.dicts[x][n]][l]
    PROVE  /\ Assign /\ frames # <<>> /\ Len(frames) = 2 /\ SecondAt(n)
           /\ frames[2].target = given.dicts[x][n] /\ l \in frames[2].todo
           /\ heap'[given.dicts[x][n]][l] = heap[frames[2].source][l]
           /\ phase \in {"injecting", "merging"}
  <1>0. given \in Inputs /\ TypeOK /\ x \in Dicts
    BY Kept DEF Holders
  <1> DEFINE a == given.dicts[x][n]
  <1>1. a \in Dicts /\ a \notin Roots \union {Runtime}
    BY <1>0, Trees
  <1>2. a \notin {Extra, Runtime, Built, Copy}
    BY <1>1 DEF Roots
  <1> HIDE DEF a
  <1>3. /\ Assign /\ frames # <<>> /\ Top.target = a /\ l \in Top.todo
        /\ heap'[a][l] = heap[Top.source][l]
    BY <1>0, <1>1, <1>2, HeapStep DEF a
  <1>4. Len(frames) \in Nat \ {0} /\ Len(frames) \in DOMAIN frames /\ Top = frames[Len(frames)]
    BY <1>0, <1>3, TopTyped
  <1>5. Len(frames) = 2
    <2>1. Len(frames) # 1
      BY <1>2, <1>3, TopFrame
    <2>2. ~(Len(frames) > 2)
      BY <1>1, <1>3, <1>4 DEF DeepInv, a
    <2> QED
      BY <1>0, <1>3, <2>1, <2>2, Depths
  <1>6. frames[2].target = a /\ phase \in {"injecting", "merging"}
    BY <1>0, <1>3, <1>4, <1>5 DEF TypeOK
  <1>7. PICK m \in Keys \ Special : SecondAt(m)
    BY <1>5 DEF SecondInv
  <1>8. m = n
    BY <1>6, <1>7, SecondUnder DEF a
  <1> QED
    BY <1>3, <1>4, <1>5, <1>6, <1>7, <1>8 DEF a

-----------------------------------------------------------------------------
(* Which dict the context has. *)

\* The runtime context has a dict that the CLI gave, or that it had before.
LEMMA RuntimeHolder ==
    ASSUME given \in Inputs, NEW n \in Nesting
    PROVE  /\ RuntimeGiven[n] \in Dicts \union {None}
           /\ RuntimeGiven[n] \in Dicts =>
                \/ given.cli /\ RuntimeGiven[n] = given.dicts[Cli][n] /\ Recorded[n] = None
                \/ /\ RuntimeGiven[n] = Recorded[n] /\ TrajectoryRuntime \in Dicts
                   /\ RuntimeGiven[n] = given.dicts[TrajectoryRuntime][n]
           /\ Recorded[n] \in Dicts => RuntimeGiven[n] = Recorded[n]
           /\ given.cli /\ given.dicts[Cli][n] \in Dicts => RuntimeGiven[n] \in Dicts
           /\ Recorded[n] \in Dicts \union {None} /\ given.dicts[Cli][n] \in Dicts \union {None}
  <1>1. n \in Keys /\ \A d \in Dicts : given.dicts[d][n] \in Dicts \union {None}
    BY ItemTyped DEF Nesting, NestedKeys
  <1>2. Recorded[n] = IF TrajectoryRuntime \in Dicts THEN given.dicts[TrajectoryRuntime][n] ELSE None
    BY <1>1, GivenItems DEF Recorded, TrajectoryRuntime
  <1> QED
    BY <1>1, <1>2, RuntimeGivenItems, Distinct

LEMMA SourceHolder ==
    ASSUME given \in Inputs, call \in DOMAIN given.calls, NEW n \in Nesting, NEW i \in 1..8
    PROVE  /\ S[i][n] \in Dicts \union {None}
           /\ S[i][n] \in Dicts => \E x \in Holders : S[i][n] = given.dicts[x][n]
  <1>1. n \in Keys /\ \A d \in Dicts : given.dicts[d][n] \in Dicts \union {None}
    BY ItemTyped DEF Nesting, NestedKeys
  <1>2. \A x \in AllPayloads \union {None, Extra, TrajectoryContext} :
            /\ Given(x)[n] \in Dicts \union {None}
            /\ Given(x)[n] \in Dicts => x \in Holders /\ Given(x)[n] = given.dicts[x][n]
    BY <1>1, GivenItems, Distinct DEF Holders
  <1>3. RuntimeGiven[n] \in Dicts => \E x \in Holders : RuntimeGiven[n] = given.dicts[x][n]
    BY RuntimeHolder, Distinct DEF Holders
  <1>4. ExtraGiven[n] = Given(Extra)[n]
    BY <1>1, ExtraGivenItems, GivenItems, Distinct DEF Nesting, Special
  <1>5. i \in 4..7 => \E x \in AllPayloads \union {None} : S[i] = Given(x)
    BY SourceItems
  <1>6. S[1][n] = Given(Extra)[n] /\ S[2] = Given(TrajectoryContext) /\ S[3] = RuntimeGiven /\ S[8] = RuntimeGiven
    BY <1>4, SourceItems DEF TrajectoryContext
  <1>7. CASE i \in 4..7
    BY <1>2, <1>5, <1>7
  <1>8. CASE i \in {1, 2, 3, 8}
    BY <1>2, <1>3, <1>6, <1>8, RuntimeHolder
  <1> QED
    BY <1>7, <1>8

\* Only the runtime context is among the sources twice.
LEMMA SourceApart ==
    ASSUME given \in Inputs, call \in DOMAIN given.calls, NEW n \in Nesting,
           NEW i \in 1..8, NEW j \in 1..8, i < j, S[i][n] \in Dicts, S[j][n] = S[i][n]
    PROVE  i = 3 /\ j = 8
  <1>0. n \in Keys
    BY DEF Nesting, NestedKeys
  <1>1. \A x, y : Given(x)[n] \in Dicts /\ Given(y)[n] = Given(x)[n] => x = y /\ x \in Dicts
    BY <1>0, GivenItems, Trees, Distinct
  <1>2. \A x : Given(x)[n] \in Dicts /\ Given(x)[n] = RuntimeGiven[n] => x \in {Cli, TrajectoryRuntime} /\ x \in Dicts
    BY <1>0, GivenItems, RuntimeHolder, Trees, Distinct
  <1>3. ExtraGiven[n] = Given(Extra)[n]
    BY <1>0, ExtraGivenItems, GivenItems, Distinct DEF Nesting, Special
  <1>4. /\ S[1][n] = Given(Extra)[n] /\ S[2] = Given(TrajectoryContext) /\ S[3] = RuntimeGiven /\ S[8] = RuntimeGiven
        /\ S[4] = Given(Current.input) /\ S[5] = Given(Current.output)
        /\ S[6] = Given(Current.args) /\ S[7] = Given(Current.result)
    BY <1>3, SourceItems DEF TrajectoryContext
  <1>5. {Current.input, Current.output, Current.args, Current.result} \subseteq AllPayloads \union {None}
    BY SourceItems
  <1>6. /\ TrajectoryContext \notin Roots /\ TrajectoryRuntime \notin Roots
        /\ TrajectoryContext \in Dicts => TrajectoryContext # TrajectoryRuntime
    BY Trees, Distinct DEF TrajectoryContext, TrajectoryRuntime
  <1>7. AllPayloads \subseteq Roots /\ {Extra, Cli} \subseteq Roots /\ Extra \notin AllPayloads /\ Cli \notin AllPayloads
    BY PayloadsTyped, Distinct DEF Roots
  <1>8. /\ Current.input # None => Current.input \notin {Current.output, Current.args, Current.result}
        /\ Current.output # None => Current.output \notin {Current.args, Current.result}
        /\ Current.args # None => Current.args # Current.result
    BY PayloadsAssumption DEF Current
  <1>9. \A x \in AllPayloads \union {None, Extra, TrajectoryContext} :
            x \in Dicts => x \notin {Cli, TrajectoryRuntime}
    BY <1>6, <1>7, Distinct
  <1>10. CASE i \in {3, 8} \/ j \in {3, 8}
    <2>1. \A k \in 1..8 : k \notin {3, 8} => \E x \in AllPayloads \union {None, Extra, TrajectoryContext} : S[k][n] = Given(x)[n]
      BY <1>4, <1>5
    <2>2. \A k \in 1..8 : S[k][n] \in Dicts /\ S[k][n] = RuntimeGiven[n] => k \in {3, 8}
      BY <1>2, <1>9, <2>1
    <2> QED
      BY <1>4, <1>10, <2>2
  <1>11. CASE i \notin {3, 8} /\ j \notin {3, 8}
    <2>1. CASE i = 1
      BY <1>1, <1>4, <1>5, <1>6, <1>7, <1>11, <2>1, Distinct
    <2>2. CASE i = 2
      BY <1>1, <1>4, <1>5, <1>6, <1>7, <1>11, <2>2, Distinct
    <2>3. CASE i \in 4..7
      BY <1>1, <1>4, <1>8, <1>11, <2>3, Distinct
    <2> QED
      BY <1>11, <2>1, <2>2, <2>3
  <1> QED
    BY <1>10, <1>11

LEMMA FirstKept ==
    ASSUME NEW n, NEW m \in Nat, First(n, m), heap[Built][n] # None \/ S[m + 1][n] = None
    PROVE  First(n, m + 1)
  <1>1. CASE heap[Built][n] # None
    BY <1>1 DEF First
  <1>2. CASE heap[Built][n] = None
    BY <1>2 DEF First
  <1> QED
    BY <1>1, <1>2

\* What the context has is a source's, or nothing.
LEMMA FirstTyped ==
    ASSUME given \in Inputs, call \in DOMAIN given.calls, NEW n \in Nesting, NEW m \in 0..8, First(n, m)
    PROVE  /\ heap[Built][n] \in Dicts \union {None}
           /\ heap[Built][n] \in Dicts => \E x \in Holders : heap[Built][n] = given.dicts[x][n]
  BY SourceHolder, Distinct DEF First

LEMMA FirstPreserved ==
    ASSUME IInv, FirstInv, [Next]_vars
    PROVE  FirstInv'
  <1>0. given' = given /\ given \in Inputs /\ TypeOK /\ TypeOK' /\ (call' = call => S' = S)
    BY Kept
  <1> SUFFICES ASSUME Clean', Started', NEW n \in Nesting
               PROVE  First(n, Upto(n))'
    BY <1>0 DEF FirstInv, Nesting, NestedKeys
  <1>1. Clean /\ n \in Keys /\ at \in 1..9
    BY <1>0, CleanKept DEF Nesting, NestedKeys, TypeOK
  <1>2. Started => First(n, Upto(n))
    BY <1>1 DEF FirstInv
  <1>3. CASE (Evaluate \/ NextCall) /\ at' = 1 /\ phase' = "building" /\ heap'[Built][n] = None
    <2>1. Upto(n)' = 0
      BY <1>3 DEF Upto
    <2> QED
      BY <1>3, <2>1 DEF First
  <1>4. CASE /\ Begin /\ at' = at /\ call' = call /\ phase = "building" /\ phase' = "merging" /\ Started
             /\ heap'[Built][n] = heap[Built][n] /\ frames'[1].todo = Held(Source)
    <2>1. First(n, at - 1)
      BY <1>2, <1>4 DEF Upto
    <2>2. heap[Source][n] = S[at][n]
      BY <1>1, <1>4, BegunWith
    <2>3. CASE heap[Source][n] # None
      <3>1. Upto(n)' = at - 1
        BY <1>1, <1>4, <2>3 DEF Upto, Held
      <3> QED
        BY <1>0, <1>4, <2>1, <3>1 DEF First
    <2>4. CASE heap[Source][n] = None
      <3>1. Upto(n)' = at
        BY <1>1, <1>4, <2>4 DEF Upto, Held
      <3>2. at - 1 \in Nat /\ (at - 1) + 1 = at
        BY <1>1
      <3>3. First(n, at)
        BY <2>1, <2>2, <2>4, <3>2, FirstKept
      <3> QED
        BY <1>0, <1>4, <3>1, <3>3 DEF First
    <2> QED
      BY <2>3, <2>4
  <1>5. CASE Skip /\ at' = at + 1 /\ call' = call /\ heap' = heap /\ phase' # "merging" /\ Started
    <2>1. First(n, at - 1) /\ S[at][n] = None /\ Upto(n)' = at
      BY <1>1, <1>2, <1>5, SkippedEmpty DEF Upto, Skip
    <2>2. at - 1 \in Nat /\ (at - 1) + 1 = at
      BY <1>1
    <2>3. First(n, at)
      BY <2>1, <2>2, FirstKept
    <2> QED
      BY <1>0, <1>5, <2>1, <2>3 DEF First
  <1>6. CASE /\ Merged /\ at' = at + 1 /\ call' = call /\ heap' = heap /\ phase' # "merging" /\ Started
             /\ phase = "merging" /\ frames[1].todo = {}
    <2>1. First(n, at) /\ Upto(n)' = at
      BY <1>1, <1>2, <1>6 DEF Upto
    <2> QED
      BY <1>0, <1>6, <2>1 DEF First
  <1>7. CASE phase = "merging" /\ phase' = "merging" /\ at' = at /\ call' = call /\ Started
    <2>0. at \in 1..8 /\ call \in DOMAIN given.calls
      BY <1>0, <1>7 DEF TypeOK
    <2>1. CASE heap'[Built][n] = heap[Built][n] /\ (n \in frames'[1].todo <=> n \in frames[1].todo)
      <3>1. Upto(n)' = Upto(n)
        BY <1>7, <2>1 DEF Upto
      <3> QED
        BY <1>0, <1>2, <1>7, <2>1, <3>1 DEF First
    <2>2. CASE /\ n \in frames[1].todo /\ n \notin frames'[1].todo
               /\ heap[Copy][n] # None /\ ~Nested(Built, Copy, n) /\ heap'[Built][n] = heap[Copy][n]
      <3>1. heap[Copy][n] = S[at][n] /\ heap[Copy][n] \in Dicts
        BY <1>0, <1>1, <1>7, <2>0, <2>2, SourceHolder DEF IInv, CopyInv
      <3>2. First(n, at - 1) /\ at - 1 \in 0..8
        BY <1>2, <1>7, <2>0, <2>2 DEF Upto
      <3>3. heap[Built][n] \notin Dicts
        BY <2>2, <3>1 DEF Nested
      <3>4. heap[Built][n] = None
        BY <1>0, <2>0, <3>2, <3>3, FirstTyped
      <3>5. \A i \in 1..(at - 1) : S[i][n] = None
        BY <3>2, <3>4 DEF First
      <3>6. Upto(n)' = at
        BY <1>7, <2>2 DEF Upto
      <3> QED
        BY <1>0, <1>7, <2>0, <2>2, <3>1, <3>5, <3>6, Distinct DEF First
    <2>3. CASE /\ n \in frames[1].todo /\ n \notin frames'[1].todo
               /\ Nested(Built, Copy, n) /\ heap'[Built][n] = heap[Built][n]
      <3>1. First(n, at - 1) /\ at - 1 \in Nat /\ (at - 1) + 1 = at
        BY <1>2, <1>7, <2>0, <2>3 DEF Upto
      <3>2. First(n, at)
        BY <2>3, <3>1, FirstKept, Distinct DEF Nested
      <3>3. Upto(n)' = at
        BY <1>7, <2>3 DEF Upto
      <3> QED
        BY <1>0, <1>7, <2>3, <3>2, <3>3 DEF First
    <2> QED
      BY <1>1, <1>7, <2>1, <2>2, <2>3, BuiltStep
  <1>8. CASE phase # "merging" /\ phase' = phase /\ at' = at /\ call' = call /\ heap' = heap /\ Started
    <2>1. Upto(n)' = Upto(n)
      BY <1>8 DEF Upto
    <2> QED
      BY <1>0, <1>2, <1>8, <2>1 DEF First
  <1> QED
    BY <1>1, <1>3, <1>4, <1>5, <1>6, <1>7, <1>8, ContextStep

-----------------------------------------------------------------------------
(* The values inside. *)

\* A value stays, or is replaced by that of what is merged under n.
LEMMA InnerStep ==
    ASSUME IInv, PlainInsideInv, HolderInv, SecondInv, DeepInv, [Next]_vars, Clean,
           frames # <<>>, Len(frames) >= 2, frames' # <<>>,
           NEW x \in Holders, NEW n \in Nesting, given.dicts[x][n] \in Dicts, NEW l \in PlainKeys
    PROVE  LET a == given.dicts[x][n] IN
           \/ heap'[a][l] = heap[a][l] /\ (Pending(a, l)' <=> Pending(a, l))
           \/ /\ Pending(a, l) /\ ~Pending(a, l)' /\ SecondAt(n)
              /\ heap'[a][l] = heap[frames[2].source][l] /\ heap[frames[2].source][l] # None
  <1> DEFINE a == given.dicts[x][n]
  <1>0. /\ given' = given /\ given \in Inputs /\ TypeOK /\ x \in Dicts /\ l \in Keys /\ n \in Keys \ Special
        /\ phase \in {"injecting", "merging"}
    BY Kept DEF Holders, PlainKeys, Nesting, NestedKeys, TypeOK
  <1>1. a \in Dicts /\ a \notin {Extra, Runtime, Built, Copy} /\ a' = a
    BY <1>0, Trees DEF Roots
  <1>2. heap'[a][l] # heap[a][l] => Len(frames) = 2 /\ frames[2].target = a /\ l \in frames[2].todo
    BY <1>0, <1>1, LeafStep
  <1>3. heap[a][l] \notin Dicts
    BY <1>1 DEF PlainInsideInv
  <1> HIDE DEF a
  <1>4. CASE /\ Len(frames') >= 2
             /\ frames'[2].target = frames[2].target
             /\ frames'[2].todo = frames[2].todo
             /\ heap' = heap \/ Len(frames) > 2
    <2>1. heap'[a][l] = heap[a][l]
      BY <1>0, <1>2, <1>4, Depths
    <2>2. Pending(a, l)' <=> Pending(a, l)
      BY <1>1, <1>4 DEF Pending
    <2> QED
      BY <2>1, <2>2 DEF a
  <1>5. ASSUME NEW k \in frames[2].todo,
               Len(frames') >= 2, frames'[2].target = frames[2].target,
               frames'[2].todo = frames[2].todo \ {k}, heap[frames[2].source][k] # None,
               \/ /\ ~Nested(frames[2].target, frames[2].source, k)
                  /\ heap' = [heap EXCEPT ![frames[2].target][k] = heap[frames[2].source][k]]
               \/ /\ Nested(frames[2].target, frames[2].source, k)
                  /\ heap' = heap
        PROVE  \/ heap'[a][l] = heap[a][l] /\ (Pending(a, l)' <=> Pending(a, l))
               \/ /\ Pending(a, l) /\ ~Pending(a, l)' /\ SecondAt(n)
                  /\ heap'[a][l] = heap[frames[2].source][l] /\ heap[frames[2].source][l] # None
    <2>1. CASE frames[2].target # a
      <3>1. heap'[a][l] = heap[a][l]
        BY <1>2, <2>1
      <3>2. ~Pending(a, l) /\ ~Pending(a, l)'
        BY <1>1, <1>5, <2>1 DEF Pending
      <3> QED
        BY <3>1, <3>2
    <2>2. CASE frames[2].target = a /\ l # k
      <3>1. heap'[a][l] = heap[a][l]
        BY <1>0, <1>1, <1>5, <2>2 DEF TypeOK, Objects
      <3>2. Pending(a, l)' <=> Pending(a, l)
        BY <1>1, <1>5, <2>2 DEF Pending
      <3> QED
        BY <3>1, <3>2
    <2>3. CASE frames[2].target = a /\ l = k
      <3>1. ~Nested(frames[2].target, frames[2].source, k)
        BY <1>3, <2>3 DEF Nested
      <3>2. heap'[a][l] = heap[frames[2].source][l]
        BY <1>0, <1>1, <1>5, <2>3, <3>1 DEF TypeOK, Objects
      <3>3. Pending(a, l) /\ ~Pending(a, l)'
        BY <1>1, <1>5, <2>3 DEF Pending
      <3>4. PICK m \in Keys \ Special : SecondAt(m)
        BY DEF SecondInv
      <3>5. m = n
        BY <1>0, <1>1, <2>3, <3>4, SecondUnder DEF a
      <3> QED
        BY <1>5, <2>3, <3>2, <3>3, <3>4, <3>5
    <2> QED
      BY <2>1, <2>2, <2>3
  <1>6. CASE Len(frames') = 1 /\ frames[2].todo = {} /\ heap' = heap
    <2>1. ~Pending(a, l) /\ ~Pending(a, l)'
      BY <1>1, <1>6 DEF Pending
    <2> QED
      BY <1>6, <2>1 DEF a
  <1> QED
    BY <1>4, <1>5, <1>6, SecondStep DEF a

\* What --context adds to a dict of the trajectory's runtime context.
LEMMA LeafGivenIs ==
    ASSUME given \in Inputs, NEW x \in Holders, NEW n \in Nesting, given.dicts[x][n] \in Dicts, NEW l \in PlainKeys
    PROVE  LET a == given.dicts[x][n]
               c == given.dicts[Cli][n] IN
           LeafGiven(a, n, l) =
              IF given.cli /\ c \in Dicts /\ Recorded[n] = a /\ given.dicts[c][l] # None
              THEN given.dicts[c][l] ELSE given.dicts[a][l]
  <1> DEFINE a == given.dicts[x][n]
             c == given.dicts[Cli][n]
  <1>1. /\ c \in Dicts \union {None} /\ Recorded[n] \in Dicts \union {None}
        /\ RuntimeGiven[n] \in Dicts \union {None}
        /\ Recorded[n] \in Dicts => RuntimeGiven[n] = Recorded[n]
        /\ Recorded[n] \notin Dicts /\ RuntimeGiven[n] \in Dicts => given.cli /\ RuntimeGiven[n] = c
    BY RuntimeHolder
  <1>2. RuntimeLeaf(n, l) =
            IF given.cli /\ c \in Dicts /\ given.dicts[c][l] # None THEN given.dicts[c][l]
            ELSE IF Recorded[n] \in Dicts THEN given.dicts[Recorded[n]][l] ELSE None
    BY DEF RuntimeLeaf, Leaf
  <1>3. a \in Dicts
    OBVIOUS
  <1> HIDE DEF a, c
  <1>4. CASE Recorded[n] \in Dicts
    BY <1>1, <1>2, <1>3, <1>4 DEF LeafGiven, a, c
  <1>5. CASE Recorded[n] \notin Dicts
    BY <1>1, <1>2, <1>3, <1>5, Distinct DEF LeafGiven, a, c
  <1> QED
    BY <1>4, <1>5

LEMMA LeafGivenKept ==
    ASSUME IInv, [Next]_vars
    PROVE  /\ Holders' = Holders /\ Nesting' = Nesting /\ PlainKeys' = PlainKeys
           /\ \A a, n, l : LeafGiven(a, n, l)' = LeafGiven(a, n, l) /\ RuntimeLeaf(n, l)' = RuntimeLeaf(n, l)
           /\ \A n : TrajectoryHas(n)' <=> TrajectoryHas(n)
  <1>1. given' = given /\ Recorded' = Recorded /\ RuntimeGiven' = RuntimeGiven
    BY Kept
  <1> QED
    BY <1>1 DEF Holders, Nesting, PlainKeys, NestedKeys, LeafGiven, RuntimeLeaf, Leaf, TrajectoryHas, Given,
        TrajectoryContext, TrajectoryRuntime, AllPayloads

LEMMA InjectLeafPreserved ==
    ASSUME IInv, PlainInsideInv, HolderInv, SecondInv, DeepInv, InjectLeafInv, [Next]_vars
    PROVE  InjectLeafInv'
  <1>0. given' = given /\ given \in Inputs /\ TypeOK /\ TypeOK'
    BY Kept
  <1> SUFFICES ASSUME phase' = "injecting", Clean', NEW x \in Holders, NEW n \in Nesting, NEW l \in PlainKeys,
                      given.dicts[x][n] \in Dicts
               PROVE  heap'[given.dicts[x][n]][l] =
                          IF n \in frames'[1].todo \/ Pending(given.dicts[x][n], l)'
                          THEN given.dicts[given.dicts[x][n]][l] ELSE LeafGiven(given.dicts[x][n], n, l)
    BY <1>0, LeafGivenKept DEF InjectLeafInv
  <1> DEFINE a == given.dicts[x][n]
             c == given.dicts[Cli][n]
  <1>1. Clean /\ l \in Keys /\ n \in Keys \ Special /\ x \in Dicts
    BY CleanKept DEF PlainKeys, Nesting, NestedKeys, Holders
  <1>2. a \in Dicts /\ a \notin {Extra, Runtime, Built, Copy} /\ a' = a
    BY <1>0, <1>1, Trees DEF Roots
  <1>3. c \in Dicts \union {None} /\ Recorded[n] \in Dicts \union {None}
    BY <1>0, RuntimeHolder
  <1>4. LeafGiven(a, n, l) =
            IF given.cli /\ c \in Dicts /\ Recorded[n] = a /\ given.dicts[c][l] # None
            THEN given.dicts[c][l] ELSE given.dicts[a][l]
    BY <1>0, LeafGivenIs
  <1>5. Recorded[n] = a => Recorded[n] # c
    <2> SUFFICES ASSUME Recorded[n] = a, a = c PROVE FALSE
      OBVIOUS
    <2>1. TrajectoryRuntime \in Dicts /\ given.dicts[TrajectoryRuntime][n] = c
      BY <1>0, <1>1, <1>2, GivenItems, Distinct DEF Recorded, TrajectoryRuntime
    <2>2. TrajectoryRuntime = Cli
      BY <1>0, <1>1, <1>2, <2>1, Trees, Distinct
    <2> QED
      BY <1>0, <2>2, Trees, Distinct DEF Roots, TrajectoryRuntime
  <1>6. CASE Inject
    <2>1. heap[a][l] = given.dicts[a][l]
      BY <1>6 DEF Inject, IInv, RootsInv
    <2>2. heap'[a][l] = heap[a][l]
      BY <1>0, <1>1, <1>2, <1>6, Distinct DEF Inject, TypeOK
    <2>3. frames'[1].todo = Held(Cli) /\ Len(frames') = 1
      BY <1>6, FrameTyped, Distinct DEF Inject, Held
    <2>4. ~Pending(a, l)'
      BY <2>3 DEF Pending
    <2>5. n \notin frames'[1].todo => c \notin Dicts
      BY <1>1, <1>6, <2>3, Distinct DEF Held, Inject, IInv, RootsInv
    <2> QED
      BY <1>4, <2>1, <2>2, <2>4, <2>5
  <1>7. CASE phase = "injecting"
    <2>0. frames # <<>> /\ frames' # <<>>
      BY <1>0, <1>7 DEF TypeOK
    <2>1. heap[a][l] = IF n \in frames[1].todo \/ Pending(a, l) THEN given.dicts[a][l] ELSE LeafGiven(a, n, l)
      BY <1>1, <1>7 DEF InjectLeafInv
    <2>2. frames[1].target = Runtime /\ frames[1].source = Cli
      BY <1>0, <1>7, <2>0, TopTyped DEF IInv, FramesInv
    <2>3. /\ \A k \in Keys : heap[Cli][k] = given.dicts[Cli][k]
          /\ \A k \in frames[1].todo : k \in Keys => heap[Runtime][k] = Recorded[k]
          /\ frames[1].todo \subseteq Keys /\ given.cli
      BY <1>0, <1>7, <2>0, TopTyped DEF IInv, RootsInv, InjectInv
    <2>4. c \in Dicts => heap[c][l] = IF n \in frames[1].todo \/ Pending(c, l) THEN given.dicts[c][l]
                                      ELSE LeafGiven(c, n, l)
      <3>1. given.cli => Cli \in Holders
        BY Distinct DEF Holders
      <3> QED
        BY <1>1, <1>7, <2>3, <3>1 DEF InjectLeafInv
    <2> HIDE DEF a, c
    <2>5. CASE Len(frames) = 1
      <3>0. ~Pending(a, l) /\ ~Pending(c, l)
        BY <2>5 DEF Pending
      <3>1. CASE heap' = heap /\ Len(frames') = 1 /\ frames'[1].todo = frames[1].todo
        <4>1. ~Pending(a, l)'
          BY <3>1 DEF Pending
        <4> QED
          BY <2>1, <3>0, <3>1, <4>1 DEF a
      <3>2. ASSUME NEW k \in frames[1].todo, Len(frames') = 1,
                   ~Nested(frames[1].target, frames[1].source, k),
                   heap' = [heap EXCEPT ![frames[1].target][k] = heap[frames[1].source][k]],
                   frames'[1].todo = frames[1].todo \ {k}
            PROVE  heap'[a][l] = IF n \in frames'[1].todo \/ Pending(a, l)'
                                 THEN given.dicts[a][l] ELSE LeafGiven(a, n, l)
        <4>1. ~Pending(a, l)'
          BY <3>2 DEF Pending
        <4>2. heap'[a][l] = heap[a][l]
          BY <1>0, <1>1, <1>2, <2>2, <3>2 DEF TypeOK
        <4>3. n = k => ~(c \in Dicts /\ Recorded[n] \in Dicts)
          BY <1>1, <2>2, <2>3, <3>2 DEF Nested, c
        <4>4. n = k => LeafGiven(a, n, l) = given.dicts[a][l]
          BY <1>2, <1>4, <4>3
        <4> QED
          BY <2>1, <3>0, <3>2, <4>1, <4>2, <4>4
      <3>3. ASSUME NEW k \in frames[1].todo, Len(frames') = 2, heap' = heap,
                   Nested(frames[1].target, frames[1].source, k),
                   frames'[1].todo = frames[1].todo \ {k},
                   frames'[2].target = heap[frames[1].target][k],
                   frames'[2].todo = Held(heap[frames[1].source][k])
            PROVE  heap'[a][l] = IF n \in frames'[1].todo \/ Pending(a, l)'
                                 THEN given.dicts[a][l] ELSE LeafGiven(a, n, l)
        <4>0. k \in Keys /\ frames'[2].target = Recorded[k] /\ Recorded[k] \in Dicts
          BY <2>2, <2>3, <3>3 DEF Nested
        <4>1. CASE n # k
          <5>1. Recorded[k] # a
            <6> SUFFICES ASSUME Recorded[k] = a PROVE FALSE
              OBVIOUS
            <6>1. TrajectoryRuntime \in Dicts /\ given.dicts[TrajectoryRuntime][k] = a
              BY <1>0, <4>0, GivenItems, Distinct DEF Recorded, TrajectoryRuntime
            <6> QED
              BY <1>0, <1>1, <1>2, <4>0, <4>1, <6>1, Trees DEF a
          <5>2. ~Pending(a, l)'
            BY <1>2, <4>0, <5>1 DEF Pending
          <5> QED
            BY <2>1, <3>0, <3>3, <4>1, <5>2
        <4>2. CASE n = k
          <5>1. heap'[a][l] = given.dicts[a][l]
            BY <2>1, <3>3, <4>2
          <5>2. c \in Dicts /\ heap[frames[1].source][k] = c
            BY <1>1, <2>2, <2>3, <3>3, <4>2 DEF Nested, c
          <5>3. CASE Recorded[n] = a /\ l \in Held(c)
            <6>1. Pending(a, l)'
              BY <1>2, <3>3, <4>0, <4>2, <5>2, <5>3 DEF Pending
            <6> QED
              BY <5>1, <6>1
          <5>4. CASE Recorded[n] # a
            BY <1>4, <5>1, <5>4
          <5>5. CASE l \notin Held(c)
            <6>1. given.dicts[c][l] = None
              BY <1>1, <2>4, <3>3, <4>2, <5>2, <5>5 DEF Held
            <6> QED
              BY <1>4, <5>1, <6>1
          <5> QED
            BY <5>3, <5>4, <5>5
        <4> QED
          BY <4>1, <4>2
      <3> QED
        BY <2>0, <2>5, <3>1, <3>2, <3>3, OneStep DEF a
    <2>6. CASE Len(frames) >= 2
      <3>1. frames'[1].todo = frames[1].todo
        BY <2>0, <2>6, SecondKeeps
      <3>2. CASE heap'[a][l] = heap[a][l] /\ (Pending(a, l)' <=> Pending(a, l))
        BY <2>1, <3>1, <3>2 DEF a
      <3>3. CASE /\ Pending(a, l) /\ ~Pending(a, l)' /\ SecondAt(n)
                 /\ heap'[a][l] = heap[frames[2].source][l] /\ heap[frames[2].source][l] # None
        <4>1. frames[2].source = c /\ c \in Dicts /\ frames[2].target = a /\ Recorded[n] = a /\ n \notin frames[1].todo
          BY <1>7, <3>3 DEF SecondAt, Pending, c
        <4>2. ~Pending(c, l)
          BY <1>5, <4>1 DEF Pending
        <4>3. heap[c][l] = LeafGiven(c, n, l)
          BY <2>4, <4>1, <4>2
        <4>4. LeafGiven(c, n, l) = given.dicts[c][l]
          <5>1. Cli \in Holders
            BY Distinct DEF Holders
          <5> QED
            BY <1>0, <1>5, <4>1, <5>1, LeafGivenIs DEF c
        <4> QED
          BY <1>4, <2>3, <3>1, <3>3, <4>1, <4>3, <4>4 DEF a
      <3> QED
        BY <1>1, <2>0, <2>6, <3>2, <3>3, InnerStep DEF a
    <2> QED
      BY <1>0, <2>0, <2>5, <2>6, Depths
  <1>8. Inject \/ phase = "injecting"
    BY DEF Next, NoContext, Inject, Injected, Assign, Recurse, Leave, Raise, Evaluate, EvaluateNothing,
        Begin, Skip, Onward, Merged, Return, CheckForbidden, CheckRule, NextCall, vars
  <1> QED
    BY <1>6, <1>7, <1>8

LEMMA TrajectoryFirst ==
    ASSUME given \in Inputs, call \in DOMAIN given.calls, NEW n \in Nesting
    PROVE  TrajectoryHas(n) <=> S[1][n] \in Dicts \/ S[2][n] \in Dicts
  <1>1. n \in Keys /\ n # RuntimeKey
    BY DEF Nesting, NestedKeys, Special
  <1> QED
    BY <1>1, SourceItems, ExtraGivenItems DEF TrajectoryHas

\* Where the trajectory has the dict, the context does not have the runtime
\* context's.
LEMMA RuntimeNotFirst ==
    ASSUME given \in Inputs, call \in DOMAIN given.calls, NEW n \in Nesting, NEW m \in 0..8, First(n, m),
           TrajectoryHas(n), RuntimeGiven[n] \in Dicts
    PROVE  heap[Built][n] # RuntimeGiven[n]
  <1> SUFFICES ASSUME heap[Built][n] = RuntimeGiven[n] PROVE FALSE
    OBVIOUS
  <1>1. PICK i \in 1..m : heap[Built][n] = S[i][n] /\ \A j \in 1..(i - 1) : S[j][n] = None
    BY Distinct DEF First
  <1>2. i \in 1..8 /\ S[3][n] = S[i][n] /\ S[i][n] \in Dicts
    <2>1. S[3] = RuntimeGiven /\ i \in 1..8
      BY SourceItems
    <2> QED
      BY <1>1, <2>1
  <1>3. i >= 3
    BY <1>2, SourceApart
  <1> QED
    BY <1>1, <1>2, <1>3, TrajectoryFirst, Distinct

\* When --context has been attached, a dict holds what LeafGiven says.
LEMMA AttachedLeaf ==
    ASSUME IInv, InjectLeafInv, [Next]_vars, ~Attached, Attached', Clean,
           NEW x \in Holders, NEW n \in Nesting, NEW l \in PlainKeys, given.dicts[x][n] \in Dicts
    PROVE  heap'[given.dicts[x][n]][l] = LeafGiven(given.dicts[x][n], n, l)
  <1> DEFINE a == given.dicts[x][n]
  <1>0. given \in Inputs /\ TypeOK /\ l \in Keys /\ n \in Keys /\ x \in Dicts
    BY Kept DEF PlainKeys, Nesting, NestedKeys, Holders
  <1>1. a \in Dicts /\ a # Extra
    BY <1>0, Trees DEF Roots
  <1>2. NoContext \/ Injected
    BY DEF Attached, Next, NoContext, Inject, Injected, Assign, Recurse, Leave, Raise, Evaluate, EvaluateNothing,
        Begin, Skip, Onward, Merged, Return, CheckForbidden, CheckRule, NextCall, vars
  <1>3. CASE NoContext
    <2>1. heap'[a][l] = given.dicts[a][l] /\ ~given.cli
      BY <1>3 DEF NoContext, IInv, RootsInv
    <2> QED
      BY <1>0, <2>1, LeafGivenIs
  <1>4. CASE Injected
    <2>1. phase = "injecting" /\ Len(frames) = 1 /\ Top = frames[1] /\ Top.todo = {}
      BY <1>4 DEF Injected, Top
    <2>2. ~Pending(a, l)
      BY <2>1 DEF Pending
    <2>3. heap[a][l] = LeafGiven(a, n, l)
      BY <2>1, <2>2 DEF InjectLeafInv
    <2>4. heap'[a][l] = heap[a][l]
      BY <1>0, <1>1, <1>4, Distinct DEF Injected, TypeOK
    <2> QED
      BY <2>3, <2>4
  <1> QED
    BY <1>2, <1>3, <1>4

LEMMA RuntimeKeptPreserved ==
    ASSUME IInv, HolderInv, SecondInv, DeepInv, FirstInv, InjectLeafInv, RuntimeKeptInv, [Next]_vars
    PROVE  RuntimeKeptInv'
  <1>0. given' = given /\ given \in Inputs /\ TypeOK /\ RuntimeGiven' = RuntimeGiven
    BY Kept
  <1> SUFFICES ASSUME Clean', Attached', NEW n \in Nesting, NEW l \in PlainKeys,
                      TrajectoryHas(n), RuntimeGiven[n] \in Dicts
               PROVE  heap'[RuntimeGiven[n]][l] = RuntimeLeaf(n, l)
    <2>1. /\ Nesting' = Nesting /\ PlainKeys' = PlainKeys
          /\ \A n, l : RuntimeLeaf(n, l)' = RuntimeLeaf(n, l)
          /\ \A n : TrajectoryHas(n)' <=> TrajectoryHas(n)
      BY LeafGivenKept
    <2> QED
      BY <1>0, <2>1 DEF RuntimeKeptInv
  <1>1. Clean /\ l \in Keys /\ n \in Keys \ Special
    BY CleanKept DEF PlainKeys, Nesting, NestedKeys
  <1>2. PICK x \in Holders : RuntimeGiven[n] = given.dicts[x][n]
    BY <1>0, RuntimeHolder, Distinct DEF Holders
  <1>3. CASE ~Attached
    <2>1. heap'[RuntimeGiven[n]][l] = LeafGiven(RuntimeGiven[n], n, l)
      BY <1>1, <1>2, <1>3, AttachedLeaf
    <2> QED
      BY <2>1 DEF LeafGiven
  <1>4. CASE Attached
    <2>1. heap[RuntimeGiven[n]][l] = RuntimeLeaf(n, l)
      BY <1>1, <1>4 DEF RuntimeKeptInv
    <2>2. SUFFICES ASSUME heap'[RuntimeGiven[n]][l] # heap[RuntimeGiven[n]][l] PROVE FALSE
      BY <2>1
    <2>3. SecondAt(n) /\ frames[2].target = RuntimeGiven[n] /\ phase \in {"injecting", "merging"}
      BY <1>1, <1>2, <2>2, LeafStep
    <2>4. phase = "merging" /\ call \in DOMAIN given.calls /\ Started /\ at \in 1..8
      BY <1>0, <1>4, <2>3 DEF Attached, TypeOK, Started
    <2>5. heap[Built][n] = RuntimeGiven[n] /\ Upto(n) = at
      BY <2>3, <2>4 DEF SecondAt, Upto
    <2>6. First(n, at)
      BY <1>1, <2>4, <2>5 DEF FirstInv
    <2> QED
      BY <1>0, <2>4, <2>5, <2>6, RuntimeNotFirst
  <1> QED
    BY <1>3, <1>4

\* The first context is the first until the next call.
LEMMA InFirstKept ==
    ASSUME IInv, [Next]_vars, InFirst'
    PROVE  InFirst /\ ~NextCall /\ ~Return /\ ~EvaluateNothing
  <1>0. TypeOK /\ call' = 1 /\ verdicts' = <<>>
    BY Kept DEF InFirst
  <1>1. ~(Return \/ EvaluateNothing)
    BY <1>0, VerdictAdded
  <1>2. ~NextCall
    BY <1>0 DEF NextCall, TypeOK
  <1>3. CASE Evaluate
    BY <1>0, <1>1, <1>2, <1>3 DEF InFirst, Evaluate, IInv, RootsInv
  <1>4. CASE ~Evaluate
    BY <1>0, <1>1, <1>2, <1>4 DEF InFirst, Next, NoContext, Inject, Injected, Assign, Recurse, Leave, Raise,
        Begin, Skip, Onward, Merged, CheckForbidden, CheckRule, vars
  <1> QED
    BY <1>1, <1>2, <1>3, <1>4

LEMMA FirstHeapPreserved ==
    ASSUME IInv, WInv, HolderInv, SecondInv, DeepInv, InjectLeafInv, FirstHeapInv, [Next]_vars
    PROVE  FirstHeapInv'
  <1>0. given' = given /\ given \in Inputs /\ TypeOK
    BY Kept
  <1>1. InFirst' => InFirst /\ ~NextCall /\ ~Return /\ ~EvaluateNothing
    BY InFirstKept
  <1>2. ASSUME InFirst', phase' \in {"loaded", "injecting", "ready"}, NEW k \in Keys
        PROVE  heap'[Built][k] = None
    <2>1. phase \in {"loaded", "injecting", "ready"}
      BY <1>1, <1>2 DEF Next, NoContext, Inject, Injected, Assign, Recurse, Leave, Raise, Evaluate,
          Begin, Skip, Onward, Merged, CheckForbidden, CheckRule, vars
    <2>2. heap[Built][k] = None
      BY <1>1, <1>2, <2>1 DEF FirstHeapInv
    <2>3. frames # <<>> => Top.target # Built
      BY <2>1, TopFrame, Distinct DEF Roots
    <2> QED
      BY <1>0, <2>2, <2>3, HeapStep, Distinct
  <1>3. ASSUME InFirst', Attached', Clean', NEW x \in Holders, NEW n \in Nesting, NEW l \in PlainKeys,
               given.dicts[x][n] \in Dicts, given.dicts[x][n] # heap'[Built][n]
        PROVE  heap'[given.dicts[x][n]][l] = LeafGiven(given.dicts[x][n], n, l)
    <2> DEFINE a == given.dicts[x][n]
    <2>1. Clean /\ l \in Keys /\ n \in Keys \ Special /\ n \in NestedKeys
      BY <1>3, CleanKept DEF PlainKeys, Nesting, NestedKeys
    <2>2. CASE ~Attached
      BY <1>3, <2>1, <2>2, AttachedLeaf
    <2>3. CASE Attached
      <3>1. heap[Built][n] # a
        <4> SUFFICES ASSUME heap[Built][n] = a PROVE FALSE
          OBVIOUS
        <4>1. heap'[Built][n] # heap[Built][n]
          BY <1>3
        <4>2. CASE Assign /\ frames # <<>> /\ Built = Top.target /\ n \in Top.todo
                   /\ ~Nested(Top.target, Top.source, n) /\ heap'[Built][n] = heap[Top.source][n]
          <5>1. Top.source \in Dicts
            BY <1>0, <4>2, TopTyped
          <5>2. heap[Top.source][n] # None
            BY <2>1, <4>2, TopFrame DEF Assign, Iterating, Held
          <5>3. heap[Top.source][n] \in Dicts
            BY <1>0, <2>1, <5>1, <5>2, HeapTyped DEF WInv, NestedStays
          <5> QED
            BY <1>3, <4>2, <5>3 DEF Nested
        <4>3. CASE Evaluate
          BY <1>1, <1>3, <2>1, <4>3, Distinct DEF Evaluate, FirstHeapInv
        <4> QED
          BY <1>0, <1>1, <1>3, <2>1, <4>1, <4>2, <4>3, HeapStep, Distinct
      <3>2. heap[a][l] = LeafGiven(a, n, l)
        BY <1>1, <1>3, <2>1, <2>3, <3>1 DEF FirstHeapInv
      <3>3. SUFFICES ASSUME heap'[a][l] # heap[a][l] PROVE FALSE
        BY <3>2
      <3>4. SecondAt(n) /\ frames[2].target = a /\ phase \in {"injecting", "merging"}
        BY <1>3, <2>1, <3>3, LeafStep
      <3> QED
        BY <2>3, <3>1, <3>4 DEF SecondAt, Attached
    <2> QED
      BY <2>2, <2>3
  <1>4. /\ Holders' = Holders /\ Nesting' = Nesting /\ PlainKeys' = PlainKeys
        /\ \A a, n, l : LeafGiven(a, n, l)' = LeafGiven(a, n, l)
    BY LeafGivenKept
  <1> QED
    BY <1>0, <1>2, <1>3, <1>4 DEF FirstHeapInv

\* The dict the context has, while contexts are built.
LEMMA BuiltLeaf ==
    ASSUME IInv, FirstInv, Clean, Started, NEW n \in Nesting
    PROVE  /\ First(n, Upto(n)) /\ Upto(n) \in 0..8
           /\ heap[Built][n] \in Dicts \union {None}
           /\ heap[Built][n] \in Dicts =>
                /\ \E x \in Holders : heap[Built][n] = given.dicts[x][n]
                /\ heap[Built][n] \notin {Built, Copy}
  <1>0. given \in Inputs /\ TypeOK /\ call \in DOMAIN given.calls /\ n \in Keys
    BY DEF IInv, Started, Nesting, NestedKeys
  <1>1. First(n, Upto(n))
    BY DEF FirstInv
  <1>2. Upto(n) \in 0..8
    BY <1>0 DEF Upto, TypeOK
  <1>3. \A x \in Holders : given.dicts[x][n] \notin {Built, Copy}
    BY <1>0, Trees DEF Roots, Holders
  <1> QED
    BY <1>0, <1>1, <1>2, <1>3, FirstTyped

\* What has been merged last is what is seen next.
LEMMA CliLeafPreserved ==
    ASSUME IInv, WInv, PlainInsideInv, HolderInv, SecondInv, DeepInv, FirstInv, RuntimeKeptInv, CliLeafInv, [Next]_vars
    PROVE  CliLeafInv'
  <1>0. given' = given /\ given \in Inputs /\ TypeOK /\ TypeOK' /\ RuntimeGiven' = RuntimeGiven
    BY Kept
  <1> SUFFICES ASSUME Clean', Started', NEW n \in Nesting, NEW l \in PlainKeys,
                      TrajectoryHas(n), UptoLeaf(n, l)' = 8, RuntimeGiven[n] \in Dicts, RuntimeLeaf(n, l) # None
               PROVE  Seen(n, l)' = RuntimeLeaf(n, l)
    <2>1. /\ Nesting' = Nesting /\ PlainKeys' = PlainKeys
          /\ \A n, l : RuntimeLeaf(n, l)' = RuntimeLeaf(n, l)
          /\ \A n : TrajectoryHas(n)' <=> TrajectoryHas(n)
      BY LeafGivenKept
    <2> QED
      BY <1>0, <2>1 DEF CliLeafInv
  <1> DEFINE b == heap[Built][n]
             r == RuntimeGiven[n]
  <1>1. Clean /\ l \in Keys /\ n \in Keys \ Special /\ at \in 1..9
    BY <1>0, CleanKept DEF PlainKeys, Nesting, NestedKeys, TypeOK
  <1>2. Started /\ UptoLeaf(n, l) = 8 => Seen(n, l) = RuntimeLeaf(n, l)
    BY <1>1 DEF CliLeafInv
  <1>3. Started => heap[r][l] = RuntimeLeaf(n, l)
    BY <1>1 DEF RuntimeKeptInv, Started, Attached
  <1>4. Started => S[8][n] = r /\ r # None
    BY <1>0, SourceItems, Distinct DEF Started
  <1>5. phase' = "merging" => at' = 8
    <2>1. phase' = "merging" => at' \in 1..8
      BY <1>0 DEF TypeOK
    <2> QED
      BY <2>1 DEF UptoLeaf
  <1>6. CASE (Evaluate \/ NextCall) /\ at' = 1 /\ phase' = "building"
    BY <1>6 DEF UptoLeaf
  <1>7. CASE /\ Begin /\ at' = at /\ call' = call /\ phase = "building" /\ phase' = "merging" /\ Started
             /\ frames'[1].todo = Held(Source)
    <2>1. heap[Source][n] = r
      BY <1>1, <1>4, <1>5, <1>7, BegunWith
    <2>2. UptoLeaf(n, l)' = 7
      BY <1>1, <1>4, <1>5, <1>7, <2>1 DEF UptoLeaf, Held
    <2> QED
      BY <2>2
  <1>8. CASE Skip /\ at' = at + 1 /\ call' = call /\ heap' = heap /\ phase' # "merging" /\ Started
    <2>1. at = 8
      BY <1>1, <1>8 DEF UptoLeaf
    <2> QED
      BY <1>1, <1>4, <1>8, <2>1, SkippedEmpty
  <1>9. CASE /\ Merged /\ at' = at + 1 /\ call' = call /\ heap' = heap /\ phase' # "merging" /\ Started
             /\ phase = "merging" /\ frames[1].todo = {}
    <2>1. Len(frames) = 1 /\ at = 8
      BY <1>1, <1>9 DEF Merged, UptoLeaf
    <2>2. UptoLeaf(n, l) = 8
      BY <1>9, <2>1 DEF UptoLeaf, Pending
    <2> QED
      BY <1>2, <1>9, <2>2 DEF Seen
  <1>10. CASE phase # "merging" /\ phase' = phase /\ at' = at /\ call' = call /\ heap' = heap /\ Started
    <2>1. UptoLeaf(n, l) = 8
      BY <1>10 DEF UptoLeaf
    <2> QED
      BY <1>2, <1>10, <2>1 DEF Seen
  <1>11. CASE phase = "merging" /\ phase' = "merging" /\ at' = at /\ call' = call /\ Started
    <2>0. frames # <<>> /\ frames' # <<>> /\ at = 8
      BY <1>0, <1>5, <1>11 DEF TypeOK
    <2>1. n \notin frames'[1].todo /\ ~Pending(b, l)'
      BY <1>11, <2>0 DEF UptoLeaf
    <2>2. /\ frames[1].target = Built /\ frames[1].source = Copy /\ heap[Copy][n] = r
          /\ frames[1].todo \subseteq Keys
      BY <1>0, <1>1, <1>4, <1>11, <2>0, TopTyped DEF IInv, FramesInv, CopyInv
    <2>3. First(n, Upto(n)) /\ b \in Dicts \union {None} /\ b # Built
      BY <1>1, <1>11, BuiltLeaf, Distinct
    <2>4. b \in Dicts
      <3>1. 1 \in 1..Upto(n) /\ 2 \in 1..Upto(n)
        BY <2>0 DEF Upto
      <3>2. S[1][n] \in Dicts \/ S[2][n] \in Dicts
        BY <1>0, <1>11, TrajectoryFirst DEF Started
      <3> QED
        BY <2>3, <3>1, <3>2, Distinct DEF First
    <2>5. PICK x \in Holders : b = given.dicts[x][n]
      BY <1>1, <1>11, <2>4, BuiltLeaf
    <2>6. Seen(n, l) = heap[b][l]
      BY <2>4 DEF Seen
    <2>7. CASE Len(frames) = 1
      <3>1. ~Pending(b, l)
        BY <2>7 DEF Pending
      <3>2. n \notin frames[1].todo => Seen(n, l) = RuntimeLeaf(n, l)
        BY <1>2, <1>11, <2>0, <3>1 DEF UptoLeaf
      <3>3. CASE heap' = heap /\ frames'[1].todo = frames[1].todo
        BY <2>1, <3>2, <3>3 DEF Seen
      <3>4. ASSUME NEW k \in frames[1].todo,
                   ~Nested(frames[1].target, frames[1].source, k),
                   heap' = [heap EXCEPT ![frames[1].target][k] = heap[frames[1].source][k]],
                   frames'[1].todo = frames[1].todo \ {k}
            PROVE  Seen(n, l)' = RuntimeLeaf(n, l)
        <4>1. k # n
          BY <2>2, <2>4, <3>4 DEF Nested
        <4>2. heap'[Built][n] = b /\ heap'[b][l] = heap[b][l]
          BY <1>0, <1>1, <2>2, <2>3, <2>4, <3>4, <4>1, Distinct DEF TypeOK, Objects
        <4> QED
          BY <2>1, <2>4, <2>6, <3>2, <3>4, <4>1, <4>2 DEF Seen
      <3>5. ASSUME NEW k \in frames[1].todo, Len(frames') = 2, heap' = heap,
                   frames'[1].todo = frames[1].todo \ {k},
                   frames'[2].target = heap[frames[1].target][k],
                   frames'[2].todo = Held(heap[frames[1].source][k])
            PROVE  Seen(n, l)' = RuntimeLeaf(n, l)
        <4>1. CASE k # n
          BY <2>1, <3>2, <3>5, <4>1 DEF Seen
        <4>2. CASE k = n
          <5>1. l \notin Held(r)
            BY <2>1, <2>2, <3>5, <4>2 DEF Pending
          <5> QED
            BY <1>1, <1>3, <1>11, <5>1 DEF Held
        <4> QED
          BY <4>1, <4>2
      <3> QED
        BY <2>0, <2>7, <3>3, <3>4, <3>5, OneStep
    <2>8. CASE Len(frames) >= 2
      <3>1. frames'[1].todo = frames[1].todo /\ heap'[Built][n] = b
        BY <1>1, <2>0, <2>8, SecondKeeps
      <3>2. Seen(n, l)' = heap'[b][l]
        BY <2>4, <3>1 DEF Seen
      <3>3. ~Pending(b, l) => heap[b][l] = RuntimeLeaf(n, l)
        BY <1>2, <1>11, <2>0, <2>1, <2>6, <3>1 DEF UptoLeaf
      <3>4. CASE heap'[b][l] = heap[b][l] /\ (Pending(b, l)' <=> Pending(b, l))
        BY <2>1, <3>2, <3>3, <3>4
      <3>5. CASE Pending(b, l) /\ SecondAt(n) /\ heap'[b][l] = heap[frames[2].source][l]
        BY <1>3, <1>4, <1>11, <2>0, <3>2, <3>5 DEF SecondAt
      <3>6. Pending(b, l)' <=> Pending(given.dicts[x][n], l)'
        BY <1>0, <2>5, <3>1 DEF Pending
      <3>7. LET a == given.dicts[x][n] IN
            \/ heap'[a][l] = heap[a][l] /\ (Pending(a, l)' <=> Pending(a, l))
            \/ /\ Pending(a, l) /\ SecondAt(n)
               /\ heap'[a][l] = heap[frames[2].source][l]
        BY <1>1, <2>0, <2>4, <2>5, <2>8, InnerStep
      <3> QED
        BY <2>5, <3>4, <3>5, <3>6, <3>7
    <2> QED
      BY <1>0, <2>0, <2>7, <2>8, Depths
  <1> QED
    BY <1>6, <1>7, <1>8, <1>9, <1>10, <1>11, ContextStep

LEMMA LatestLeafKept ==
    ASSUME NEW n, NEW l, NEW m \in Nat, LatestLeaf(n, l, m), Adds(m + 1, n, l) = None
    PROVE  LatestLeaf(n, l, m + 1)
  <1>1. CASE Seen(n, l) = None
    BY <1>1 DEF LatestLeaf
  <1>2. CASE Seen(n, l) # None
    <2>1. PICK i \in 1..m : /\ Seen(n, l) = Adds(i, n, l)
                            /\ \A j \in (i + 1)..m : Adds(j, n, l) = None
      BY <1>2 DEF LatestLeaf
    <2>2. \A j \in (i + 1)..(m + 1) : Adds(j, n, l) = None
      BY <2>1
    <2> QED
      BY <1>2, <2>1, <2>2 DEF LatestLeaf
  <1> QED
    BY <1>1, <1>2

LEMMA AddsKept ==
    ASSUME IInv, [Next]_vars, call' = call
    PROVE  \A i, n, l : Adds(i, n, l)' = Adds(i, n, l)
  <1>1. S' = S
    BY Kept
  <1> QED
    BY <1>1, LeafGivenKept DEF Adds

\* What a merge of the current source under n is about.
LEMMA SourceAdds ==
    ASSUME IInv, FirstInv, FirstHeapInv, Clean, Started, InFirst, phase = "merging",
           NEW n \in Nesting, NEW l \in PlainKeys, S[at][n] \in Dicts,
           NEW m \in {at - 1, at}, First(n, m), heap[Built][n] \in Dicts
    PROVE  \/ /\ S[at][n] # heap[Built][n]
              /\ heap[S[at][n]][l] = Adds(at, n, l)
           \/ S[at][n] = heap[Built][n] /\ Adds(at, n, l) = None
           \/ /\ S[at][n] = heap[Built][n]
              /\ \A j \in 1..(at - 1) : Adds(j, n, l) = None
  <1>0. /\ given \in Inputs /\ TypeOK /\ call \in DOMAIN given.calls /\ at \in 1..8
        /\ S[3] = RuntimeGiven /\ S[8] = RuntimeGiven
    BY SourceItems DEF IInv, TypeOK, Started
  <1>1. PICK i \in 1..m : heap[Built][n] = S[i][n] /\ \A j \in 1..(i - 1) : S[j][n] = None
    BY Distinct DEF First
  <1>2. i \in 1..8 /\ i <= at
    BY <1>0, <1>1
  <1>3. \A j \in 1..8 : S[j][n] \in Dicts \union {None}
    BY <1>0, SourceHolder
  <1>4. CASE S[at][n] # heap[Built][n]
    <2>1. PICK x \in Holders : S[at][n] = given.dicts[x][n]
      BY <1>0, SourceHolder
    <2>2. heap[S[at][n]][l] = LeafGiven(S[at][n], n, l)
      BY <1>4, <2>1 DEF FirstHeapInv, Attached, Started
    <2>3. at = 8 => TrajectoryHas(n)
      <3> SUFFICES ASSUME at = 8, ~TrajectoryHas(n) PROVE FALSE
        OBVIOUS
      <3>1. S[1][n] = None /\ S[2][n] = None /\ S[3][n] = S[at][n]
        BY <1>0, <1>3, TrajectoryFirst
      <3>2. i # 1 /\ i # 2 /\ ~(i > 3)
        BY <1>1, <1>2, <3>1, Distinct
      <3> QED
        BY <1>1, <1>2, <1>4, <3>1, <3>2
    <2> QED
      BY <1>4, <2>2, <2>3 DEF Adds
  <1>5. CASE S[at][n] = heap[Built][n] /\ i < at
    <2>1. i = 3 /\ at = 8
      BY <1>0, <1>1, <1>2, <1>5, SourceApart
    <2>2. S[1][n] = None /\ S[2][n] = None
      BY <1>1, <2>1
    <2> QED
      BY <1>0, <1>5, <2>1, <2>2, TrajectoryFirst, Distinct DEF Adds
  <1>6. CASE S[at][n] = heap[Built][n] /\ i = at
    BY <1>1, <1>6, Distinct DEF Adds
  <1> QED
    BY <1>0, <1>2, <1>4, <1>5, <1>6

\* While the source is merged: its value for l has been taken, or not yet.
LEMMA FirstLeafMerging ==
    ASSUME IInv, PlainInsideInv, HolderInv, SecondInv, DeepInv, FirstInv, FirstHeapInv, FirstLeafInv,
           [Next]_vars, Clean, Started, InFirst, NEW n \in Nesting, NEW l \in PlainKeys,
           phase = "merging", phase' = "merging", at' = at, call' = call
    PROVE  LatestLeaf(n, l, UptoLeaf(n, l))'
  <1> DEFINE b == heap[Built][n]
             c == S[at][n]
  <1>0. /\ given' = given /\ given \in Inputs /\ TypeOK /\ TypeOK' /\ S' = S
        /\ frames # <<>> /\ frames' # <<>> /\ call \in DOMAIN given.calls
    BY Kept DEF TypeOK, Started
  <1>1. l \in Keys /\ n \in Keys \ Special /\ at \in 1..8 /\ at - 1 \in Nat /\ (at - 1) + 1 = at
    BY <1>0 DEF PlainKeys, Nesting, NestedKeys, TypeOK
  <1>2. LatestLeaf(n, l, UptoLeaf(n, l))
    BY DEF FirstLeafInv
  <1>3. \A i : Adds(i, n, l)' = Adds(i, n, l)
    BY AddsKept
  <1>4. /\ frames[1].target = Built /\ frames[1].source = Copy /\ heap[Copy][n] = S[at][n]
        /\ frames[1].todo \subseteq Keys
    BY <1>0, <1>1, TopTyped DEF IInv, FramesInv, CopyInv
  <1>5. First(n, Upto(n)) /\ b \in Dicts \union {None} /\ b \notin {Built, Copy}
    BY BuiltLeaf, Distinct
  <1>6. c \in Dicts \union {None} /\ (c \in Dicts => \E x \in Holders : c = given.dicts[x][n])
    BY <1>0, <1>1, SourceHolder
  \* Nothing changes, as far as the value goes.
  <1>7. ASSUME Seen(n, l)' = Seen(n, l), UptoLeaf(n, l)' = UptoLeaf(n, l)
        PROVE  LatestLeaf(n, l, UptoLeaf(n, l))'
    BY <1>2, <1>3, <1>7 DEF LatestLeaf
  \* The source adds nothing.
  <1>8. ASSUME Seen(n, l)' = Seen(n, l), UptoLeaf(n, l) = at - 1, UptoLeaf(n, l)' = at, Adds(at, n, l) = None
        PROVE  LatestLeaf(n, l, UptoLeaf(n, l))'
    <2>1. LatestLeaf(n, l, at)
      BY <1>1, <1>2, <1>8, LatestLeafKept
    <2> QED
      BY <1>3, <1>8, <2>1 DEF LatestLeaf
  \* The source's value is the only one there is.
  <1>9. ASSUME Seen(n, l)' = Adds(at, n, l), UptoLeaf(n, l)' = at,
               \A j \in 1..(at - 1) : Adds(j, n, l) = None
        PROVE  LatestLeaf(n, l, UptoLeaf(n, l))'
    <2>1. CASE Adds(at, n, l) = None
      <3>1. \A j \in 1..at : Adds(j, n, l) = None
        BY <1>1, <1>9, <2>1
      <3> QED
        BY <1>3, <1>9, <2>1, <3>1 DEF LatestLeaf
    <2>2. CASE Adds(at, n, l) # None
      <3>1. at \in 1..at /\ \A j \in (at + 1)..at : Adds(j, n, l) = None
        BY <1>1
      <3> QED
        BY <1>3, <1>9, <2>2, <3>1 DEF LatestLeaf
    <2> QED
      BY <2>1, <2>2
  \* It replaces what there was.
  <1>10. ASSUME Seen(n, l)' = Adds(at, n, l), Adds(at, n, l) # None, UptoLeaf(n, l)' = at
         PROVE  LatestLeaf(n, l, UptoLeaf(n, l))'
    <2>1. at \in 1..at /\ \A j \in (at + 1)..at : Adds(j, n, l) = None
      BY <1>1
    <2> QED
      BY <1>3, <1>10, <2>1 DEF LatestLeaf
  <1>11. CASE Len(frames) = 1
    <2>1. ~Pending(b, l)
      BY <1>11 DEF Pending
    <2>2. UptoLeaf(n, l) = IF n \in frames[1].todo THEN at - 1 ELSE at
      BY <2>1 DEF UptoLeaf
    <2>3. CASE heap' = heap /\ Len(frames') = 1 /\ frames'[1].todo = frames[1].todo
      <3>1. UptoLeaf(n, l)' = UptoLeaf(n, l)
        BY <2>2, <2>3 DEF UptoLeaf, Pending
      <3> QED
        BY <1>7, <2>3, <3>1 DEF Seen
    <2>4. ASSUME NEW k \in frames[1].todo, Len(frames') = 1,
                 ~Nested(frames[1].target, frames[1].source, k),
                 heap' = [heap EXCEPT ![frames[1].target][k] = heap[frames[1].source][k]],
                 frames'[1].todo = frames[1].todo \ {k}
          PROVE  LatestLeaf(n, l, UptoLeaf(n, l))'
      <3>1. UptoLeaf(n, l)' = IF n \in frames[1].todo \ {k} THEN at - 1 ELSE at
        BY <2>4 DEF UptoLeaf, Pending
      <3>2. CASE k # n
        <4>1. heap'[Built][n] = b /\ (b \in Dicts => heap'[b][l] = heap[b][l])
          BY <1>0, <1>1, <1>4, <1>5, <2>4, <3>2, Distinct DEF TypeOK, Objects
        <4> QED
          BY <1>7, <2>2, <3>1, <3>2, <4>1 DEF Seen
      <3>3. CASE k = n
        <4>1. c \in Dicts /\ b \notin Dicts
          <5>1. heap[Copy][n] # None
            <6>1. frames[1].todo \subseteq frames[1].keys
              BY <1>0, TopTyped DEF IInv, FramesInv
            <6> QED
              BY <2>4, <3>3, <6>1 DEF IInv, CopyInv
          <5> QED
            BY <1>4, <1>6, <2>4, <3>3, <5>1 DEF Nested
        <4>2. b = None /\ First(n, at - 1)
          BY <1>5, <2>4, <3>3, <4>1 DEF Upto
        <4>3. \A j \in 1..(at - 1) : S[j][n] = None
          BY <4>2 DEF First
        <4>4. \A j \in 1..(at - 1) : Adds(j, n, l) = None
          BY <4>3, Distinct DEF Adds
        <4>5. heap[c][l] = LeafGiven(c, n, l)
          BY <1>6, <4>1, <4>2, Distinct DEF FirstHeapInv, Attached, Started
        <4>6. at # 8
          <5> SUFFICES ASSUME at = 8 PROVE FALSE
            OBVIOUS
          <5>1. S[3][n] = c /\ S[3][n] = None
            BY <1>0, <4>3, SourceItems
          <5> QED
            BY <4>1, <5>1, Distinct
        <4>7. Adds(at, n, l) = heap[c][l]
          BY <4>1, <4>5, <4>6 DEF Adds
        <4>8. c # Built
          BY <1>0, <1>1, <1>6, <4>1, Trees DEF Roots, Holders
        <4>9. heap'[Built][n] = c /\ heap'[c][l] = heap[c][l]
          BY <1>0, <1>1, <1>4, <2>4, <3>3, <4>1, <4>8, Distinct DEF TypeOK, Objects
        <4>10. Seen(n, l)' = Adds(at, n, l)
          BY <4>1, <4>7, <4>9 DEF Seen
        <4> QED
          BY <1>9, <3>1, <3>3, <4>4, <4>10
      <3> QED
        BY <3>2, <3>3
    <2>5. ASSUME NEW k \in frames[1].todo, Len(frames') = 2, heap' = heap,
                 Nested(frames[1].target, frames[1].source, k),
                 frames'[1].todo = frames[1].todo \ {k},
                 frames'[2].target = heap[frames[1].target][k],
                 frames'[2].todo = Held(heap[frames[1].source][k])
          PROVE  LatestLeaf(n, l, UptoLeaf(n, l))'
      <3>1. Seen(n, l)' = Seen(n, l) /\ k \in Keys
        BY <1>4, <2>5 DEF Seen
      <3>2. CASE k # n
        <4>1. heap[Built][k] # b
          <5> SUFFICES ASSUME heap[Built][k] = b PROVE FALSE
            OBVIOUS
          <5>1. b \in Dicts
            BY <1>4, <2>5 DEF Nested
          <5>2. PICK x \in Holders : b = given.dicts[x][n]
            BY <5>1, BuiltLeaf
          <5> QED
            BY <1>1, <3>1, <3>2, <5>1, <5>2, Distinct DEF HolderInv
        <4>2. UptoLeaf(n, l)' = UptoLeaf(n, l)
          BY <1>4, <2>2, <2>5, <3>2, <4>1 DEF UptoLeaf, Pending
        <4> QED
          BY <1>7, <3>1, <4>2
      <3>3. CASE k = n /\ l \in Held(c)
        <4>1. UptoLeaf(n, l)' = at - 1 /\ UptoLeaf(n, l) = at - 1
          BY <1>4, <2>2, <2>5, <3>3 DEF UptoLeaf, Pending
        <4> QED
          BY <1>7, <3>1, <4>1
      <3>4. CASE k = n /\ l \notin Held(c)
        <4>1. UptoLeaf(n, l)' = at /\ UptoLeaf(n, l) = at - 1
          BY <1>4, <2>2, <2>5, <3>4 DEF UptoLeaf, Pending
        <4>2. heap[c][l] = None /\ c \in Dicts /\ b \in Dicts
          BY <1>1, <1>4, <2>5, <3>4 DEF Held, Nested
        <4>3. First(n, at - 1)
          BY <1>5, <2>5, <3>4 DEF Upto
        <4>4. \/ heap[c][l] = Adds(at, n, l)
              \/ Adds(at, n, l) = None
              \/ c = b /\ \A j \in 1..(at - 1) : Adds(j, n, l) = None
          BY <4>2, <4>3, SourceAdds
        <4>5. CASE Adds(at, n, l) = None
          BY <1>8, <3>1, <4>1, <4>5
        <4>6. CASE c = b
          <5>1. PICK i \in 1..(at - 1) : b = S[i][n] /\ \A j \in 1..(i - 1) : S[j][n] = None
            BY <4>2, <4>3, Distinct DEF First
          <5>2. i = 3 /\ at = 8
            <6>1. i \in 1..8 /\ i < at /\ S[at][n] = S[i][n] /\ S[i][n] \in Dicts
              BY <1>1, <4>2, <4>6, <5>1
            <6> QED
              BY <1>0, <1>1, <6>1, SourceApart
          <5>3. S[1][n] = None /\ S[2][n] = None
            BY <5>1, <5>2
          <5>4. Adds(at, n, l) = None
            BY <1>0, <5>2, <5>3, TrajectoryFirst, Distinct DEF Adds
          <5> QED
            BY <4>5, <5>4
        <4> QED
          BY <4>2, <4>4, <4>5, <4>6
      <3> QED
        BY <3>2, <3>3, <3>4
    <2> QED
      BY <1>0, <1>11, <2>3, <2>4, <2>5, OneStep
  <1>12. CASE Len(frames) >= 2
    <2>1. frames'[1].todo = frames[1].todo /\ heap'[Built][n] = b
      BY <1>0, <1>1, <1>12, SecondKeeps, Distinct
    <2>2. CASE b \notin Dicts
      <3>1. Seen(n, l)' = Seen(n, l)
        BY <2>1, <2>2 DEF Seen
      <3>2. ~Pending(b, l) /\ ~Pending(b, l)'
        <4>1. Len(frames) >= 2 => frames[2].target \in Dicts
          BY <1>0, TopTyped
        <4>2. Len(frames') >= 2 => frames'[2].target \in Dicts
          <5>1. Len(frames') >= 2 => 2 \in DOMAIN frames' /\ frames' \in Seq(Frames)
            BY <1>0 DEF TypeOK
          <5> QED
            <6>1. Len(frames') >= 2 => frames'[2] \in Frames
              BY <5>1
            <6>2. \A f \in Frames : f.target \in Dicts
              BY DEF Frames
            <6> QED
              BY <6>1, <6>2
        <4> QED
          BY <2>1, <2>2, <4>1, <4>2 DEF Pending
      <3>3. UptoLeaf(n, l)' = UptoLeaf(n, l)
        BY <2>1, <3>2 DEF UptoLeaf
      <3> QED
        BY <1>7, <3>1, <3>3
    <2>3. CASE b \in Dicts
      <3>1. PICK x \in Holders : b = given.dicts[x][n]
        BY <2>3, BuiltLeaf
      <3>2. Pending(b, l)' <=> Pending(given.dicts[x][n], l)'
        BY <1>0, <2>1, <3>1 DEF Pending
      <3>3. LET a == given.dicts[x][n] IN
            \/ heap'[a][l] = heap[a][l] /\ (Pending(a, l)' <=> Pending(a, l))
            \/ /\ Pending(a, l) /\ ~Pending(a, l)' /\ SecondAt(n)
               /\ heap'[a][l] = heap[frames[2].source][l] /\ heap[frames[2].source][l] # None
        BY <1>0, <1>12, <2>3, <3>1, InnerStep
      <3>4. Seen(n, l)' = heap'[b][l] /\ Seen(n, l) = heap[b][l]
        BY <2>1, <2>3 DEF Seen
      <3>5. CASE heap'[b][l] = heap[b][l] /\ (Pending(b, l)' <=> Pending(b, l))
        <4>1. UptoLeaf(n, l)' = UptoLeaf(n, l)
          BY <2>1, <3>5 DEF UptoLeaf
        <4> QED
          BY <1>7, <3>4, <3>5, <4>1
      <3>6. CASE /\ Pending(b, l) /\ ~Pending(b, l)' /\ SecondAt(n)
                 /\ heap'[b][l] = heap[frames[2].source][l] /\ heap[frames[2].source][l] # None
        <4>1. frames[2].source = c /\ c \in Dicts /\ n \notin frames[1].todo
          BY <3>6 DEF SecondAt
        <4>2. UptoLeaf(n, l) = at - 1 /\ UptoLeaf(n, l)' = at
          BY <2>1, <3>6, <4>1 DEF UptoLeaf
        <4>3. First(n, at)
          BY <1>5, <4>1 DEF Upto
        <4>4. \/ c # b /\ heap[c][l] = Adds(at, n, l)
              \/ c = b /\ Adds(at, n, l) = None
              \/ c = b /\ \A j \in 1..(at - 1) : Adds(j, n, l) = None
          BY <2>3, <4>1, <4>3, SourceAdds
        <4>5. CASE heap[c][l] = Adds(at, n, l)
          BY <1>10, <3>4, <3>6, <4>1, <4>2, <4>5
        <4>6. CASE c = b /\ Adds(at, n, l) = None
          BY <1>8, <3>4, <3>6, <4>1, <4>2, <4>6
        <4>7. CASE c = b /\ \A j \in 1..(at - 1) : Adds(j, n, l) = None
          <5>1. Seen(n, l) = None
            BY <1>2, <4>2, <4>7 DEF LatestLeaf
          <5> QED
            BY <3>4, <3>6, <4>1, <4>7, <5>1
        <4> QED
          BY <4>4, <4>5, <4>6, <4>7
      <3> QED
        BY <3>1, <3>2, <3>3, <3>5, <3>6
    <2> QED
      BY <2>2, <2>3
  <1> QED
    BY <1>0, <1>11, <1>12, Depths

\* A nested value of the first context is that of the latest source merged that
\* adds one.
LEMMA FirstLeafPreserved ==
    ASSUME IInv, PlainInsideInv, HolderInv, SecondInv, DeepInv, FirstInv, FirstHeapInv, FirstLeafInv, [Next]_vars
    PROVE  FirstLeafInv'
  <1>0. given' = given /\ given \in Inputs /\ TypeOK /\ TypeOK'
    BY Kept
  <1> SUFFICES ASSUME Clean', Started', InFirst', NEW n \in Nesting, NEW l \in PlainKeys
               PROVE  LatestLeaf(n, l, UptoLeaf(n, l))'
    BY LeafGivenKept DEF FirstLeafInv
  <1>1. Clean /\ InFirst /\ l \in Keys /\ n \in Keys /\ at \in 1..9
    BY <1>0, CleanKept, InFirstKept DEF PlainKeys, Nesting, NestedKeys, TypeOK
  <1>2. Started => LatestLeaf(n, l, UptoLeaf(n, l))
    BY <1>1 DEF FirstLeafInv
  <1>3. call' = call => \A i : Adds(i, n, l)' = Adds(i, n, l)
    BY AddsKept
  <1>4. CASE (Evaluate \/ NextCall) /\ at' = 1 /\ phase' = "building" /\ heap'[Built][n] = None
    <2>1. UptoLeaf(n, l)' = 0
      BY <1>4 DEF UptoLeaf
    <2>2. Seen(n, l)' = None
      BY <1>4, Distinct DEF Seen
    <2> QED
      BY <2>1, <2>2 DEF LatestLeaf
  <1>5. CASE /\ Begin /\ at' = at /\ call' = call /\ phase = "building" /\ phase' = "merging" /\ Started
             /\ heap'[Built][n] = heap[Built][n] /\ frames'[1].todo = Held(Source)
    <2>1. LatestLeaf(n, l, at - 1)
      BY <1>2, <1>5 DEF UptoLeaf
    <2>2. heap[Source][n] = S[at][n]
      BY <1>1, <1>5, BegunWith
    <2>3. Seen(n, l)' = Seen(n, l)
      <3>1. heap[Built][n] \in Dicts => heap'[heap[Built][n]][l] = heap[heap[Built][n]][l]
        BY <1>0, <1>1, <1>5, BuiltLeaf, HeapStep DEF Begin, Assign, Inject, Injected, Evaluate, NextCall
      <3> QED
        BY <1>5, <3>1 DEF Seen
    <2>4. ~Pending(heap[Built][n], l)'
      <3>1. Len(frames') = 1
        BY <1>5 DEF Begin
      <3> QED
        BY <3>1 DEF Pending
    <2>5. CASE heap[Source][n] # None
      <3>1. UptoLeaf(n, l)' = at - 1
        BY <1>1, <1>5, <2>5 DEF UptoLeaf, Held
      <3> QED
        BY <1>3, <1>5, <2>1, <2>3, <3>1 DEF LatestLeaf
    <2>6. CASE heap[Source][n] = None
      <3>1. UptoLeaf(n, l)' = at
        BY <1>1, <1>5, <2>4, <2>6 DEF UptoLeaf, Held
      <3>2. at - 1 \in Nat /\ (at - 1) + 1 = at
        BY <1>1
      <3>3. Adds(at, n, l) = None
        BY <2>2, <2>6, Distinct DEF Adds
      <3>4. LatestLeaf(n, l, at)
        BY <2>1, <3>2, <3>3, LatestLeafKept
      <3> QED
        BY <1>3, <1>5, <2>3, <3>1, <3>4 DEF LatestLeaf
    <2> QED
      BY <2>5, <2>6
  <1>6. CASE Skip /\ at' = at + 1 /\ call' = call /\ heap' = heap /\ phase' # "merging" /\ Started
    <2>1. LatestLeaf(n, l, at - 1) /\ UptoLeaf(n, l)' = at
      BY <1>1, <1>2, <1>6 DEF UptoLeaf, Skip
    <2>2. Adds(at, n, l) = None
      BY <1>1, <1>6, SkippedEmpty, Distinct DEF Adds
    <2>3. at - 1 \in Nat /\ (at - 1) + 1 = at
      BY <1>1
    <2>4. LatestLeaf(n, l, at)
      BY <2>1, <2>2, <2>3, LatestLeafKept
    <2>5. Seen(n, l)' = Seen(n, l)
      BY <1>6 DEF Seen
    <2> QED
      BY <1>3, <1>6, <2>1, <2>4, <2>5 DEF LatestLeaf
  <1>7. CASE /\ Merged /\ at' = at + 1 /\ call' = call /\ heap' = heap /\ phase' # "merging" /\ Started
             /\ phase = "merging" /\ frames[1].todo = {}
    <2>1. Len(frames) = 1
      BY <1>7 DEF Merged
    <2>2. UptoLeaf(n, l) = at /\ UptoLeaf(n, l)' = at
      BY <1>1, <1>7, <2>1 DEF UptoLeaf, Pending
    <2>3. Seen(n, l)' = Seen(n, l)
      BY <1>7 DEF Seen
    <2> QED
      BY <1>2, <1>3, <1>7, <2>2, <2>3 DEF LatestLeaf
  <1>8. CASE phase = "merging" /\ phase' = "merging" /\ at' = at /\ call' = call /\ Started
    BY <1>1, <1>8, FirstLeafMerging
  <1>9. CASE phase # "merging" /\ phase' = phase /\ at' = at /\ call' = call /\ heap' = heap /\ Started
    <2>1. UptoLeaf(n, l)' = UptoLeaf(n, l) /\ Seen(n, l)' = Seen(n, l)
      BY <1>9 DEF UptoLeaf, Seen
    <2> QED
      BY <1>2, <1>3, <1>9, <2>1 DEF LatestLeaf
  <1> QED
    BY <1>1, <1>4, <1>5, <1>6, <1>7, <1>8, <1>9, ContextStep

-----------------------------------------------------------------------------
(* What the values of the context are, when the rules read them. *)

\* The CLI's value is in the runtime context, and so in the context.
LEMMA CliSeen ==
    ASSUME IInv, NInv
    PROVE  CliWinsOverTrajectory
  <1> SUFFICES ASSUME phase = "rules", Clean, NEW n \in Nesting, NEW l \in PlainKeys, TrajectoryHas(n),
                      given.cli, Leaf(given.dicts[Cli], n, l) # None
               PROVE  Resolve(<<n, l>>) = Leaf(given.dicts[Cli], n, l)
    BY DEF CliWinsOverTrajectory, CliWins, Clean, Nesting
  <1>1. given \in Inputs /\ Started /\ UptoLeaf(n, l) = 8
    BY DEF IInv, TypeOK, Started, UptoLeaf
  <1>2. RuntimeLeaf(n, l) = Leaf(given.dicts[Cli], n, l)
    BY DEF RuntimeLeaf
  <1>3. RuntimeGiven[n] \in Dicts
    BY <1>1, RuntimeHolder DEF Leaf
  <1>4. Seen(n, l) = RuntimeLeaf(n, l)
    BY <1>1, <1>2, <1>3 DEF NInv, CliLeafInv
  <1> QED
    BY <1>2, <1>4 DEF Resolve, Seen

\* What each source adds, in the documents' terms.
LEMMA AddsAre ==
    ASSUME given \in Inputs, call \in DOMAIN given.calls, NEW n \in Nesting, NEW l \in PlainKeys
    PROVE  /\ Adds(1, n, l) = Leaf(given.dicts[Extra], n, l)
           /\ Adds(2, n, l) = Leaf(Given(given.dicts[Extra][ContextKey]), n, l)
           /\ Adds(3, n, l) = RuntimeLeaf(n, l)
           /\ Adds(4, n, l) = Leaf(Given(Current.input), n, l)
           /\ Adds(5, n, l) = Leaf(Given(Current.output), n, l)
           /\ Adds(6, n, l) = Leaf(Given(Current.args), n, l)
           /\ Adds(7, n, l) = Leaf(Given(Current.result), n, l)
           /\ Adds(8, n, l) = IF TrajectoryHas(n) THEN RuntimeLeaf(n, l) ELSE None
  <1>1. /\ S[2] = Given(given.dicts[Extra][ContextKey]) /\ S[3] = RuntimeGiven /\ S[8] = RuntimeGiven
        /\ S[4] = Given(Current.input) /\ S[5] = Given(Current.output)
        /\ S[6] = Given(Current.args) /\ S[7] = Given(Current.result)
    BY SourceItems
  <1>2. S[1][n] = given.dicts[Extra][n]
    BY SourceItems, ExtraGivenItems DEF Nesting, NestedKeys, Special
  <1>3. ASSUME NEW i \in 1..7, i # 3
        PROVE  Adds(i, n, l) = Leaf(S[i], n, l)
    <2>1. S[i][n] \in Dicts => S[i][n] # RuntimeGiven[n]
      <3> SUFFICES ASSUME S[i][n] \in Dicts, S[i][n] = S[8][n] PROVE FALSE
        BY <1>1
      <3> QED
        BY <1>3, SourceApart
    <2> QED
      BY <1>3, <2>1 DEF Adds, Leaf, LeafGiven
  <1>4. RuntimeGiven[n] \notin Dicts => RuntimeLeaf(n, l) = None
    BY RuntimeHolder DEF RuntimeLeaf, Leaf
  <1>5. Adds(3, n, l) = RuntimeLeaf(n, l)
    BY <1>1, <1>4 DEF Adds, LeafGiven
  <1>6. Adds(8, n, l) = IF TrajectoryHas(n) THEN RuntimeLeaf(n, l) ELSE None
    BY <1>1, <1>4 DEF Adds, LeafGiven
  <1> QED
    BY <1>1, <1>2, <1>3, <1>5, <1>6 DEF Leaf

LEMMA FirstSeen ==
    ASSUME IInv, NInv
    PROVE  FirstContextByPrecedence
  <1> SUFFICES ASSUME phase = "rules", call = 1, verdicts = <<>>, Undisturbed(1),
                      NEW n \in Nesting, NEW l \in PlainKeys
               PROVE  FirstOf(NestedPrecedence(Current, n, l), Resolve(<<n, l>>))
    BY DEF FirstContextByPrecedence, Nesting
  <1> DEFINE P == Precedence(Current)
             V == [i \in 1..7 |-> IF i = 1 THEN RuntimeLeaf(n, l) ELSE Leaf(P[i], n, l)]
             A(i) == Adds(i, n, l)
             v == Seen(n, l)
  <1>0. given \in Inputs /\ Started /\ Clean /\ InFirst /\ UptoLeaf(n, l) = 8 /\ call \in DOMAIN given.calls
    BY DEF IInv, TypeOK, Started, UptoLeaf, Clean, Reached, InFirst
  <1>1. LatestLeaf(n, l, 8)
    BY <1>0 DEF NInv, FirstLeafInv
  <1>2. Resolve(<<n, l>>) = v
    BY DEF Resolve, Seen
  <1>3. /\ V[1] = RuntimeLeaf(n, l)
        /\ V[2] = A(7) /\ V[3] = A(6) /\ V[4] = A(5) /\ V[5] = A(4) /\ V[6] = A(2) /\ V[7] = A(1)
    BY <1>0, AddsAre DEF Precedence
  <1>4. A(3) = V[1] /\ A(8) = IF TrajectoryHas(n) THEN V[1] ELSE None
    BY <1>0, <1>3, AddsAre
  <1>5. NestedPrecedence(Current, n, l) =
            IF TrajectoryHas(n) THEN V ELSE <<V[2], V[3], V[4], V[5], V[1], V[6], V[7]>>
    BY DEF NestedPrecedence
  <1>6. DOMAIN V = 1..7
    OBVIOUS
  <1>7. \/ v = None /\ \A i \in 1..8 : A(i) = None
        \/ \E i \in 1..8 : v # None /\ v = A(i) /\ \A j \in (i + 1)..8 : A(j) = None
    BY <1>1 DEF LatestLeaf
  <1> HIDE DEF P, V, A, v
  <1>8. CASE TrajectoryHas(n)
    <2>1. CASE v = None
      <3>1. \A i \in 1..7 : V[i] = None
        BY <1>3, <1>4, <1>7, <2>1 DEF A, v
      <3> QED
        BY <1>2, <1>5, <1>6, <1>8, <2>1, <3>1 DEF FirstOf
    <2>2. CASE v # None
      <3>1. PICK i \in 1..8 : v = A(i) /\ \A j \in (i + 1)..8 : A(j) = None
        BY <1>7, <2>2
      <3>2. i # 3
        BY <1>4, <1>8, <2>2, <3>1
      <3>3. CASE i \in 4..8
        <4>1. v = V[9 - i] /\ 9 - i \in 1..7 /\ \A j \in 1..((9 - i) - 1) : V[j] = None
          BY <1>3, <1>4, <1>8, <3>1, <3>3
        <4> QED
          BY <1>2, <1>5, <1>6, <1>8, <2>2, <4>1 DEF FirstOf
      <3>4. CASE i \in 1..2
        <4>1. v = V[8 - i] /\ 8 - i \in 1..7 /\ \A j \in 1..((8 - i) - 1) : V[j] = None
          BY <1>3, <1>4, <1>8, <3>1, <3>4
        <4> QED
          BY <1>2, <1>5, <1>6, <1>8, <2>2, <4>1 DEF FirstOf
      <3> QED
        BY <3>1, <3>2, <3>3, <3>4
    <2> QED
      BY <2>1, <2>2
  <1>9. CASE ~TrajectoryHas(n)
    <2> DEFINE W == <<V[2], V[3], V[4], V[5], V[1], V[6], V[7]>>
    <2>0. /\ DOMAIN W = 1..7
          /\ W[1] = A(7) /\ W[2] = A(6) /\ W[3] = A(5) /\ W[4] = A(4)
          /\ W[5] = A(3) /\ W[6] = A(2) /\ W[7] = A(1) /\ A(8) = None
      BY <1>3, <1>4, <1>9
    <2>9. NestedPrecedence(Current, n, l) = W
      BY <1>5, <1>9
    <2> HIDE DEF W
    <2>1. CASE v = None
      <3>1. \A i \in 1..7 : W[i] = None
        BY <1>7, <2>0, <2>1
      <3> QED
        BY <1>2, <2>0, <2>1, <2>9, <3>1 DEF FirstOf
    <2>2. CASE v # None
      <3>1. PICK i \in 1..8 : v = A(i) /\ \A j \in (i + 1)..8 : A(j) = None
        BY <1>7, <2>2
      <3>2. i \in 1..7
        BY <2>0, <2>2, <3>1
      <3>3. v = W[8 - i] /\ 8 - i \in 1..7 /\ \A j \in 1..((8 - i) - 1) : W[j] = None
        BY <2>0, <3>1, <3>2
      <3> QED
        BY <1>2, <2>0, <2>2, <2>9, <3>3 DEF FirstOf
    <2> QED
      BY <2>1, <2>2
  <1> QED
    BY <1>8, <1>9

-----------------------------------------------------------------------------
(* The theorems. *)

LEMMA InitHolds == Init => IInv
  <1> SUFFICES ASSUME Init PROVE IInv
    OBVIOUS
  <1>1. /\ given \in Inputs /\ TypeOK /\ heap = given.dicts /\ phase = "loaded"
        /\ frames = <<>> /\ verdicts = <<>> /\ call = 1
    BY InitTyped DEF Init
  <1>2. NothingInvented /\ PlainStays
    BY <1>1 DEF NothingInvented, UnknownKey, PlainStays, PlainKeys
  <1>3. RefInv
    <2> SUFFICES ASSUME NEW d \in Dicts, NEW k \in Keys
                 PROVE  /\ heap[d][k] \notin Roots
                        /\ \A n \in Special :
                              heap[d][k] \in Dicts /\ heap[d][k] = ExtraGiven[n]
                                  => k = n /\ d \in {Extra, Built, Copy}
      BY DEF RefInv
    <2>1. heap[d][k] \notin Roots \union {Runtime}
      BY <1>1, Trees
    <2>2. ASSUME NEW n \in Special, heap[d][k] \in Dicts, heap[d][k] = ExtraGiven[n]
          PROVE  k = n /\ d = Extra
      <3>1. n \in Keys /\ ExtraGiven[n] = given.dicts[Extra][n]
        BY <1>1, <2>1, <2>2, ExtraGivenItems, Distinct
      <3> QED
        BY <1>1, <2>2, <3>1, Trees, Distinct
    <2> QED
      BY <2>1, <2>2
  <1>4. RootsInv
    BY <1>1 DEF RootsInv, Attached
  <1>5. FramesInv /\ InjectInv /\ LowInv
    BY <1>1 DEF FramesInv, InjectInv, LowInv
  <1>6. TopsInv
    BY <1>1 DEF TopsInv, Attached
  <1>7. FreshInv /\ CopyInv /\ SpecialInv /\ PlainInv /\ ReportsInv /\ VerdictsInv
    BY <1>1 DEF FreshInv, CopyInv, SpecialInv, PlainInv, Started, ReportsInv, VerdictsInv
  <1> QED
    BY <1>1, <1>2, <1>3, <1>4, <1>5, <1>6, <1>7 DEF IInv

LEMMA Invariant == Spec => []IInv
  <1>1. IInv /\ [Next]_vars => IInv'
    <2> SUFFICES ASSUME IInv, [Next]_vars PROVE IInv'
      OBVIOUS
    <2>1. given' \in Inputs /\ TypeOK'
      BY NextTyped DEF IInv
    <2> QED
      BY <2>1, NothingInventedPreserved, PlainStaysPreserved, RefPreserved, FramesPreserved, RootsPreserved,
          InjectPreserved, LowPreserved, TopsPreserved, FreshPreserved, CopyPreserved, SpecialPreserved,
          PlainPreserved, ReportsPreserved, VerdictsPreserved DEF IInv
  <1> QED
    BY <1>1, InitHolds, PTL DEF Spec

LEMMA InitWrites == Init => WInv
  <1> SUFFICES ASSUME Init PROVE WInv
    OBVIOUS
  <1>1. /\ given \in Inputs /\ TypeOK /\ heap = given.dicts /\ phase = "loaded" /\ frames = <<>>
    BY InitTyped DEF Init
  <1>2. NestedStays
    BY <1>1 DEF NestedStays, NestedKeys
  <1>3. HomeInv
    BY <1>1, Trees, PayloadsTyped, Distinct DEF HomeInv
  <1>4. HasInv /\ LookupInv /\ BuiltHasInv
    BY <1>1 DEF HasInv, LookupInv, BuiltHasInv, Attached, Started
  <1>5. BuiltFirstInv
    BY <1>1, Trees, Distinct DEF BuiltFirstInv, NestedKeys
  <1>6. WrittenInv
    BY <1>1 DEF WrittenInv
  <1> QED
    BY <1>2, <1>3, <1>4, <1>5, <1>6 DEF WInv

LEMMA WritesInvariant == Spec => []WInv
  <1>1. IInv /\ WInv /\ [Next]_vars => WInv'
    BY NestedStaysPreserved, HomePreserved, HasPreserved, LookupPreserved, BuiltHasPreserved,
        BuiltFirstPreserved, WrittenPreserved DEF WInv
  <1> QED
    BY <1>1, InitWrites, Invariant, PTL DEF Spec

LEMMA InitInside == Init => NInv
  <1> SUFFICES ASSUME Init PROVE NInv
    OBVIOUS
  <1>1. /\ given \in Inputs /\ heap = given.dicts /\ phase = "loaded" /\ frames = <<>>
    BY DEF Init
  <1>2. PlainInsideInv
    BY <1>1 DEF PlainInsideInv, PlainKeys
  <1>3. RuntimeRefInv
    BY <1>1, Trees DEF RuntimeRefInv
  <1>4. HolderInv
    BY <1>1, Trees DEF HolderInv, Holders
  <1>5. LowFramesInv /\ SecondInv /\ DeepInv
    BY <1>1 DEF LowFramesInv, SecondInv, DeepInv
  <1>6. FirstHeapInv
    BY <1>1, Trees, Distinct DEF FirstHeapInv, Attached
  <1>7. FirstInv /\ InjectLeafInv /\ RuntimeKeptInv /\ CliLeafInv /\ FirstLeafInv
    BY <1>1 DEF FirstInv, InjectLeafInv, RuntimeKeptInv, CliLeafInv, FirstLeafInv, Started, Attached
  <1> QED
    BY <1>2, <1>3, <1>4, <1>5, <1>6, <1>7 DEF NInv

LEMMA InsideInvariant == Spec => []NInv
  <1>1. IInv /\ WInv /\ NInv /\ [Next]_vars => NInv'
    BY PlainInsidePreserved, RuntimeRefPreserved, LowFramesPreserved, HolderPreserved, SecondPreserved,
        DeepPreserved, FirstPreserved, InjectLeafPreserved, RuntimeKeptPreserved, FirstHeapPreserved,
        CliLeafPreserved, FirstLeafPreserved DEF NInv
  <1> QED
    BY <1>1, InitInside, Invariant, WritesInvariant, PTL DEF Spec

\* The variables keep their shape, and merges end with the payload they began with.
THEOREM ContextTyped == Spec => []TypeOK
  BY Invariant, PTL DEF IInv

\* Every plain value of every context comes from the source that takes
\* precedence, the CLI's --context first, as long as nothing merged so far has a
\* "context" or "runtime_context" of its own.
THEOREM PrecedenceHolds == Spec => []PlainByPrecedence
  BY Invariant, LatestTakesPrecedence, PTL

\* The CLI's value of a nested key is in every context, of every call and every
\* evaluation, where the trajectory's own metadata has the nested object and
\* nothing merged so far has a "context" or "runtime_context" of its own.
THEOREM CliHolds == Spec => []CliWinsOverTrajectory
  BY Invariant, InsideInvariant, CliSeen, PTL

\* Every nested value of the first context comes from the source that takes
\* precedence, under the same condition; where only the runtime context and the
\* payloads have the nested object, the payloads come first.
THEOREM FirstContextHolds == Spec => []FirstContextByPrecedence
  BY Invariant, InsideInvariant, FirstSeen, PTL

\* Building contexts writes into no payload's dict but a first one's.
THEOREM WritesHold == Spec => []OnlyFirstHolderWritten
  <1>1. IInv /\ WInv => OnlyFirstHolderWritten
    <2> SUFFICES ASSUME IInv, WInv, RuntimeKey \in NestedKeys,
                        NEW n \in DOMAIN given.calls, NEW d \in PayloadsOf(given.calls[n]), NEW k \in NestedKeys,
                        given.dicts[d][k] \in Dicts, heap[given.dicts[d][k]] # given.dicts[given.dicts[d][k]]
                 PROVE  FirstSomewhere(d, k)
      BY DEF OnlyFirstHolderWritten, FirstSomewhere
    <2>1. d \in AllPayloads
      BY DEF AllPayloads
    <2>2. heap[given.dicts[d][k]] \in Objects /\ given.dicts[given.dicts[d][k]] \in Objects
      BY GivenTyped DEF IInv, TypeOK
    <2>3. \E l \in Keys : heap[given.dicts[d][k]][l] # given.dicts[given.dicts[d][k]][l]
      BY <2>2 DEF Objects
    <2> QED
      BY <2>1, <2>3 DEF WInv, WrittenInv
  <1> QED
    BY <1>1, Invariant, WritesInvariant, PTL

\* A call is reported by every strict rule that requires a variable nobody
\* provides.
THEOREM FailsSafely == Spec => []UnknownFailsSafely
  <1>1. IInv => UnknownFailsSafely
    BY DEF IInv, VerdictsInv, UnknownFailsSafely, Due, Lacks
  <1> QED
    BY <1>1, Invariant, PTL

\* A call is reported by every strict rule that requires another value than the
\* CLI gives, as long as no payload has a "context" or "runtime_context" of its
\* own.
THEOREM CliDecides == Spec => []CliApprovalDecides
  <1>1. IInv => CliApprovalDecides
    BY DEF IInv, VerdictsInv, CliApprovalDecides, Due, Withheld
  <1> QED
    BY <1>1, Invariant, PTL
=============================================================================
