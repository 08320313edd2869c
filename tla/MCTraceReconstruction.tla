----------------------- MODULE MCTraceReconstruction ------------------------
(***************************************************************************)
(* Three spans whose parents are any of them, missing or absent, in any    *)
(* order of start time and sequence, with two node names; and two spans    *)
(* that may be open, skewed, malformed or of any kind; and four spans in   *)
(* any arrangement of parents.                                             *)
(***************************************************************************)
EXTENDS TraceReconstruction

Missing == 9
MCIds == 1..4 \union {Missing}

Structures ==
    UNION {[1..n -> [parent : 1..n \union {Missing, None}, start : {0, 1}, seq : {0, 1},
                     end : {2}, node : {"a", "b"}, kind : {"chain"}]] : n \in 0..3}

\* Sequence numbers matter between equal start times only.
MCStructures == {t \in Structures : \A s \in DOMAIN t : t[s].start = 1 => t[s].seq = 0}

MCAttributes ==
    [1..2 -> [parent : {1, 2, None}, start : {1}, seq : {0},
              end : {None, 0, 1, 2}, node : {"a", "b"}, kind : Kinds]]

\* Chains as long as four spans, one more than the recursion limit here.
MCChains ==
    [1..4 -> [parent : 1..4 \union {None}, start : {0}, seq : {0},
              end : {2}, node : {"a"}, kind : {"chain"}]]

MCTraces == MCStructures \union MCAttributes \union MCChains
=============================================================================
