--------------------------- MODULE MCSpanExporter ---------------------------
(* Small instances of SpanExporter for TLC. *)
EXTENDS SpanExporter, TLC

CONSTANTS s1, s2, s3, a1, a2, f1, c1, c2

MCSpans == {s1, s2, s3}
MCApps == {a1, a2}
MCFlushes == {f1}
MCClosers == {c1, c2}
OneApp == {a1}
OneCloser == {c1}

\* Sound for invariants: no action names a particular span or caller.
Symmetry == Permutations(MCSpans) \union Permutations(MCApps)
               \union Permutations(MCClosers)
=============================================================================
