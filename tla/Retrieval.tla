------------------------------ MODULE Retrieval ------------------------------
(***************************************************************************)
(* The retrievers of src/rag.py.  The local one ranks a document by its    *)
(* terms (BM25) and by its meaning (shared tokens and concepts), fuses the *)
(* two ranks and reranks; Qdrant returns documents with a tag that occurs  *)
(* in the query.                                                           *)
(*                                                                         *)
(* A text is the set of its phrases; a phrase counts as one token.         *)
(* Document ids are numbers.  Scores are in thousandths (BM25) or          *)
(* millionths (the rest), which floats are finer than.                     *)
(***************************************************************************)
EXTENDS Integers, FiniteSets, FiniteSetsExt

CONSTANTS
    Documents,         \* SYNTHETIC_DOCUMENTS
    Words, Tags,       \* phrases of a document's title and text, and its tags
    Concepts,          \* SEMANTIC_CONCEPTS: sets of tokens
    InverseFrequency,  \* ln(1 + (N - df + 0.5) / (df + 0.5)) of df documents out of N
    TopK               \* rag_top_k, 3 by default

ASSUME RetrievalAssumption ==
    /\ IsFiniteSet(Documents) /\ Documents \subseteq Int
    /\ Cardinality(Documents) \in 1..1000
    /\ \A d \in Documents : IsFiniteSet(Words[d]) /\ IsFiniteSet(Tags[d])
    /\ IsFiniteSet(Concepts)
    /\ \A n \in 1..Cardinality(Documents) : InverseFrequency[n] \in Nat \ {0}
    /\ TopK \in Nat \ {0}

Tokens(d) == Words[d] \union Tags[d]
-----------------------------------------------------------------------------
(* LocalSyntheticRetriever *)

Frequency(term) == Cardinality({d \in Documents : term \in Tokens(d)})
TotalLength == MapThenSumSet(LAMBDA d : Cardinality(Tokens(d)), Documents)

\* _lexical_rank's score, with every term once in a document.
LexicalScore(query, d) ==
    LET length == 1375 * TotalLength + 1125 * Cardinality(Tokens(d)) * Cardinality(Documents)
    IN  MapThenSumSet(LAMBDA term : (2500 * InverseFrequency[Frequency(term)] * TotalLength)
                                        \div length,
                      query \intersect Tokens(d))

Common(query, d) == Cardinality(query \intersect Tokens(d))

\* _semantic_hits
SemanticHits(query, d) ==
    Common(query, d) +
    Cardinality({c \in Concepts : query \intersect c # {} /\ Tokens(d) \intersect c # {}})

\* sorted(..., reverse=True): by score, then by document id.
Ahead(score, d, e) == score[d] > score[e] \/ (score[d] = score[e] /\ d > e)
Rank(score, d) == 1 + Cardinality({e \in Documents : Ahead(score, e, d)})

Reciprocal(rank) == 15000000 \div (60 + rank)

Lexical(query) == [d \in Documents |-> LexicalScore(query, d)]
Semantic(query) == [d \in Documents |-> SemanticHits(query, d)]

\* rrf_score * 15
FusedRanks(lexical, semantic) ==
    [d \in Documents |-> Reciprocal(Rank(lexical, d)) + Reciprocal(Rank(semantic, d))]

Fused(query) ==
    CHOOSE fused \in {FusedRanks(lexical, semantic) :
                        lexical \in {Lexical(query)}, semantic \in {Semantic(query)}} : TRUE

\* exact_coverage and phrase_bonus
Coverage(query, d) ==
    (1000000 * Common(query, d)) \div (IF query = {} THEN 1 ELSE Cardinality(query))
Bonus(query, d) == IF query \intersect Tags[d] # {} THEN 200000 ELSE 0

\* rerank_score
Reranked(query, fused, d) ==
    LET score == fused[d] + Coverage(query, d) + Bonus(query, d)
    IN  IF score > 1000000 THEN 1000000 ELSE score

\* Whether d comes before e in the result.
Before(query, fused, d, e) ==
    LET r == Reranked(query, fused, d)
        s == Reranked(query, fused, e)
    IN  r > s \/ (r = s /\ Ahead(fused, d, e))

\* Variant: the best documents come last.
BestWorst(query, fused) ==
    {d \in Documents : Cardinality({e \in Documents : Before(query, fused, d, e)}) < TopK}

\* The first TopK documents.
Best(query, fused) ==
    {d \in Documents : Cardinality({e \in Documents : Before(query, fused, e, d)}) < TopK}

\* search (of the one fusion, bound to a name so that TLC computes it once)
Search(query) == UNION {Best(query, fused) : fused \in {Fused(query)}}
-----------------------------------------------------------------------------
(* QdrantRetriever *)

\* scroll: TopK at most of the documents that have a token of the query as tag.
Scrolled(query) ==
    {S \in SUBSET {d \in Documents : Tags[d] \intersect query # {}} : Cardinality(S) <= TopK}
=============================================================================
