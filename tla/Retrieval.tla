------------------------------ MODULE Retrieval ------------------------------
(***************************************************************************)
(* Search in a user's profile and documents: the variants of the query,    *)
(* the three ways a variant is looked up, the fusion of what they find and *)
(* the reranking.  A passage is the key the fusion knows it by: its        *)
(* chunk's id, or the text of a profile entry.                             *)
(***************************************************************************)
EXTENDS Integers, Sequences, FiniteSets, SequencesExt

CONSTANTS
    RetrievalTopK,  \* settings.rag.retrieval_top_k
    RerankTopN      \* settings.rag.rerank_top_n

\* The first so many.
Top(seq, n) == SubSeq(seq, 1, IF n < Len(seq) THEN n ELSE Len(seq))

\* sorted(..., reverse=True): a stable sort, the highest score first.
ByScore(seq, score) ==
    LET Before(m, n) ==
            score[seq[m]] > score[seq[n]] \/ (score[seq[m]] = score[seq[n]] /\ m < n)
        places == SetToSortSeq(DOMAIN seq, Before)
    IN  [i \in DOMAIN seq |-> seq[places[i]]]

\* expand_query: the query itself and what it becomes with a keyword or a
\* country after it, each variant once.
ExpandQuery(query, keywords, countries, maxVariants) ==
    LET Add(variants, word) ==
            IF Len(variants) >= maxVariants \/ Contains(variants, <<query, word>>)
            THEN variants ELSE Append(variants, <<query, word>>)
    IN  FoldLeft(Add, <<<<query>>>>, keywords \o countries)

\* rank_profile_passages: the entries that hold a word of the query.
RankProfilePassages(entries, hits) ==
    Top(ByScore(SelectSeq(entries, LAMBDA entry : hits[entry] > 0), hits), RetrievalTopK)

-----------------------------------------------------------------------------
(* Looking a variant up.  A row is a chunk: [id, user, embedded : whether it
   has a vector]; the rows come in the table's order. *)

\* What each of the four queries (two databases, two kinds) returns: the best
\* of the user's rows that it can use.
Best(rows, user, usable, score) ==
    Top(ByScore(SelectSeq(rows, LAMBDA row : row.user = user /\ row \in usable), score),
        RetrievalTopK)

\* The rows that have a vector, the nearest first.
DenseSearch(rows, user, similarity) ==
    Best(rows, user, {row \in ToSet(rows) : row.embedded}, similarity)

\* The rows that hold a word of the query, the most words first.
LexicalSearch(rows, user, hits) ==
    Best(rows, user, {row \in ToSet(rows) : hits[row] > 0}, hits)

\* CachedEmbeddingProvider.embed: fresh is what the provider answers for the
\* texts that are missing.  Each vector is cached as it is paired with its
\* text, before the strict zip notices that there are too few or too many.
EmbedCached(texts, cache, fresh) ==
    LET missing == SelectSeq(texts, LAMBDA text : text \notin DOMAIN cache)
        place == [i \in DOMAIN texts |->
                    Len(SelectSeq(SubSeq(texts, 1, i), LAMBDA text : text \notin DOMAIN cache))]
        Pair(filled, m) ==
            [text \in DOMAIN filled \union {missing[m]} |->
                IF text = missing[m] THEN fresh[m] ELSE filled[text]]
        paired == IF Len(fresh) < Len(missing) THEN Len(fresh) ELSE Len(missing)
        raises == Len(fresh) # Len(missing)
    IN  [raises |-> raises,
         cache |-> FoldLeft(Pair, cache, [m \in 1 .. paired |-> m]),
         vectors |-> IF raises THEN <<>>
                     ELSE [i \in DOMAIN texts |->
                             IF texts[i] \in DOMAIN cache THEN cache[texts[i]]
                             ELSE fresh[place[i]]]]

\* FakeReranker and CrossEncoderReranker: the most relevant passages.
Rerank(passages, relevance, limit) == Top(ByScore(passages, relevance), limit)

-----------------------------------------------------------------------------
(* reciprocal_rank_fusion, exact for ranks up to four: the scores are in
   units of 1 over the least common multiple of 61 .. 64. *)

RRF_K == 60
Unit == 61 * 31 * 63 * 64
Share(rank) == Unit \div (RRF_K + rank)

Ranked(list) == [i \in DOMAIN list |-> <<list[i], i>>]

ReciprocalRankFusion(lists, limit) ==
    LET found == FlattenSeq([l \in DOMAIN lists |-> Ranked(lists[l])])
        Total(key) == FoldLeft(LAMBDA total, hit : IF hit[1] = key THEN total + Share(hit[2]) ELSE total,
                               0, found)
        score == [key \in {found[i][1] : i \in DOMAIN found} |-> Total(key)]
        Meet(keys, hit) == IF Contains(keys, hit[1]) THEN keys ELSE Append(keys, hit[1])
    IN  Top(ByScore(FoldLeft(Meet, <<>>, found), score), limit)

-----------------------------------------------------------------------------
(* ProfileRetriever and RetrievalService.  What the index answers to a variant
   is given: [dense, lexical, profile : lists, denseFails, aborts : BOOLEAN].
   aborts: the failure was the database's, and took the transaction with it.
   A search that raises has no passages. *)

Answer(passages, degraded) == [raises |-> FALSE, passages |-> passages, degraded |-> degraded]
Raises == [raises |-> TRUE, passages |-> <<>>, degraded |-> FALSE]

\* rerank: the caller's wish, "default" or a Boolean; reranker: is there one.
UsesReranker(rerank, reranker) == reranker /\ rerank \in {"default", "yes"}

\* ProfileRetriever.search up to the reranking.
Fused(found) ==
    ReciprocalRankFusion(
        <<IF found.denseFails THEN <<>> ELSE Top(found.dense, RetrievalTopK),
          Top(found.lexical, RetrievalTopK), found.profile>>, RetrievalTopK)

Search(found, rerank, reranker, relevance) ==
    IF found.denseFails /\ found.aborts THEN Raises
    ELSE Answer(IF UsesReranker(rerank, reranker)
                THEN Rerank(Fused(found), relevance, RerankTopN)
                ELSE Top(Fused(found), RetrievalTopK),
                found.denseFails)

SearchMulti(variants, rerank, reranker, relevance) ==
    LET one == [v \in DOMAIN variants |-> Search(variants[v], "no", reranker, relevance)]
        fused == ReciprocalRankFusion([v \in DOMAIN one |-> one[v].passages], RetrievalTopK)
    IN  IF \E v \in DOMAIN one : one[v].raises THEN Raises
        ELSE Answer(IF UsesReranker(rerank, reranker)
                    THEN Rerank(fused, relevance, RerankTopN)
                    ELSE Top(fused, RerankTopN),
                    \E v \in DOMAIN one : one[v].degraded)

\* RetrievalService.search_profile; topK = 0: not given.
SearchProfile(variants, topK, rerank, reranker, relevance) ==
    LET result == IF Len(variants) <= 1 THEN Search(variants[1], rerank, reranker, relevance)
                  ELSE SearchMulti(variants, rerank, reranker, relevance)
    IN  [result EXCEPT !.passages = Top(@, IF topK = 0 THEN RerankTopN ELSE topK)]

-----------------------------------------------------------------------------
(* What the search promises. *)

\* y comes before x wherever x is found at all.
Dominates(y, x, lists) ==
    \A l \in DOMAIN lists : \A i \in DOMAIN lists[l] :
        lists[l][i] = x => \E j \in 1 .. i - 1 : lists[l][j] = y

\* The fusion never puts a passage before one that came before it everywhere.
\* (A profile that has the same entry twice breaks this: both count.)
FusionRespectsDominance(lists, limit) ==
    LET fused == ReciprocalRankFusion(lists, limit)
        keys == UNION {ToSet(lists[l]) : l \in DOMAIN lists}
    IN  \A y \in keys : \A i \in DOMAIN fused :
            y # fused[i] /\ Dominates(y, fused[i], lists)
                => \E j \in 1 .. i - 1 : fused[j] = y

\* An answer has no passage twice, none that was not found, and no more than
\* were asked for; it says it is degraded exactly when a vector search failed.
AnswerIsSound(variants, topK, result) ==
    /\ IsInjective(result.passages)
    /\ ToSet(result.passages) \subseteq
        UNION {ToSet(variants[v].dense) \union ToSet(variants[v].lexical)
                    \union ToSet(variants[v].profile) : v \in DOMAIN variants}
    /\ Len(result.passages) <= (IF topK = 0 THEN RerankTopN ELSE topK)
    /\ ~result.raises => (result.degraded <=> \E v \in DOMAIN variants : variants[v].denseFails)

\* A search finds the best of the user's own rows: none of another user's, none
\* that it may not use, and none left out for one with a lower score.
SearchIsOwn(rows, user, usable, score, found) ==
    LET mine == {i \in DOMAIN rows : rows[i].user = user /\ rows[i] \in usable}
    IN  /\ ToSet(found) \subseteq {rows[i] : i \in mine}
        /\ Len(found) = (IF Cardinality(mine) < RetrievalTopK THEN Cardinality(mine) ELSE RetrievalTopK)
        /\ \A i \in mine : \A j \in DOMAIN found :
            rows[i] \notin ToSet(found) => score[rows[i]] <= score[found[j]]

\* Texts get their own vectors, whatever of them was cached and however often
\* one is repeated; and a provider that answers too few spoils no cached vector.
EmbeddingsFitTheirTexts(texts, cache, fresh, vector) ==
    LET result == EmbedCached(texts, cache, fresh)
    IN  /\ \A text \in DOMAIN result.cache : result.cache[text] = vector[text]
        /\ ~result.raises =>
            /\ result.vectors = [i \in DOMAIN texts |-> vector[texts[i]]]
            /\ DOMAIN result.cache = DOMAIN cache \union ToSet(texts)
=============================================================================
