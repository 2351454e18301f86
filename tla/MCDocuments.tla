---------------------------- MODULE MCDocuments ----------------------------
(* Instances of Documents for TLC. *)
EXTENDS Documents, Retrieval

Numbered(sizes) ==
    [b \in DOMAIN sizes |-> [w \in DOMAIN sizes[b] |-> <<10 * b + w, sizes[b][w]>>]]

\* No session differs from another.
MCSymmetry == Permutations(Sessions)

\* Two short paragraphs, a long one with a word too long for any chunk, and a
\* last short one.
MCText == [f \in Files |-> Numbered(<<<<3, 8>>, <<8, 3>>, <<3, 8, 8, 20, 3>>, <<3, 4>>>>)]

\* The cutting of every text of up to two paragraphs of up to three words, of
\* one, two and five tokens; with an overlap as large as a chunk none is cut.
Texts == UNION {[1 .. n -> UNION {[1 .. m -> {3, 8, 20}] : m \in 1 .. 3}] : n \in 0 .. 2}

ASSUME ChunkTextIsSound ==
    \A sizes \in Texts, overlap \in 0 .. 2 :
        LET text == Numbered(sizes)
            chunks == ChunkText(text, 4, overlap)
        IN  /\ HoldsTheText(chunks, text, 4) /\ KeepsItsSize(chunks, text, 4, overlap)
            /\ ChunkText(text, 4, 4) = <<>>

\* Fusion and search over every answer of the index: rankings of two chunks,
\* and of a chunk and a profile entry.
Rankings(passages) ==
    {list \in UNION {[1 .. n -> passages] : n \in 0 .. Cardinality(passages)} : IsInjective(list)}

ASSUME FusionIsFair ==
    LET lists == Rankings({"c1", "c2", "p1"})
    IN  \A l, m, n \in lists : FusionRespectsDominance(<<l, m, n>>, 3)

ASSUME SearchIsSound ==
    LET chunks == Rankings({"c1", "c2"})
        founds == [dense : chunks, lexical : chunks, profile : Rankings({"p1"}),
                   denseFails : BOOLEAN, aborts : {FALSE}]
        relevance == [passage \in {"c1", "c2", "p1"} |-> IF passage = "c2" THEN 2 ELSE 1]
    IN  \A topK \in {0, 1, 3}, rerank \in {"default", "no"} :
            /\ \A f \in founds :
                AnswerIsSound(<<f>>, topK, SearchProfile(<<f>>, topK, rerank, TRUE, relevance))
            /\ \A f, g \in founds :
                AnswerIsSound(<<f, g>>, topK, SearchProfile(<<f, g>>, topK, rerank, TRUE, relevance))

ASSUME ExpansionKeepsTheQuery ==
    \A keywords \in Rankings({"ai", "de"}), countries \in Rankings({"de", "us"}) :
        LET variants == ExpandQuery("query", keywords, countries, 3)
        IN  Len(variants) \in 1 .. 3 /\ variants[1] = <<"query">> /\ IsInjective(variants)

\* Every table of four rows of two users, with any similarities and hits.
ASSUME SearchesAreOwn ==
    \A owners \in [1 .. 4 -> {"mine", "theirs"}], embedded \in [1 .. 4 -> BOOLEAN],
       points \in [1 .. 4 -> 0 .. 2] :
        LET table == [i \in 1 .. 4 |-> [id |-> i, user |-> owners[i], embedded |-> embedded[i]]]
            score == [row \in ToSet(table) |-> points[row.id]]
            vectors == {row \in ToSet(table) : row.embedded}
            words == {row \in ToSet(table) : score[row] > 0}
        IN  /\ SearchIsOwn(table, "mine", vectors, score, DenseSearch(table, "mine", score))
            /\ SearchIsOwn(table, "mine", words, score, LexicalSearch(table, "mine", score))

\* Every list of up to four texts, of which any were embedded before, and a
\* provider that answers for all of the others or stops early.
ASSUME EmbeddingsAreAligned ==
    LET vector == [text \in {"a", "b", "c"} |-> <<"vector", text>>]
    IN  \A texts \in UNION {[1 .. n -> {"a", "b", "c"}] : n \in 1 .. 4},
           known \in SUBSET {"a", "b"} :
            LET missing == SelectSeq(texts, LAMBDA text : text \notin known)
            IN  \A answered \in 0 .. Len(missing) :
                EmbeddingsFitTheirTexts(texts, [text \in known |-> vector[text]],
                    [m \in 1 .. answered |-> vector[missing[m]]], vector)
=============================================================================
