------------------------------- MODULE Chunking -------------------------------
(***************************************************************************)
(* chunk_text: a document's text cut into passages of a bounded size.  A   *)
(* text is a sequence of paragraphs, a paragraph a sequence of words, a    *)
(* word a pair of its place in the text and its number of characters.      *)
(***************************************************************************)
EXTENDS Integers, Sequences, SequencesExt

\* estimate_tokens, of the words with a space between them.
Tokens(words) ==
    LET chars == FoldLeft(LAMBDA total, word : total + word[2], Len(words) - 1, words)
    IN  IF words = <<>> THEN 0 ELSE Max({Len(words), chars \div 4})

\* _split_long_block: words as long as they fit.  A word that does not fit by
\* itself makes an empty piece, which is left out.
SplitLongBlock(words, maxTokens) ==
    LET Put(acc, word) ==
            IF Tokens(Append(acc.piece, word)) <= maxTokens
            THEN [acc EXCEPT !.piece = Append(@, word)]
            ELSE [pieces |-> Append(acc.pieces, acc.piece),
                  piece |-> IF Tokens(<<word>>) <= maxTokens THEN <<word>> ELSE <<>>]
        split == FoldLeft(Put, [pieces |-> <<>>, piece |-> <<>>], words)
    IN  SelectSeq(Append(split.pieces, split.piece), LAMBDA piece : piece # <<>>)

\* _tail_tokens: the shortest end of the chunk that has the overlap.
TailTokens(words, overlap) ==
    LET tails == {n \in 1 .. Len(words) : Tokens(SubSeq(words, n, Len(words))) >= overlap}
    IN  IF tails = {} THEN words ELSE SubSeq(words, Max(tails), Len(words))

Flush(acc) ==
    IF acc.current = <<>> THEN acc
    ELSE [chunks |-> Append(acc.chunks, acc.current), current |-> <<>>, tokens |-> 0]

\* After a full chunk, begin the next with the end of it.
Roll(acc, overlap) ==
    LET full == Flush(acc)
        tail == TailTokens(Last(full.chunks), overlap)
    IN  IF overlap = 0 THEN full ELSE [full EXCEPT !.current = tail, !.tokens = Tokens(tail)]

PutBlock(acc, block, maxTokens, overlap) ==
    IF Tokens(block) > maxTokens
    THEN LET full == Flush(acc)
         IN  [full EXCEPT !.chunks = @ \o SplitLongBlock(block, maxTokens)]
    ELSE LET room == IF acc.current # <<>> /\ acc.tokens + Tokens(block) > maxTokens
                     THEN Roll(acc, overlap) ELSE acc
         IN  [room EXCEPT !.current = @ \o block, !.tokens = @ + Tokens(block)]

\* With an overlap as large as a chunk every text is refused.
ChunkText(blocks, maxTokens, overlap) ==
    LET Put(acc, block) == PutBlock(acc, block, maxTokens, overlap)
    IN  IF maxTokens < 1 \/ overlap >= maxTokens THEN <<>>
        ELSE Flush(FoldLeft(Put, [chunks |-> <<>>, current |-> <<>>, tokens |-> 0], blocks)).chunks

-----------------------------------------------------------------------------
(* What the cutting promises, against the text itself. *)

WordsOf(seqs) == FlattenSeq(seqs)

\* The words a search can find: all but those too long for any chunk.
Searchable(blocks, maxTokens) ==
    SelectSeq(WordsOf(blocks), LAMBDA word : Tokens(<<word>>) <= maxTokens)

\* Each chunk is a stretch of the text that goes on where the last one ended,
\* or repeats the end of it, and none of the searchable words is left out.
HoldsTheText(chunks, blocks, maxTokens) ==
    LET words == Searchable(blocks, maxTokens)
        End(i) == IF i = 0 THEN 0 ELSE CHOOSE n \in DOMAIN words : words[n] = Last(chunks[i])
    IN  /\ \A i \in DOMAIN chunks :
            \E from \in 1 .. End(i - 1) + 1, to \in End(i - 1) + 1 .. Len(words) :
                chunks[i] = SubSeq(words, from, to)
        /\ End(Len(chunks)) = Len(words)

\* A chunk is no larger than its bound and the overlap it begins with, but for
\* what joining paragraphs adds, a token each at most.
KeepsItsSize(chunks, blocks, maxTokens, overlap) ==
    LET longest == Max({0} \union {Tokens(<<word>>) : word \in ToSet(WordsOf(blocks))})
    IN  \A i \in DOMAIN chunks :
            Tokens(chunks[i]) <=
                maxTokens + Len(blocks) - 1 + (IF overlap = 0 THEN 0 ELSE overlap + longest)
=============================================================================
