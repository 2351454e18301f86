---------------------------- MODULE MCCompletion ----------------------------
(* Instances of Completion for TLC. *)
EXTENDS Completion

\* Postings that share a text, and one that does not.
SharedText == [c \in Candidates |-> IF c > 2 THEN "other" ELSE "text"]
MCChain == <<"vllm", "cloud">>
=============================================================================
