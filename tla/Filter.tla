------------------------------- MODULE Filter -------------------------------
(***************************************************************************)
(* The loops that erase from a std::vector what fails a test: SelectSeq    *)
(* with the test as a set, so that facts about it can be stated for all    *)
(* tests (DataFacts).                                                      *)
(***************************************************************************)
EXTENDS Integers, Sequences, SequencesExt

\* What is left of s if only elements of S stay.
Kept(s, S) == FlattenSeq([i \in DOMAIN s |-> IF s[i] \in S THEN <<s[i]>> ELSE <<>>])
=============================================================================
