---------------------------- MODULE MCWordIndex ----------------------------
(***************************************************************************)
(* An instance of WordIndex for TLC.                                       *)
(***************************************************************************)
EXTENDS WordIndex, TLC

CONSTANTS apple, pear, doc1, doc2, t1, t2

\* A query may be empty, repeat a word, or name its words in any order.
MCQueries == {<<>>, <<apple>>, <<apple, pear>>, <<pear, apple>>, <<pear, pear>>}

\* Readers and documents are interchangeable; words are not, for MCQueries.
MCSymmetry == Permutations(Readers) \cup Permutations(Docs)
=============================================================================
