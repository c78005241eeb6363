--------------------------- MODULE MCKeywordTable ---------------------------
(* Instances of KeywordTable for TLC.                                      *)
EXTENDS KeywordTable, TLC

Symmetry == Permutations(Procs) \union Permutations(Segs)

=============================================================================
