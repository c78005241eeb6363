-------------------------- MODULE MCKnowledgeSync --------------------------
(* Instances of KnowledgeSync for TLC.                                     *)
EXTENDS KnowledgeSync, TLC

Symmetry == Permutations(Segs) \union Permutations(Texts)

=============================================================================
