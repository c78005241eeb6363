------------------------- MODULE MCDocumentIndexing -------------------------
(* Instances of DocumentIndexing for TLC.                                  *)
EXTENDS DocumentIndexing, TLC

\* One upload per document, and one upload of all of them.
Singles == {{d} : d \in Docs}
Together == {Docs}

Symmetry == Permutations(Docs) \union Permutations(Segs)
            \union Permutations(Tasks) \union Permutations(Workers)
            \union Permutations(Reqs)

=============================================================================
