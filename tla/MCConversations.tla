--------------------------- MODULE MCConversations ---------------------------
(* The end users of an application are interchangeable.                     *)
EXTENDS Conversations

Symmetry == Permutations(EndUsers)
=============================================================================
