----------------------------- MODULE MCAppStore ------------------------------
(* Requests are interchangeable, and so are users.                          *)
EXTENDS AppStore, TLC

Symmetry == Permutations(Reqs) \cup Permutations(Users)
=============================================================================
