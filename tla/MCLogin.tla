------------------------------ MODULE MCLogin ------------------------------
(* TLC instances of Login. *)
EXTENDS Login, TLC

Symmetry == Permutations(Users) \cup Permutations(Options) \cup Permutations(Sessions)
            \cup Permutations(Browsers) \cup Permutations(Reqs)
=============================================================================
