---------------------------- MODULE MCEnrollment ----------------------------
(* TLC instances of Enrollment: the ids that are only compared are symmetric. *)
EXTENDS Enrollment, TLC

Symmetry == Permutations(Users) \cup Permutations(Links) \cup Permutations(Sessions)
            \cup Permutations(Challenges) \cup Permutations(Creds) \cup Permutations(Reqs)
=============================================================================
