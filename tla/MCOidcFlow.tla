----------------------------- MODULE MCOidcFlow -----------------------------
(* TLC instances of OidcFlow. *)
EXTENDS OidcFlow, TLC

Symmetry == Permutations(Users) \cup Permutations(Clients) \cup Permutations(Scopes)
            \cup Permutations(Uris) \cup Permutations(Codes) \cup Permutations(Reqs)
=============================================================================
