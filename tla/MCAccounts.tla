----------------------------- MODULE MCAccounts -----------------------------
(* TLC instance of Accounts. *)
EXTENDS Accounts, FiniteSets, TLC

\* Updates are about one user and another one that has or takes its address:
\* they come while there have been two users at most.
Updating(q) == q.pc \in {"update", "write"}
UpdatesEarly ==
    (\E t \in Threads : Updating(req'[t])) => Cardinality({u \in Users : users'[u].row # "never"}) <= 2

\* An update that names a role is refused whatever else it names: one form of
\* it is enough.
OneRoleForm ==
    \A t \in Threads : Updating(req'[t]) =>
        /\ req'[t].role \in {None, "admin"}
        /\ req'[t].role = None <=> req'[t].email # None

MCSpec == Init /\ [][Next /\ UpdatesEarly /\ OneRoleForm]_vars

Symmetry == Permutations(Users) \cup Permutations(Threads)
=============================================================================
