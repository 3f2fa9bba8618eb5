---------------------------- MODULE OneTimeToken ----------------------------
(***************************************************************************)
(* What this server makes of "can be used once".  A handler checks that a  *)
(* token is unspent (Take), marks it as spent (Spend) and opens a session  *)
(* with it (Open) in three transactions, and no transaction looks back at  *)
(* what the one before has seen.  So a token may be taken several times    *)
(* while it is open; what is promised is that nobody takes a spent token,  *)
(* that nothing is opened before the token is spent, and that each taking  *)
(* opens one session at most.  One-time links (Enrollment) and login       *)
(* challenges (Login) are such tokens.                                     *)
(***************************************************************************)
EXTENDS Naturals, FiniteSets

CONSTANTS
    Tokens,
    Holders,   \* the worker threads that take tokens
    Things     \* what is opened with a token

VARIABLES
    phase,     \* of each token: "new", "open" or "spent"
    holders,   \* of each token: who has taken it and is not done
    opened     \* of each token: what was opened with it

vars == <<phase, holders, opened>>

Init ==
    /\ phase = [t \in Tokens |-> "new"]
    /\ holders = [t \in Tokens |-> {}]
    /\ opened = [t \in Tokens |-> {}]

Issue(t) ==
    /\ phase[t] = "new"
    /\ phase' = [phase EXCEPT ![t] = "open"]
    /\ UNCHANGED <<holders, opened>>

Take(t, h) ==
    /\ phase[t] = "open"
    /\ \A u \in Tokens : h \notin holders[u]
    /\ holders' = [holders EXCEPT ![t] = @ \cup {h}]
    /\ UNCHANGED <<phase, opened>>

\* By a holder, or with the deletion of what the tokens belong to.
Spend(S) ==
    /\ \A t \in S : phase[t] = "open"
    /\ phase' = [t \in Tokens |-> IF t \in S THEN "spent" ELSE phase[t]]
    /\ UNCHANGED <<holders, opened>>

Open(t, h, x) ==
    /\ phase[t] = "spent"
    /\ h \in holders[t]
    /\ \A u \in Tokens : x \notin opened[u]
    /\ opened' = [opened EXCEPT ![t] = @ \cup {x}]
    /\ holders' = [holders EXCEPT ![t] = @ \ {h}]
    /\ UNCHANGED phase

\* A handler fails, or all are lost in a restart.
Release(S) ==
    /\ holders' = [t \in Tokens |-> holders[t] \ S]
    /\ UNCHANGED <<phase, opened>>

Next ==
    \/ \E S \in SUBSET Holders : Release(S)
    \/ \E t \in Tokens : Issue(t)
    \/ \E t \in Tokens, h \in Holders : Take(t, h)
    \/ \E S \in SUBSET Tokens : Spend(S)
    \/ \E t \in Tokens, h \in Holders, x \in Things : Open(t, h, x)

Spec == Init /\ [][Next]_vars

-----------------------------------------------------------------------------
\* A token that is not spent has opened nothing.
OpenedWhenSpent == \A t \in Tokens : phase[t] # "spent" => opened[t] = {}

\* A token opens no more than there are handlers that can hold it at once.
UsesBounded ==
    \A t \in Tokens :
        /\ IsFiniteSet(opened[t])
        /\ Cardinality(opened[t]) + Cardinality(holders[t]) <= Cardinality(Holders)

\* A spent token that nobody holds stays without effect for ever.
SpentSettles ==
    [][\A t \in Tokens : phase[t] = "spent" /\ holders[t] = {}
            => opened'[t] = opened[t] /\ holders'[t] = {}]_vars
=============================================================================
