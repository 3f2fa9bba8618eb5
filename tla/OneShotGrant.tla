---------------------------- MODULE OneShotGrant ----------------------------
(***************************************************************************)
(* What the authorization code flow promises of its codes: a code that is  *)
(* issued is spent at some time, for ever, and a spent code yields tokens  *)
(* once at most (not at all when its exchange fails half way or its user   *)
(* is deleted).                                                            *)
(***************************************************************************)
EXTENDS Naturals

CONSTANT Codes

VARIABLES
    phase,   \* of each code: "new", "open" or "spent"
    grants   \* how many token responses each code has yielded

vars == <<phase, grants>>

Init ==
    /\ phase = [k \in Codes |-> "new"]
    /\ grants = [k \in Codes |-> 0]

Issue(k) ==
    /\ phase[k] = "new"
    /\ phase' = [phase EXCEPT ![k] = "open"]
    /\ UNCHANGED grants

\* A redemption spends one code, the deletion of a user all of the user's.
Spend(S) ==
    /\ \A k \in S : phase[k] = "open"
    /\ phase' = [k \in Codes |-> IF k \in S THEN "spent" ELSE phase[k]]
    /\ UNCHANGED grants

Grant(k) ==
    /\ phase[k] = "spent" /\ grants[k] = 0
    /\ grants' = [grants EXCEPT ![k] = 1]
    /\ UNCHANGED phase

Next ==
    \/ \E k \in Codes : Issue(k) \/ Grant(k)
    \/ \E S \in SUBSET Codes : Spend(S)

Spec == Init /\ [][Next]_vars
=============================================================================
