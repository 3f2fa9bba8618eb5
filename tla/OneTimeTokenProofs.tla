------------------------- MODULE OneTimeTokenProofs -------------------------
(***************************************************************************)
(* Proofs about OneTimeToken, for any tokens and things and finitely many  *)
(* holders.  Login and Enrollment get their bounds on sessions from here.  *)
(***************************************************************************)
EXTENDS OneTimeToken, FiniteSetTheorems, TLAPS

TypeOK ==
    /\ phase \in [Tokens -> {"new", "open", "spent"}]
    /\ holders \in [Tokens -> SUBSET Holders]
    /\ opened \in [Tokens -> SUBSET Things]

\* Every holder may still open something without exceeding the bound.
Room(held, done) ==
    IsFiniteSet(done) /\ Cardinality(done) + Cardinality(held) <= Cardinality(Holders)

TokenInv == TypeOK /\ OpenedWhenSpent /\ \A t \in Tokens : Room(holders[t], opened[t])

-----------------------------------------------------------------------------
\* A token that has opened nothing has room for all that can hold it.
LEMMA RoomWhenUnused ==
    ASSUME IsFiniteSet(Holders), NEW held \in SUBSET Holders
    PROVE  Room(held, {})
<1>1. IsFiniteSet(held) /\ Cardinality(held) <= Cardinality(Holders)
  BY FS_Subset
<1>2. Cardinality({}) = 0 /\ IsFiniteSet({})
  BY FS_EmptySet
<1>3. Cardinality(held) \in Nat /\ Cardinality(Holders) \in Nat
  BY <1>1, FS_CardinalityType
<1> QED
  BY <1>1, <1>2, <1>3 DEF Room

\* Who opens something lets go of the token.
LEMMA RoomAfterOpen ==
    ASSUME IsFiniteSet(Holders), NEW held \in SUBSET Holders, NEW done, Room(held, done),
           NEW h \in held, NEW x, x \notin done
    PROVE  Room(held \ {h}, done \cup {x})
<1>1. IsFiniteSet(held) /\ IsFiniteSet(done)
  BY FS_Subset DEF Room
<1>2. IsFiniteSet(done \cup {x}) /\ Cardinality(done \cup {x}) = Cardinality(done) + 1
  BY <1>1, FS_AddElement
<1>3. Cardinality(held \ {h}) = Cardinality(held) - 1
  BY <1>1, FS_RemoveElement
<1>4. /\ Cardinality(done) \in Nat /\ Cardinality(held) \in Nat
      /\ Cardinality(Holders) \in Nat
  BY <1>1, FS_CardinalityType
<1> QED
  BY <1>2, <1>3, <1>4 DEF Room

\* Who lets go without opening anything leaves as much room.
LEMMA RoomAfterRelease ==
    ASSUME IsFiniteSet(Holders), NEW held \in SUBSET Holders, NEW done, Room(held, done),
           NEW S
    PROVE  Room(held \ S, done)
<1>1. IsFiniteSet(held) /\ IsFiniteSet(done)
  BY FS_Subset DEF Room
<1>2. held \ S \subseteq held
  OBVIOUS
<1>3. IsFiniteSet(held \ S) /\ Cardinality(held \ S) <= Cardinality(held)
  BY <1>1, <1>2, FS_Subset
<1>4. /\ Cardinality(done) \in Nat /\ Cardinality(held) \in Nat
      /\ Cardinality(held \ S) \in Nat /\ Cardinality(Holders) \in Nat
  BY <1>1, <1>3, FS_CardinalityType
<1> QED
  BY <1>3, <1>4 DEF Room

-----------------------------------------------------------------------------
\* Nothing is opened with a new token.
LEMMA TokenInit == ASSUME IsFiniteSet(Holders) PROVE Init => TokenInv
<1> SUFFICES ASSUME Init PROVE TokenInv
  OBVIOUS
<1>1. TypeOK /\ OpenedWhenSpent
  BY DEF Init, TypeOK, OpenedWhenSpent
<1>2. ASSUME NEW t \in Tokens PROVE Room(holders[t], opened[t])
  BY RoomWhenUnused DEF Init
<1> QED
  BY <1>1, <1>2 DEF TokenInv

\* Whatever happens to a token, it is spent before anything is opened with it,
\* and each opening is paid for by a holder.
LEMMA TokenStep == ASSUME IsFiniteSet(Holders) PROVE TokenInv /\ [Next]_vars => TokenInv'
<1> SUFFICES ASSUME TokenInv, [Next]_vars PROVE TokenInv'
  OBVIOUS
<1> USE DEF TokenInv, TypeOK
<1>1. ASSUME NEW t \in Tokens, Issue(t) PROVE TokenInv'
  <2>1. TypeOK' /\ OpenedWhenSpent'
    BY <1>1 DEF Issue, OpenedWhenSpent
  <2>2. holders' = holders /\ opened' = opened
    BY <1>1 DEF Issue
  <2> QED
    BY <2>1, <2>2
<1>2. ASSUME NEW t \in Tokens, NEW h \in Holders, Take(t, h) PROVE TokenInv'
  <2>1. TypeOK' /\ OpenedWhenSpent'
    BY <1>2 DEF Take, OpenedWhenSpent
  <2>2. opened[t] = {} /\ holders'[t] \in SUBSET Holders /\ opened' = opened
    BY <1>2 DEF Take, OpenedWhenSpent
  <2>3. \A u \in Tokens \ {t} : holders'[u] = holders[u]
    BY <1>2 DEF Take
  <2>4. Room(holders'[t], opened'[t])
    BY <2>2, RoomWhenUnused
  <2> QED
    BY <2>1, <2>2, <2>3, <2>4
<1>3. ASSUME NEW S \in SUBSET Tokens, Spend(S) PROVE TokenInv'
  <2>1. TypeOK' /\ OpenedWhenSpent'
    BY <1>3 DEF Spend, OpenedWhenSpent
  <2>2. holders' = holders /\ opened' = opened
    BY <1>3 DEF Spend
  <2> QED
    BY <2>1, <2>2
<1>4. ASSUME NEW t \in Tokens, NEW h \in Holders, NEW x \in Things, Open(t, h, x) PROVE TokenInv'
  <2>1. TypeOK' /\ OpenedWhenSpent'
    BY <1>4 DEF Open, OpenedWhenSpent
  <2>2. \A u \in Tokens \ {t} : holders'[u] = holders[u] /\ opened'[u] = opened[u]
    BY <1>4 DEF Open
  <2>3. /\ holders'[t] = holders[t] \ {h} /\ opened'[t] = opened[t] \cup {x}
        /\ h \in holders[t] /\ x \notin opened[t] /\ holders[t] \in SUBSET Holders
    BY <1>4 DEF Open
  <2>4. Room(holders'[t], opened'[t])
    BY <2>3, RoomAfterOpen
  <2> QED
    BY <2>1, <2>2, <2>4
<1>5. ASSUME NEW S \in SUBSET Holders, Release(S) PROVE TokenInv'
  <2>1. TypeOK' /\ OpenedWhenSpent'
    BY <1>5 DEF Release, OpenedWhenSpent
  <2>2. \A t \in Tokens : Room(holders[t] \ S, opened[t])
    BY RoomAfterRelease
  <2>3. \A t \in Tokens : holders'[t] = holders[t] \ S /\ opened'[t] = opened[t]
    BY <1>5 DEF Release
  <2> QED
    BY <2>1, <2>2, <2>3
<1>6. CASE UNCHANGED vars
  BY <1>6 DEF vars, OpenedWhenSpent
<1> QED
  BY <1>1, <1>2, <1>3, <1>4, <1>5, <1>6 DEF Next

\* A token opens no more than there are handlers, less those that hold it:
\* what three transactions that do not look back at each other still promise.
THEOREM UsesAreBounded == ASSUME IsFiniteSet(Holders) PROVE Spec => []UsesBounded
<1>1. Init => TokenInv
  BY TokenInit
<1>2. TokenInv /\ [Next]_vars => TokenInv'
  BY TokenStep
<1>3. TokenInv => UsesBounded
  BY DEF TokenInv, UsesBounded, Room
<1> QED
  BY <1>1, <1>2, <1>3, PTL DEF Spec

\* Nothing is opened with a token before it is spent.
THEOREM OpenedOnlyWhenSpent == ASSUME IsFiniteSet(Holders) PROVE Spec => []OpenedWhenSpent
<1>1. Init => TokenInv
  BY TokenInit
<1>2. TokenInv /\ [Next]_vars => TokenInv'
  BY TokenStep
<1>3. TokenInv => OpenedWhenSpent
  BY DEF TokenInv
<1> QED
  BY <1>1, <1>2, <1>3, PTL DEF Spec

\* Once spent and let go by all who took it, a token opens nothing any more.
THEOREM SpentStaysSettled == Spec => SpentSettles
<1>1. TypeOK /\ [Next]_vars =>
        [\A t \in Tokens : phase[t] = "spent" /\ holders[t] = {}
            => opened'[t] = opened[t] /\ holders'[t] = {}]_vars
  BY DEF TypeOK, Next, vars, Issue, Take, Spend, Open, Release
<1>2. Init => TypeOK
  BY DEF Init, TypeOK
<1>3. TypeOK /\ [Next]_vars => TypeOK'
  BY DEF TypeOK, Next, vars, Issue, Take, Spend, Open, Release
<1> QED
  BY <1>1, <1>2, <1>3, PTL DEF Spec, SpentSettles
=============================================================================
