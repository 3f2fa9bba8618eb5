------------------------------- MODULE Tables -------------------------------
(***************************************************************************)
(* What the administrative components share: rows of tables, and what an   *)
(* UPDATE through the ORM does to a row that another handler has changed   *)
(* since it was loaded.                                                    *)
(***************************************************************************)
CONSTANTS
    None,       \* NULL
    Keys,       \* keys of user options, which claim mappings name too
    Texts,      \* the texts that columns hold
    Empty       \* the empty string

ASSUME TablesAssumption == Empty \in Texts /\ None \notin Texts \cup Keys

Row == {"never", "live", "gone"}
Live(table, id) == table[id].row = "live"

\* Mutant: the UPDATE writes every column of the loaded row back.
WholeColumn(current, loaded, new) == new
\* A column after the UPDATE of a handler that loaded one value and assigned
\* another: only columns that differ from what was loaded are in the SET list.
Column(current, loaded, new) == IF new # loaded THEN new ELSE current
=============================================================================
