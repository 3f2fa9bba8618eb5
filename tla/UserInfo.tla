------------------------------ MODULE UserInfo ------------------------------
(***************************************************************************)
(* GET /userinfo: the claims of an access token, resolved from the scopes  *)
(* and claim mappings of OidcAdmin and the options of UserOptions.  The    *)
(* handler reads four tables in four statements, and at READ COMMITTED     *)
(* each sees what is committed by then.  It writes nothing.                *)
(***************************************************************************)
EXTENDS OidcAdmin, UserOptions

CONSTANT Readers   \* worker threads

VARIABLES
    info,       \* the handlers in flight, and their answers
    mapped,     \* history: the mappings that have existed
    kept        \* history: the texts that options have had

infoVars == <<info, mapped, kept>>

-----------------------------------------------------------------------------
\* wanted are the scopes of the token; claims the answer, None for no claim.
Info == [pc : {"idle", "scopes", "mappings", "attributes", "options", "answered"},
         user : Users \cup {None}, wanted : SUBSET Scopes, valid : SUBSET Scopes,
         rows : SUBSET MappingColumns, flags : [Keys -> BOOLEAN], claims : [Texts -> Text]]
NoClaims == [n \in Texts |-> None]
NoInfo == [pc |-> "idle", user |-> None, wanted |-> {}, valid |-> {}, rows |-> {},
           flags |-> [k \in Keys |-> FALSE], claims |-> NoClaims]

Kept == [user : Users, key : Keys, text : Texts]

InfoTypeOK ==
    /\ OidcAdminTypeOK /\ OptionsTypeOK
    /\ info \in [Readers -> Info]
    /\ mapped \subseteq MappingColumns
    /\ kept \subseteq Kept

-----------------------------------------------------------------------------
\* Mutant: the rows are not resolved.
MappingIdsOf(names) == {m \in Mappings : Live(mappings, m) /\ mappings[m].columns.scope \in names}
\* Mutant: the mappings of all scopes.
AllMappings(names) == {mappings[m].columns : m \in {n \in Mappings : Live(mappings, n)}}
\* The mappings of the scopes that exist and were asked for.
MappingsOf(names) ==
    {row \in {mappings[m].columns : m \in {n \in Mappings : Live(mappings, n)}} : row.scope \in names}

\* get_user_option_values_by_keys: None for a key without a readable value.
OptionValue(u, k, flags) ==
    IF Live(options[u], k) THEN FinalValue(options[u][k], flags[k]) ELSE None

\* The text of one mapping.
ClaimValue(row, u, flags) ==
    CASE row.source = "static" -> IF row.static = None THEN Empty ELSE row.static
      [] row.source = "user_attribute" -> OptionValue(u, row.key, flags)

\* The mappings that set a claim: user_profile sets none, and neither does a
\* mapping to an option without a key.
Sets(row) == row.source = "static" \/ (row.source = "user_attribute" /\ row.key # None)
Setting(rows, n) == {row \in rows : row.claim = n /\ Sets(row)}

\* resolve_claims: the mappings come in no particular order, and the last one
\* of a claim decides.
Resolvable(q) ==
    {claims \in [Texts -> Text] :
        \A n \in Texts :
            LET rows == Setting(q.rows, n) IN
            IF rows = {} THEN claims[n] = None
            ELSE \E row \in rows : claims[n] = ClaimValue(row, q.user, q.flags)}

-----------------------------------------------------------------------------
Go(r, pc, q) == info' = [info EXCEPT ![r] = [q EXCEPT !.pc = pc]]

\* The token is found, its user accepted.
Ask(r, u, wanted) ==
    /\ info[r].pc \in {"idle", "answered"}
    /\ users[u] = "live"
    /\ Go(r, "scopes", [NoInfo EXCEPT !.user = u, !.wanted = wanted])

ReadScopes(r) ==
    LET valid == {s \in info[r].wanted : ScopeExists(s)} IN
    /\ info[r].pc = "scopes"
    /\ Go(r, IF valid = {} THEN "answered" ELSE "mappings", [info[r] EXCEPT !.valid = valid])

ReadMappings(r) ==
    /\ info[r].pc = "mappings"
    /\ Go(r, "attributes", [info[r] EXCEPT !.rows = MappingsOf(info[r].valid)])

ReadFlags(r, flags) ==
    /\ info[r].pc = "attributes"
    /\ \A k \in Keys : flags[k] \in Flags(k)
    /\ Go(r, "options", [info[r] EXCEPT !.flags = flags])

Answer(r) ==
    /\ info[r].pc = "options"
    /\ \E claims \in Resolvable(info[r]) :
           Go(r, "answered", [info[r] EXCEPT !.claims = claims])

-----------------------------------------------------------------------------
InfoInit == info = [r \in Readers |-> NoInfo] /\ mapped = {} /\ kept = {}

InfoStep ==
    \E r \in Readers :
        \/ \E u \in Users, wanted \in SUBSET Scopes : Ask(r, u, wanted)
        \/ ReadScopes(r) \/ ReadMappings(r)
        \/ \E flags \in [Keys -> BOOLEAN] : ReadFlags(r, flags)
        \/ Answer(r)

\* What the tables hold after a step is remembered.
Remember ==
    /\ mapped' = mapped \cup {mappings'[m].columns : m \in {n \in Mappings : mappings'[n].row = "live"}}
    /\ kept' = kept \cup
            {x \in {[user |-> u, key |-> k, text |-> saved'[u][k].text] : u \in Users, k \in Keys} :
                x.text # None}

UserInfoInit == OidcAdminInit /\ OptionsInit /\ InfoInit

UserInfoNext ==
    /\ \/ OidcAdminNext /\ UNCHANGED <<optionsVars, info>>
       \/ OptionsNext /\ UNCHANGED <<oidcVars, info>>
       \/ InfoStep /\ UNCHANGED <<oidcVars, optionsVars>>
    /\ Remember

UserInfoSpec == UserInfoInit /\ [][UserInfoNext]_<<oidcVars, optionsVars, infoVars>>

-----------------------------------------------------------------------------
(* Properties.                                                              *)

\* Whatever is changed between the four reads, a claim in the answer has been
\* mapped, for a scope of the token, and its text is that of the mapping or
\* one that this user has saved under the key of the mapping.
ClaimsTraceable ==
    \A r \in Readers, n \in Texts :
        LET q == info[r] IN
        q.pc = "answered" /\ q.claims[n] # None =>
            \E row \in mapped :
                /\ row.claim = n /\ row.scope \in q.wanted
                /\ \/ row.source = "static" /\ q.claims[n] \in {row.static, Empty}
                   \/ /\ row.source = "user_attribute"
                      /\ [user |-> q.user, key |-> row.key, text |-> q.claims[n]] \in kept
=============================================================================
