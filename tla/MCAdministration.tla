-------------------------- MODULE MCAdministration --------------------------
(* TLC instance of the administrative components: UserInfo, with OidcAdmin  *)
(* and UserOptions, and DashboardLinks.                                     *)
EXTENDS UserInfo, DashboardLinks, FiniteSets, TLC

CONSTANTS s0, s1, k1, v1

\* What is used together.  No property is about tables of two parts, but
\* those of the claims.
VARIABLE part

Form(s, source, k, static) == [scope |-> s, claim |-> v1, source |-> source, key |-> k, static |-> static]
Forms == {Form(s1, "static", None, v1), Form(s0, "user_attribute", k1, None),
          Form(s1, "user_attribute", k1, None)}

\* The handlers that edit a mapping, or delete a scope.
OfMappings == {"idle", "insertScope", "insertMapping", "updateMapping", "checkClients", "deleteScope"}
EditsMappings == \A t \in Editors : edit'[t].pc \in OfMappings

\* The claims: one update or edit at a time beside the handler that reads,
\* until it has answered, and tokens of one scope.
OneWriter ==
    Cardinality({t \in Editors : edit'[t].pc # "idle"})
    + Cardinality({t \in Savers : save'[t].pc # "idle"}) <= 1

AdminInit ==
    /\ UserInfoInit /\ LinksInit
    /\ part \in {"clients", "mappings", "claims", "options", "links"}
    /\ part = "claims" => \A s \in Scopes : ScopeExists(s)

AdminNext ==
    \/ /\ part = "clients"
       /\ OidcAdminNext
       /\ \A t \in Editors : edit'[t].pc \notin {"insertMapping", "updateMapping"}
       /\ UNCHANGED <<mappings, optionsVars, infoVars, linksVars, part>>
    \/ /\ part = "mappings"
       /\ OidcAdminNext /\ EditsMappings
       /\ UNCHANGED <<optionsVars, infoVars, linksVars, part>>
    \/ /\ part = "claims"
       /\ \A r \in Readers : info[r].pc # "answered"
       /\ UserInfoNext /\ EditsMappings /\ OneWriter
       /\ ids' <= 3 /\ \A t \in Editors : edit'[t].pc # "insertScope"
       /\ \A r \in Readers : info'[r].wanted \subseteq {s1}
       /\ UNCHANGED <<users, linksVars, part>>
    \/ /\ part = "options"
       /\ OptionsNext
       /\ UNCHANGED <<oidcVars, infoVars, linksVars, part>>
    \/ /\ part = "links"
       /\ LinksNext
       /\ UNCHANGED <<oidcVars, optionsVars, infoVars, part>>

AdminVars == <<oidcVars, optionsVars, infoVars, linksVars, part>>

AdminSpec == AdminInit /\ [][AdminNext]_AdminVars

Symmetry == Permutations(Editors) \cup Permutations(Savers)
=============================================================================
