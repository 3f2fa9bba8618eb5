----------------------------- MODULE OidcAdmin -----------------------------
(***************************************************************************)
(* Administration of OIDC scopes, claim mappings and clients.  Each        *)
(* request is one transaction at READ COMMITTED that checks what it reads  *)
(* and writes in later statements; handlers run in worker threads.         *)
(* Descriptions, names and redirect URIs are data that nothing here reads. *)
(***************************************************************************)
EXTENDS Tables, Naturals

CONSTANTS
    Scopes,          \* scope names
    SystemScopes,    \* SYSTEM_SCOPE_NAMES, inserted by a migration
    Clients,         \* client_id of clients
    Mappings,        \* ids of oidc_claim_mappings
    MappingForms,    \* the mappings that requests ask for
    Editors,         \* worker threads
    MaxIds,          \* bound: ids of rows and requests
    MaxSecrets       \* bound: secrets of a client

VARIABLES
    scopes,          \* table oidc_scopes: the id of the row of a name, 0 for none
    clients,         \* table oidc_clients
    clientScopes,    \* table oidc_client_scopes
    mappings,        \* table oidc_claim_mappings
    ids,             \* ids drawn so far
    edited,          \* history: the last list of scopes given to each client
    told,            \* history: the secret that each client was last told
    edit             \* the handlers in flight

oidcVars == <<scopes, clients, clientScopes, mappings, ids, edited, told, edit>>

-----------------------------------------------------------------------------
Ids == 0..MaxIds
\* The secrets of a client are random: each is the next number, 0 none yet.
Secrets == 0..MaxSecrets

ClientColumns == [active : BOOLEAN, secret : Secrets]
ClientRow == [row : Row, columns : ClientColumns]
\* by is the request that has inserted the row.
ClientScopeRow == [client : Clients, scope : Scopes, by : Ids]

MappingColumns == [scope : Scopes, claim : Texts,
                   source : {"static", "user_attribute", "user_profile"},
                   key : Keys \cup {None}, static : Texts \cup {None}]
\* by is the request that has written the scope.
MappingRow == [row : Row, columns : MappingColumns \cup {None}, by : Ids]

\* names: the scopes given by the last list that have not been deleted since.
\* exact: no other list for the client was committed after the rows that this
\* request replaces were collected.
Edited == [names : SUBSET Scopes, exact : BOOLEAN]

\* A handler in flight: what it still needs of its request and of what it has
\* read.  doomed are the rows that its DELETE has found and locked.
Idle == [pc |-> "idle"]
NewScope == [pc : {"insertScope"}, scope : Scopes]
OldScope == [pc : {"checkClients", "deleteScope"}, scope : Scopes, id : Ids, since : Ids]
NewMapping == [pc : {"insertMapping"}, new : MappingColumns]
OldMapping == [pc : {"updateMapping"}, mapping : Mappings, loaded : MappingColumns, new : MappingColumns]
NewClient == [pc : {"insertClient"}, client : Clients, names : SUBSET Scopes, active : BOOLEAN]
OldClient == [pc : {"replace", "blocked", "commit"}, client : Clients, names : SUBSET Scopes,
              loaded : ClientColumns, active : BOOLEAN, doomed : SUBSET ClientScopeRow,
              stale : BOOLEAN]
Switch == [pc : {"activate"}, client : Clients, loaded : ClientColumns, active : BOOLEAN]
Edit == {Idle} \cup NewScope \cup OldScope \cup NewMapping \cup OldMapping
        \cup NewClient \cup OldClient \cup Switch

ASSUME OidcAdminAssumption ==
    /\ SystemScopes \subseteq Scopes
    /\ MappingForms \subseteq MappingColumns
    /\ MaxIds \in Nat \ {0} /\ MaxSecrets \in Nat \ {0}

OidcAdminTypeOK ==
    /\ scopes \in [Scopes -> Ids]
    /\ clients \in [Clients -> ClientRow]
    /\ clientScopes \subseteq ClientScopeRow
    /\ mappings \in [Mappings -> MappingRow]
    /\ ids \in Ids
    /\ edited \in [Clients -> Edited]
    /\ told \in [Clients -> Secrets]
    /\ edit \in [Editors -> Edit]

-----------------------------------------------------------------------------
ScopeExists(s) == scopes[s] # 0

RowsOf(c) == {row \in clientScopes : row.client = c}
NewRows(c, names) == {[client |-> c, scope |-> s, by |-> ids + 1] : s \in names}

MappedTo(s) == \E m \in Mappings : Live(mappings, m) /\ mappings[m].columns.scope = s

\* Mutant: only the mappings are looked at.
AssignedToNone(s) == FALSE
\* The second half of _is_scope_referenced.
Assigned(s) == \E row \in clientScopes : row.scope = s

\* Mutant: the foreign key on oidc_scopes is missing.
MayReferAnything(names) == TRUE
\* The foreign keys of oidc_client_scopes and oidc_claim_mappings.
MayRefer(names) == \A s \in names : ScopeExists(s)

\* The rows that another handler has deleted but not yet committed.
Locked(t) ==
    UNION {edit[u].doomed : u \in {v \in Editors \ {t} : edit[v].pc = "commit"}}

Begin(t, q) == edit[t].pc = "idle" /\ edit' = [edit EXCEPT ![t] = q]
End(t) == edit' = [edit EXCEPT ![t] = Idle]
DrawId == ids < MaxIds /\ ids' = ids + 1

-----------------------------------------------------------------------------
(* Scopes.                                                                  *)

\* create_scope: the name is looked up.
CreateScope(t, s) ==
    /\ ~ScopeExists(s)
    /\ Begin(t, [pc |-> "insertScope", scope |-> s])
    /\ UNCHANGED <<scopes, clients, clientScopes, mappings, ids, edited, told>>

\* scope_name is unique.
InsertScope(t) ==
    /\ edit[t].pc = "insertScope"
    /\ ~ScopeExists(edit[t].scope)
    /\ DrawId
    /\ scopes' = [scopes EXCEPT ![edit[t].scope] = ids + 1]
    /\ End(t)
    /\ UNCHANGED <<clients, clientScopes, mappings, edited, told>>

\* delete_scope: the scope is loaded, the mappings are searched for it.
DeleteScope(t, s) ==
    /\ ScopeExists(s) /\ s \notin SystemScopes
    /\ ~MappedTo(s)
    /\ Begin(t, [pc |-> "checkClients", scope |-> s, id |-> scopes[s], since |-> ids])
    /\ UNCHANGED <<scopes, clients, clientScopes, mappings, ids, edited, told>>

CheckClients(t) ==
    /\ edit[t].pc = "checkClients"
    /\ edit' = [edit EXCEPT ![t] = IF Assigned(edit[t].scope) THEN Idle
                                   ELSE [edit[t] EXCEPT !.pc = "deleteScope"]]
    /\ UNCHANGED <<scopes, clients, clientScopes, mappings, ids, edited, told>>

\* DELETE by id; it cascades to whatever refers to the scope by now, and waits
\* for rows that others have locked.  A scope that is gone only warns.
DropScope(t) ==
    LET s == edit[t].scope IN
    /\ edit[t].pc = "deleteScope"
    /\ scopes[s] = edit[t].id
    /\ \A row \in Locked(t) : row.scope # s
    /\ scopes' = [scopes EXCEPT ![s] = 0]
    /\ clientScopes' = {row \in clientScopes : row.scope # s}
    /\ mappings' = [m \in Mappings |->
            IF Live(mappings, m) /\ mappings[m].columns.scope = s
            THEN [mappings[m] EXCEPT !.row = "gone"] ELSE mappings[m]]
    /\ edited' = [c \in Clients |-> [edited[c] EXCEPT !.names = @ \ {s}]]
    /\ End(t)
    /\ UNCHANGED <<clients, ids, told>>

DropNothing(t) ==
    /\ edit[t].pc = "deleteScope"
    /\ scopes[edit[t].scope] # edit[t].id
    /\ End(t)
    /\ UNCHANGED <<scopes, clients, clientScopes, mappings, ids, edited, told>>

-----------------------------------------------------------------------------
(* Claim mappings.                                                          *)

CreateMapping(t, new) ==
    /\ ScopeExists(new.scope)
    /\ Begin(t, [pc |-> "insertMapping", new |-> new])
    /\ UNCHANGED <<scopes, clients, clientScopes, mappings, ids, edited, told>>

InsertMapping(t, m) ==
    LET new == edit[t].new IN
    /\ edit[t].pc = "insertMapping"
    /\ mappings[m].row = "never"
    /\ MayRefer({new.scope})
    /\ DrawId
    /\ mappings' = [mappings EXCEPT ![m] = [row |-> "live", columns |-> new, by |-> ids + 1]]
    /\ End(t)
    /\ UNCHANGED <<scopes, clients, clientScopes, edited, told>>

UpdateMapping(t, m, new) ==
    /\ Live(mappings, m)
    /\ ScopeExists(new.scope)
    /\ Begin(t, [pc |-> "updateMapping", mapping |-> m, loaded |-> mappings[m].columns, new |-> new])
    /\ UNCHANGED <<scopes, clients, clientScopes, mappings, ids, edited, told>>

\* Column by column: what the form leaves as it was loaded is not written.
WriteMapping(t) ==
    LET q == edit[t]  now == mappings[q.mapping]
        Col(f) == Column(now.columns[f], q.loaded[f], q.new[f])
        moved == q.new.scope # q.loaded.scope
    IN
    /\ q.pc = "updateMapping"
    /\ Live(mappings, q.mapping)
    /\ moved => MayRefer({q.new.scope})
    /\ DrawId
    /\ mappings' = [mappings EXCEPT ![q.mapping] =
            [row |-> "live",
             columns |-> [scope |-> Col("scope"), claim |-> Col("claim"), source |-> Col("source"),
                          key |-> Col("key"), static |-> Col("static")],
             by |-> IF moved THEN ids + 1 ELSE now.by]]
    /\ End(t)
    /\ UNCHANGED <<scopes, clients, clientScopes, edited, told>>

\* The row is loaded and deleted; that it is gone by then only warns.
DeleteMapping(m) ==
    /\ Live(mappings, m)
    /\ mappings' = [mappings EXCEPT ![m].row = "gone"]
    /\ UNCHANGED <<scopes, clients, clientScopes, ids, edited, told, edit>>

-----------------------------------------------------------------------------
(* Clients.                                                                 *)

\* create_client: client_id is free, the scopes exist.
CreateClient(t, c, names, active) ==
    /\ clients[c].row = "never"
    /\ names # {} /\ \A s \in names : ScopeExists(s)
    /\ Begin(t, [pc |-> "insertClient", client |-> c, names |-> names, active |-> active])
    /\ UNCHANGED <<scopes, clients, clientScopes, mappings, ids, edited, told>>

InsertClient(t) ==
    LET q == edit[t] IN
    /\ q.pc = "insertClient"
    /\ clients[q.client].row = "never"
    /\ MayRefer(q.names)
    /\ DrawId
    /\ clients' = [clients EXCEPT ![q.client] =
            [row |-> "live", columns |-> [active |-> q.active, secret |-> 1]]]
    /\ clientScopes' = clientScopes \cup NewRows(q.client, q.names)
    /\ edited' = [edited EXCEPT ![q.client] = [names |-> q.names, exact |-> TRUE]]
    /\ told' = [told EXCEPT ![q.client] = 1]
    /\ End(t)
    /\ UNCHANGED <<scopes, mappings>>

\* update_client: the client is loaded, the scopes exist.
UpdateClient(t, c, names, active) ==
    /\ Live(clients, c)
    /\ names # {} /\ \A s \in names : ScopeExists(s)
    /\ Begin(t, [pc |-> "replace", client |-> c, names |-> names, loaded |-> clients[c].columns,
                 active |-> active, doomed |-> {}, stale |-> FALSE])
    /\ UNCHANGED <<scopes, clients, clientScopes, mappings, ids, edited, told>>

\* Mutant: only the rows that the new list names again are deleted.
DoomedButKept(q) == {row \in RowsOf(q.client) : row.scope \in q.names}
\* The rows that the DELETE of _replace_client_scopes finds.
Doomed(q) == RowsOf(q.client)

\* The DELETE waits when it finds a row that another handler has deleted.
ReplaceScopes(t) ==
    LET q == edit[t] IN
    /\ q.pc = "replace"
    /\ edit' = [edit EXCEPT ![t] =
            [q EXCEPT !.doomed = Doomed(q),
                      !.pc = IF Doomed(q) \cap Locked(t) = {} THEN "commit" ELSE "blocked"]]
    /\ UNCHANGED <<scopes, clients, clientScopes, mappings, ids, edited, told>>

\* It goes on with the rows that are left of those that it had found: rows
\* committed in the meantime are not among them.
Unblock(t) ==
    LET q == edit[t] IN
    /\ q.pc = "blocked"
    /\ q.doomed \cap Locked(t) = {}
    /\ edit' = [edit EXCEPT ![t] = [q EXCEPT !.pc = "commit", !.doomed = @ \cap clientScopes]]
    /\ UNCHANGED <<scopes, clients, clientScopes, mappings, ids, edited, told>>

\* UPDATE of the client, INSERT of the new rows, COMMIT.
CommitClient(t) ==
    LET q == edit[t] IN
    /\ q.pc = "commit"
    /\ MayRefer(q.names)
    /\ DrawId
    /\ clients' = [clients EXCEPT ![q.client].columns =
            [active |-> Column(@.active, q.loaded.active, q.active),
             secret |-> Column(@.secret, q.loaded.secret, q.loaded.secret)]]
    /\ clientScopes' = (clientScopes \ q.doomed) \cup NewRows(q.client, q.names)
    /\ edited' = [edited EXCEPT ![q.client] = [names |-> q.names, exact |-> ~q.stale]]
    /\ edit' = [u \in Editors |->
            IF u = t THEN Idle
            ELSE IF edit[u].pc \in {"blocked", "commit"} /\ edit[u].client = q.client
            THEN [edit[u] EXCEPT !.stale = TRUE] ELSE edit[u]]
    /\ UNCHANGED <<scopes, mappings, told>>

\* rotate_client_secret: the new secret differs from any that was loaded.
RotateSecret(c) ==
    /\ Live(clients, c)
    /\ told[c] < MaxSecrets
    /\ clients' = [clients EXCEPT ![c].columns.secret = told[c] + 1]
    /\ told' = [told EXCEPT ![c] = @ + 1]
    /\ UNCHANGED <<scopes, clientScopes, mappings, ids, edited, edit>>

SetClientActive(t, c, active) ==
    /\ Live(clients, c)
    /\ Begin(t, [pc |-> "activate", client |-> c, loaded |-> clients[c].columns, active |-> active])
    /\ UNCHANGED <<scopes, clients, clientScopes, mappings, ids, edited, told>>

CommitActive(t) ==
    LET q == edit[t] IN
    /\ q.pc = "activate"
    /\ clients' = [clients EXCEPT ![q.client].columns =
            [active |-> Column(@.active, q.loaded.active, q.active),
             secret |-> Column(@.secret, q.loaded.secret, q.loaded.secret)]]
    /\ End(t)
    /\ UNCHANGED <<scopes, clientScopes, mappings, ids, edited, told>>

\* The transaction is rolled back: a constraint refuses it, the row of an
\* UPDATE is gone, PostgreSQL breaks a deadlock, the connection or the server
\* is lost.
Abort(t) ==
    /\ edit[t].pc # "idle"
    /\ End(t)
    /\ UNCHANGED <<scopes, clients, clientScopes, mappings, ids, edited, told>>

-----------------------------------------------------------------------------
\* Scopes of its own may be in the database when the service starts.
OidcAdminInit ==
    /\ scopes \in {[s \in Scopes |-> IF s \in known THEN 1 ELSE 0] :
                    known \in {names \in SUBSET Scopes : SystemScopes \subseteq names}}
    /\ clients = [c \in Clients |-> [row |-> "never", columns |-> [active |-> FALSE, secret |-> 0]]]
    /\ clientScopes = {}
    /\ mappings = [m \in Mappings |-> [row |-> "never", columns |-> None, by |-> 0]]
    /\ ids = 1
    /\ edited = [c \in Clients |-> [names |-> {}, exact |-> TRUE]]
    /\ told = [c \in Clients |-> 0]
    /\ edit = [t \in Editors |-> Idle]

Request(t) ==
    \/ \E s \in Scopes : CreateScope(t, s) \/ DeleteScope(t, s)
    \/ \E new \in MappingForms :
        CreateMapping(t, new) \/ \E m \in Mappings : UpdateMapping(t, m, new)
    \/ \E c \in Clients, active \in BOOLEAN :
        \/ \E names \in SUBSET Scopes :
            CreateClient(t, c, names, active) \/ UpdateClient(t, c, names, active)
        \/ SetClientActive(t, c, active)

Proceed(t) ==
    \/ InsertScope(t)
    \/ CheckClients(t) \/ DropScope(t) \/ DropNothing(t)
    \/ \E m \in Mappings : InsertMapping(t, m)
    \/ WriteMapping(t)
    \/ InsertClient(t)
    \/ ReplaceScopes(t) \/ Unblock(t) \/ CommitClient(t)
    \/ CommitActive(t)
    \/ Abort(t)

OidcAdminNext ==
    \/ \E t \in Editors : Request(t) \/ Proceed(t)
    \/ \E m \in Mappings : DeleteMapping(m)
    \/ \E c \in Clients : RotateSecret(c)

OidcAdminSpec == OidcAdminInit /\ [][OidcAdminNext]_oidcVars

-----------------------------------------------------------------------------
(* Properties.                                                              *)

\* A client or a mapping refers to scopes that exist, whichever handler was
\* between its check and its write when a scope was deleted.
ReferencesExist ==
    /\ \A row \in clientScopes : ScopeExists(row.scope)
    /\ \A m \in Mappings : Live(mappings, m) => ScopeExists(mappings[m].columns.scope)

\* _replace_client_scopes: "deletes all existing scope settings of the client
\* and registers the new list".  The scopes of the list are there as long as
\* they exist; and there are no others, unless two lists were written at once.
ScopesOfLastEdit ==
    \A c \in Clients :
        LET held == {row.scope : row \in RowsOf(c)} IN
        /\ edited[c].names \subseteq held
        /\ edited[c].exact => held = edited[c].names

\* The secret that is checked at /token is the one told last: an edit of the
\* client that was loaded before a rotation does not bring the old one back.
SecretAsTold == \A c \in Clients : Live(clients, c) => clients[c].columns.secret = told[c]

\* A client that is off is switched on only by a request that asks for that and
\* had loaded it off: one that loaded it on, an edit of other columns say, does
\* not bring the flag back.  (It need not have seen this deactivation: it may
\* have loaded the client off before it went on and off again.)
SwitchedOnKnowingly ==
    [][\A c \in Clients :
        Live(clients, c) /\ ~clients[c].columns.active /\ clients'[c].columns.active =>
            \E t \in Editors :
                /\ edit[t].pc \in {"commit", "activate"} /\ edit[t].client = c
                /\ ~edit[t].loaded.active /\ edit[t].active
                /\ edit'[t] = Idle]_oidcVars

\* delete_scope: "an error when it is in use".  A scope that is deleted all
\* the same takes only those references with it that were made after the
\* handler began to look for them; a system scope is not deleted.
ScopeInUseStays ==
    [][\A s \in Scopes :
        ScopeExists(s) /\ scopes'[s] = 0 =>
            /\ s \notin SystemScopes
            /\ \E t \in Editors :
                    /\ edit[t].pc = "deleteScope" /\ edit[t].scope = s
                    /\ \A row \in clientScopes : row.scope = s => row.by > edit[t].since
                    /\ \A m \in Mappings : Live(mappings, m) /\ mappings[m].columns.scope = s =>
                            mappings[m].by > edit[t].since]_oidcVars
=============================================================================
