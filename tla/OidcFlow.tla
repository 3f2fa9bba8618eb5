------------------------------ MODULE OidcFlow ------------------------------
(***************************************************************************)
(* The OIDC authorization code flow: /authorize stores a code for a logged *)
(* in user, /token exchanges the code for an access token and a refresh    *)
(* token.                                                                  *)
(*                                                                         *)
(* /authorize is a plain `def`: its handlers run in worker threads.        *)
(* /token is `async def` without a single await, and the server runs one   *)
(* event loop: its handlers run one after another on that loop, while the  *)
(* worker threads interleave with their database statements.               *)
(***************************************************************************)
EXTENDS Naturals, FiniteSets

CONSTANTS
    Users,
    Clients,
    Scopes,
    Uris,         \* redirect URIs that requests name
    Codes,        \* authorization codes, never drawn twice
    Reqs,         \* worker threads
    None,
    MaxTime,      \* bound: seconds that pass
    MayBreak      \* whether the server process, or the connection of one of
                  \* its handlers to the database, is ever lost

ASSUME OidcAssumption ==
    /\ None \notin Users \cup Clients \cup Codes \cup Uris
    /\ MaxTime \in Nat /\ MayBreak \in BOOLEAN

VARIABLES
    users,      \* table users
    clients,    \* tables oidc_clients and oidc_client_scopes
    codes,      \* table oidc_auth_codes
    access,     \* table oidc_access_tokens
    refresh,    \* table oidc_refresh_tokens
    grants,     \* history: the token responses each code has yielded
    turnedAway, \* history: a valid refresh token was sent and turned away
    req,        \* the /authorize handlers in flight
    loop,       \* the /token handler that the event loop runs
    now,        \* int(time.time())
    cut         \* history: the codes whose exchange was cut off after it had
                \* consumed them

tokens == <<access, refresh, grants, turnedAway>>
vars == <<users, clients, codes, access, refresh, grants, turnedAway, req, loop, now, cut>>

-----------------------------------------------------------------------------
Row == {"never", "live", "gone"}
UserRow == [row : Row, status : {"active", "disabled"}]
ClientRow == [active : BOOLEAN, uris : SUBSET Uris, scopes : SUBSET Scopes]
CodeRow == [row : Row, user : Users \cup {None}, client : Clients \cup {None},
            uri : Uris \cup {None}, scope : SUBSET Scopes]

\* The JWT is a function of these claims, and the primary key of its table.
Token == [user : Users, client : Clients, scope : SUBSET Scopes, time : 0..MaxTime]
\* code is history: the code that was exchanged for the token.
AccessRow == [jwt : Token, code : Codes]
RefreshRow == [user : Users, client : Clients, scope : SUBSET Scopes, code : Codes]

Authorizing == [pc : {"idle", "issue"}, user : Users \cup {None},
                client : Clients \cup {None}, uri : Uris \cup {None}, scope : SUBSET Scopes]
NoRequest == [pc |-> "idle", user |-> None, client |-> None, uri |-> None, scope |-> {}]

Exchange == [pc : {"idle", "consume", "sign", "refresh", "access"},
             code : Codes \cup {None}, client : Clients \cup {None}, time : 0..MaxTime]
NoExchange == [pc |-> "idle", code |-> None, client |-> None, time |-> 0]

TypeOK ==
    /\ users \in [Users -> UserRow]
    /\ clients \in [Clients -> ClientRow]
    /\ codes \in [Codes -> CodeRow]
    /\ access \subseteq AccessRow
    /\ refresh \subseteq RefreshRow
    /\ grants \in [Codes -> Nat]
    /\ turnedAway \in BOOLEAN
    /\ req \in [Reqs -> Authorizing]
    /\ loop \in Exchange
    /\ now \in 0..MaxTime
    /\ cut \subseteq Codes

-----------------------------------------------------------------------------
Live(table, id) == table[id].row = "live"

\* read_user accepts the user.
MayAct(u) == Live(users, u) /\ users[u].status = "active"

\* validate_authorize_request.
RequestValid(c, uri, scope) ==
    /\ clients[c].active
    /\ uri \in clients[c].uris
    /\ scope # {} /\ scope \subseteq clients[c].scopes

\* Mutant: the code is looked up without the client_id.
CodeMatchesAnyClient(k, c, uri) == Live(codes, k) /\ codes[k].uri = uri
\* find_auth_code_for_token_exchange and is_redirect_uri_match.
CodeMatches(k, c, uri) == Live(codes, k) /\ codes[k].client = c /\ codes[k].uri = uri

\* Mutant: the token is dated from the next second.
JwtDatedLater(k, c, time) == [user |-> codes[k].user, client |-> c,
                              scope |-> codes[k].scope, time |-> time + 1]
\* The access token that client c gets for code k at a given second.
Jwt(k, c, time) == [user |-> codes[k].user, client |-> c,
                    scope |-> codes[k].scope, time |-> time]

\* Mutant: the user is checked once more.
CanStoreAccessIfActive(k, t) == MayAct(codes[k].user) /\ \A row \in access : row.jwt # t
\* Mutant: the foreign key on users is missing.
CanStoreAccessForAnyone(k, t) == \A row \in access : row.jwt # t
\* store_access_token: the user is loaded again, the token is the primary key.
CanStoreAccess(k, t) == Live(users, codes[k].user) /\ \A row \in access : row.jwt # t

-----------------------------------------------------------------------------
(* GET /authorize.                                                          *)

\* The client is validated, then the user of the session (who is any user
\* that may act).
AuthorizeRead(r, u, c, uri, scope) ==
    /\ req[r].pc = "idle"
    /\ RequestValid(c, uri, scope)
    /\ MayAct(u)
    /\ req' = [req EXCEPT ![r] = [pc |-> "issue", user |-> u, client |-> c,
                                  uri |-> uri, scope |-> scope]]
    /\ UNCHANGED <<users, clients, codes, tokens, loop, now, cut>>

\* issue_auth_code.
IssueCode(r, k) ==
    LET q == req[r] IN
    /\ q.pc = "issue"
    /\ Live(users, q.user)
    /\ codes[k].row = "never"
    /\ codes' = [codes EXCEPT ![k] = [row |-> "live", user |-> q.user, client |-> q.client,
                                      uri |-> q.uri, scope |-> q.scope]]
    /\ req' = [req EXCEPT ![r] = NoRequest]
    /\ UNCHANGED <<users, clients, tokens, loop, now, cut>>

\* The foreign key refuses the INSERT.
IssueRefused(r) ==
    /\ req[r].pc = "issue"
    /\ ~Live(users, req[r].user)
    /\ req' = [req EXCEPT ![r] = NoRequest]
    /\ UNCHANGED <<users, clients, codes, tokens, loop, now, cut>>

-----------------------------------------------------------------------------
(* POST /token with grant_type=authorization_code.                          *)

Step(pc, time) ==
    loop' = [pc |-> pc, code |-> loop.code, client |-> loop.client, time |-> time]
EndExchange == loop' = NoExchange

\* The client is authenticated, the code found, its user accepted.
TokenRead(k, c, uri) ==
    /\ loop.pc = "idle"
    /\ clients[c].active
    /\ CodeMatches(k, c, uri)
    /\ MayAct(codes[k].user)
    /\ loop' = [pc |-> "consume", code |-> k, client |-> c, time |-> 0]
    /\ UNCHANGED <<users, clients, codes, tokens, req, now, cut>>

\* Mutant: the code is kept until it expires.
SpentKept(k) == codes
\* DELETE of the row; that it matches none (the user was deleted) only warns.
Spent(k) == IF Live(codes, k) THEN [codes EXCEPT ![k].row = "gone"] ELSE codes

ConsumeCode ==
    /\ loop.pc = "consume"
    /\ codes' = Spent(loop.code)
    /\ Step("sign", 0)
    /\ UNCHANGED <<users, clients, tokens, req, now, cut>>

\* _build_token_times, and the tokens signed for the user loaded again.
SignTokens ==
    /\ loop.pc = "sign"
    /\ Live(users, codes[loop.code].user)
    /\ Step("refresh", now)
    /\ UNCHANGED <<users, clients, codes, tokens, req, now, cut>>

\* store_refresh_token commits before the access token is stored.
StoreRefresh ==
    LET k == loop.code IN
    /\ loop.pc = "refresh"
    /\ Live(users, codes[k].user)
    /\ refresh' = refresh \cup {[user |-> codes[k].user, client |-> loop.client,
                                 scope |-> codes[k].scope, code |-> k]}
    /\ Step("access", loop.time)
    /\ UNCHANGED <<users, clients, codes, access, grants, turnedAway, req, now, cut>>

\* store_access_token, and the answer.
StoreAccess ==
    LET k == loop.code  t == Jwt(k, loop.client, loop.time) IN
    /\ loop.pc = "access"
    /\ CanStoreAccess(k, t)
    /\ access' = access \cup {[jwt |-> t, code |-> k]}
    /\ grants' = [grants EXCEPT ![k] = @ + 1]
    /\ EndExchange
    /\ UNCHANGED <<users, clients, codes, refresh, turnedAway, req, now, cut>>

\* The user is gone, or the same token was signed in the same second: an
\* error, after the code is consumed.
ExchangeFails ==
    LET k == loop.code IN
    /\ \/ loop.pc \in {"sign", "refresh"} /\ ~Live(users, codes[k].user)
       \/ loop.pc = "access" /\ ~CanStoreAccess(k, Jwt(k, loop.client, loop.time))
    /\ EndExchange
    /\ UNCHANGED <<users, clients, codes, tokens, req, now, cut>>

\* POST /token with grant_type=refresh_token: the form field refresh_token is
\* not passed on to TokenRequest, so that the grant finds it missing and
\* answers invalid_request.  The history keeps that the token was valid.
RefreshRequest(row, c) ==
    /\ loop.pc = "idle"
    /\ row \in refresh
    /\ clients[c].active /\ row.client = c /\ MayAct(row.user)
    /\ turnedAway' = TRUE
    /\ UNCHANGED <<users, clients, codes, access, refresh, grants, req, loop, now, cut>>

-----------------------------------------------------------------------------
(* Administration, time and crashes.                                        *)

\* delete_user cascades to codes, access tokens and refresh tokens.
DeleteUser(u) ==
    /\ Live(users, u)
    /\ users' = [users EXCEPT ![u].row = "gone"]
    /\ codes' = [k \in Codes |->
            IF Live(codes, k) /\ codes[k].user = u THEN [codes[k] EXCEPT !.row = "gone"]
            ELSE codes[k]]
    /\ access' = {row \in access : row.jwt.user # u}
    /\ refresh' = {row \in refresh : row.user # u}
    /\ UNCHANGED <<clients, grants, turnedAway, req, loop, now, cut>>

\* External: by hand in the database.
DisableUser(u) ==
    /\ Live(users, u) /\ users[u].status = "active"
    /\ users' = [users EXCEPT ![u].status = "disabled"]
    /\ UNCHANGED <<clients, codes, tokens, req, loop, now, cut>>

\* update_client and set_client_active.  Redirect URIs must not be empty, the
\* scopes may be gone with delete_scope.  Codes and tokens are left alone.
UpdateClient(c, row) ==
    /\ clients[c] # row
    /\ row.uris # {}
    /\ clients' = [clients EXCEPT ![c] = row]
    /\ UNCHANGED <<users, codes, tokens, req, loop, now, cut>>

Tick ==
    /\ now < MaxTime
    /\ now' = now + 1
    /\ UNCHANGED <<users, clients, codes, tokens, req, loop, cut>>

\* The next statement or commit of a handler fails for a reason outside of the
\* tables, a lost connection: what it has committed before stays.
AuthorizeCut(r) ==
    /\ MayBreak
    /\ req[r].pc # "idle"
    /\ req' = [req EXCEPT ![r] = NoRequest]
    /\ UNCHANGED <<users, clients, codes, tokens, loop, now, cut>>

\* The code that an exchange has consumed.
Consumed == IF loop.pc \in {"idle", "consume"} THEN {} ELSE {loop.code}

ExchangeCut ==
    /\ MayBreak
    /\ loop.pc # "idle"
    /\ cut' = cut \cup Consumed
    /\ EndExchange
    /\ UNCHANGED <<users, clients, codes, tokens, req, now>>

\* The server restarts: the handlers in flight are lost.
Restart ==
    /\ MayBreak
    /\ req' = [r \in Reqs |-> NoRequest]
    /\ cut' = cut \cup Consumed
    /\ EndExchange
    /\ UNCHANGED <<users, clients, codes, tokens, now>>

-----------------------------------------------------------------------------
Init ==
    /\ users = [u \in Users |-> [row |-> "live", status |-> "active"]]
    /\ clients = [c \in Clients |-> [active |-> TRUE, uris |-> Uris, scopes |-> Scopes]]
    /\ codes = [k \in Codes |-> [row |-> "never", user |-> None, client |-> None,
                                 uri |-> None, scope |-> {}]]
    /\ access = {} /\ refresh = {}
    /\ grants = [k \in Codes |-> 0]
    /\ turnedAway = FALSE
    /\ req = [r \in Reqs |-> NoRequest]
    /\ loop = NoExchange
    /\ now = 0
    /\ cut = {}

Authorize ==
    \E r \in Reqs :
        \/ \E u \in Users, c \in Clients, uri \in Uris, scope \in SUBSET Scopes :
               AuthorizeRead(r, u, c, uri, scope)
        \/ \E k \in Codes : IssueCode(r, k)
        \/ IssueRefused(r)

\* The steps that the event loop takes by itself.
AdvanceExchange == ConsumeCode \/ SignTokens \/ StoreRefresh \/ StoreAccess \/ ExchangeFails

Exchanges ==
    \/ \E k \in Codes, c \in Clients, uri \in Uris : TokenRead(k, c, uri)
    \/ AdvanceExchange
    \/ \E row \in refresh, c \in Clients : RefreshRequest(row, c)

Environment ==
    \/ \E u \in Users : DeleteUser(u) \/ DisableUser(u)
    \/ \E c \in Clients, row \in ClientRow : UpdateClient(c, row)
    \/ (\E r \in Reqs : AuthorizeCut(r)) \/ ExchangeCut
    \/ Tick \/ Restart

Next == Authorize \/ Exchanges \/ Environment

Spec == Init /\ [][Next]_vars

\* The event loop finishes the handler it has started.
FairSpec == Spec /\ WF_vars(AdvanceExchange)

-----------------------------------------------------------------------------
(* Properties.                                                              *)

\* An access token carries the user, client and scope of a code that was
\* consumed for it, also of the client that the code was issued to, and no two
\* tokens come from the same code.
TokensTraceable ==
    \A row \in access :
        LET k == row.code IN
        /\ codes[k].row = "gone"
        /\ row.jwt = Jwt(k, codes[k].client, row.jwt.time)
        /\ \A other \in access : other.code = k => other = row

\* No code or token refers to a deleted user, whatever exchange was under way.
NoOrphanTokens ==
    /\ \A k \in Codes : Live(codes, k) => Live(users, codes[k].user)
    /\ \A row \in access : Live(users, row.jwt.user)
    /\ \A row \in refresh : Live(users, row.user)

\* The same claims signed in the same second for another code.
Collides(k) ==
    codes[k].row # "never" /\ \E row \in access : row.code # k /\ row.jwt = Jwt(k, codes[k].client, row.jwt.time)

OwnerGone(k) == codes[k].row # "never" /\ ~Live(users, codes[k].user)

\* A code that was consumed without yielding tokens is accounted for: its user
\* was deleted, a restart or a lost connection cut its exchange off, or another
\* code of the same user, client and scope was exchanged in the same second.
\* A disabled user or a client changed half way is no reason to lose it.
LostCodesExplained ==
    \A k \in Codes : codes[k].row = "gone" /\ grants[k] = 0 /\ loop.code # k =>
        OwnerGone(k) \/ Collides(k) \/ k \in cut

\* An exchange that has consumed its code comes to an end with tokens, under
\* the same exceptions.
ConsumedCodeYields ==
    \A k \in Codes :
        codes[k].row = "gone" ~> grants[k] = 1 \/ OwnerGone(k) \/ Collides(k) \/ k \in cut

\* token(): the form input goes through the schema "so that the input
\* specification agrees between API and code": the grant sees the refresh
\* token that was sent, and a valid one is not turned away.
RefreshTokensServed == ~turnedAway

Phase == [k \in Codes |-> CASE codes[k].row = "never" -> "new"
                            [] codes[k].row = "live" -> "open"
                            [] codes[k].row = "gone" -> "spent"]
OneShot == INSTANCE OneShotGrant WITH phase <- Phase

\* The flow implements the one-shot grant: a code yields tokens once at most.
GrantsOnce == OneShot!Spec
=============================================================================
