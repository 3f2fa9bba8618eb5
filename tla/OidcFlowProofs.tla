--------------------------- MODULE OidcFlowProofs ---------------------------
(***************************************************************************)
(* Proofs about OidcFlow, for any number of users, clients, codes and      *)
(* worker threads, and that it implements OneShotGrant.                    *)
(***************************************************************************)
EXTENDS OidcFlow, TLAPS

\* Codes that were issued have an owner and a client.
CodesRooted ==
    \A k \in Codes : codes[k].row # "never"
        => codes[k].user \in Users /\ codes[k].client \in Clients

\* An /authorize handler about to store a code knows its owner and client.
AuthorizingOK ==
    \A r \in Reqs : req[r].pc = "issue" => req[r].user \in Users /\ req[r].client \in Clients

\* k has yielded nothing.
Unused(k) == grants[k] = 0 /\ \A row \in access : row.code # k

\* Only consumed codes have yielded tokens.
UnspentUnused == \A k \in Codes : codes[k].row # "gone" => Unused(k)

\* The exchange under way: its code is that of its client, has yielded
\* nothing, and is gone once it is consumed; before, only with its user.
ExchangeOK ==
    /\ loop.pc = "idle" => loop.code = None
    /\ loop.pc # "idle" =>
         /\ loop.code \in Codes
         /\ codes[loop.code].row # "never"
         /\ loop.client = codes[loop.code].client
         /\ Unused(loop.code)
         /\ loop.pc # "consume" => codes[loop.code].row = "gone"
         /\ loop.pc = "consume" /\ codes[loop.code].row = "gone" => OwnerGone(loop.code)

IInv ==
    /\ TypeOK
    /\ CodesRooted /\ AuthorizingOK /\ UnspentUnused /\ ExchangeOK
    /\ TokensTraceable /\ NoOrphanTokens /\ LostCodesExplained

-----------------------------------------------------------------------------
\* The first state is well typed.
LEMMA TypeInit == Init => TypeOK
<1> SUFFICES ASSUME Init PROVE TypeOK
  OBVIOUS
<1> USE OidcAssumption DEF Init
<1>1. users \in [Users -> UserRow] /\ clients \in [Clients -> ClientRow]
  BY DEF UserRow, Row, ClientRow
<1>2. codes \in [Codes -> CodeRow] /\ grants \in [Codes -> Nat]
  BY DEF CodeRow, Row
<1>3. req \in [Reqs -> Authorizing] /\ loop \in Exchange
  BY DEF Authorizing, NoRequest, Exchange, NoExchange
<1>4. now \in 0..MaxTime
  OBVIOUS
<1>5. turnedAway \in BOOLEAN
  OBVIOUS
<1> QED
  BY <1>1, <1>2, <1>3, <1>4, <1>5 DEF TypeOK

\* No step leaves the types: a token is built from the columns of an issued code.
LEMMA TypeStep == TypeOK /\ CodesRooted /\ ExchangeOK /\ [Next]_vars => TypeOK'
<1> SUFFICES ASSUME TypeOK, CodesRooted, ExchangeOK, [Next]_vars PROVE TypeOK'
  OBVIOUS
<1> USE OidcAssumption DEF TypeOK, tokens
<1>1. NoRequest \in Authorizing /\ NoExchange \in Exchange
  BY DEF NoRequest, Authorizing, NoExchange, Exchange
<1>2. ASSUME NEW r \in Reqs, NEW u \in Users, NEW c \in Clients, NEW uri \in Uris,
             NEW scope \in SUBSET Scopes, AuthorizeRead(r, u, c, uri, scope)
      PROVE  TypeOK'
  <2>1. req' \in [Reqs -> Authorizing]
    BY <1>2 DEF AuthorizeRead, Authorizing
  <2> QED
    BY <1>2, <2>1 DEF AuthorizeRead
<1>3. ASSUME NEW r \in Reqs, NEW k \in Codes, IssueCode(r, k) PROVE TypeOK'
  <2>1. req[r] \in Authorizing
    OBVIOUS
  <2>2. [row |-> "live", user |-> req[r].user, client |-> req[r].client,
         uri |-> req[r].uri, scope |-> req[r].scope] \in CodeRow
    BY <2>1 DEF Authorizing, CodeRow, Row
  <2>3. codes' \in [Codes -> CodeRow] /\ req' \in [Reqs -> Authorizing]
    BY <1>1, <1>3, <2>2 DEF IssueCode
  <2> QED
    BY <1>3, <2>3 DEF IssueCode
<1>4. ASSUME NEW r \in Reqs, IssueRefused(r) PROVE TypeOK'
  <2>1. req' \in [Reqs -> Authorizing]
    BY <1>1, <1>4 DEF IssueRefused
  <2> QED
    BY <1>4, <2>1 DEF IssueRefused
<1>5. ASSUME NEW k \in Codes, NEW c \in Clients, NEW uri \in Uris, TokenRead(k, c, uri)
      PROVE  TypeOK'
  <2>1. loop' \in Exchange
    BY <1>5 DEF TokenRead, Exchange
  <2> QED
    BY <1>5, <2>1 DEF TokenRead
<1>6. CASE ConsumeCode
  <2>1. loop' \in Exchange
    BY <1>6 DEF ConsumeCode, Step, Exchange
  <2>2. \A x \in CodeRow : [x EXCEPT !.row = "gone"] \in CodeRow
    BY DEF CodeRow, Row
  <2>3. codes' \in [Codes -> CodeRow]
    BY <1>6, <2>2 DEF ConsumeCode, Spent
  <2> QED
    BY <1>6, <2>1, <2>3 DEF ConsumeCode
<1>7. CASE SignTokens
  <2>1. loop' \in Exchange
    BY <1>7 DEF SignTokens, Step, Exchange
  <2> QED
    BY <1>7, <2>1 DEF SignTokens
<1>8. CASE StoreRefresh
  <2>1. [user |-> codes[loop.code].user, client |-> loop.client,
         scope |-> codes[loop.code].scope, code |-> loop.code] \in RefreshRow
    BY <1>8 DEF StoreRefresh, CodesRooted, ExchangeOK, RefreshRow, CodeRow
  <2>2. loop' \in Exchange
    BY <1>8 DEF StoreRefresh, Step, Exchange
  <2>3. refresh' \subseteq RefreshRow
    BY <1>8, <2>1 DEF StoreRefresh
  <2> QED
    BY <1>8, <2>2, <2>3 DEF StoreRefresh
<1>9. CASE StoreAccess
  <2>1. loop.code \in Codes /\ codes[loop.code] \in CodeRow /\ loop.time \in 0..MaxTime
    BY <1>9 DEF StoreAccess, ExchangeOK, Exchange
  <2>2. Jwt(loop.code, loop.client, loop.time) \in Token
    BY <1>9, <2>1 DEF StoreAccess, CodesRooted, ExchangeOK, Jwt, Token, CodeRow
  <2>3. [jwt |-> Jwt(loop.code, loop.client, loop.time), code |-> loop.code] \in AccessRow
    BY <2>1, <2>2 DEF AccessRow
  <2>4. access' \subseteq AccessRow
    BY <1>9, <2>3 DEF StoreAccess
  <2>5. grants' \in [Codes -> Nat]
    BY <1>9, <2>1 DEF StoreAccess
  <2>6. loop' \in Exchange
    BY <1>1, <1>9 DEF StoreAccess, EndExchange
  <2> QED
    BY <1>9, <2>4, <2>5, <2>6 DEF StoreAccess
<1>10. CASE ExchangeFails
  BY <1>1, <1>10 DEF ExchangeFails, EndExchange
<1>11. ASSUME NEW row \in refresh, NEW c \in Clients, RefreshRequest(row, c) PROVE TypeOK'
  BY <1>11 DEF RefreshRequest, RefreshRow
<1>12. ASSUME NEW u \in Users, DeleteUser(u) PROVE TypeOK'
  <2>1. /\ \A x \in CodeRow : [x EXCEPT !.row = "gone"] \in CodeRow
        /\ \A x \in UserRow : [x EXCEPT !.row = "gone"] \in UserRow
    BY DEF CodeRow, UserRow, Row
  <2>2. users' \in [Users -> UserRow]
    BY <1>12, <2>1 DEF DeleteUser
  <2>3. codes' \in [Codes -> CodeRow]
    BY <1>12, <2>1 DEF DeleteUser
  <2> QED
    BY <1>12, <2>2, <2>3 DEF DeleteUser
<1>13. ASSUME NEW u \in Users, DisableUser(u) PROVE TypeOK'
  <2>1. \A x \in UserRow : [x EXCEPT !.status = "disabled"] \in UserRow
    BY DEF UserRow
  <2>2. users' \in [Users -> UserRow]
    BY <1>13, <2>1 DEF DisableUser
  <2> QED
    BY <1>13, <2>2 DEF DisableUser
<1>14. ASSUME NEW c \in Clients, NEW row \in ClientRow, UpdateClient(c, row) PROVE TypeOK'
  BY <1>14 DEF UpdateClient
<1>15. CASE Tick
  BY <1>15 DEF Tick
<1>16. ASSUME Restart \/ ExchangeCut \/ \E r \in Reqs : AuthorizeCut(r) PROVE TypeOK'
  <2>1. Consumed \subseteq Codes
    BY DEF Consumed, ExchangeOK
  <2> QED
    BY <1>1, <1>16, <2>1 DEF Restart, ExchangeCut, AuthorizeCut, EndExchange
<1>17. CASE UNCHANGED vars
  BY <1>17 DEF vars
<1> QED
  BY <1>2, <1>3, <1>4, <1>5, <1>6, <1>7, <1>8, <1>9, <1>10, <1>11, <1>12, <1>13, <1>14, <1>15,
     <1>16, <1>17
  DEF Next, Authorize, Exchanges, AdvanceExchange, Environment

-----------------------------------------------------------------------------
(* The steps that touch codes, tokens or users; all others leave them.       *)

\* What IssueCode, the exchange, DeleteUser and DisableUser change is all that
\* ever changes of users, codes, access tokens and grants.
Untouched == UNCHANGED <<users, codes, access, refresh, grants>>

\* Every step is one of those six or leaves the tables alone.
LEMMA StepKinds ==
    ASSUME [Next]_vars
    PROVE  \/ \E r \in Reqs, k \in Codes : IssueCode(r, k)
           \/ ConsumeCode \/ StoreRefresh \/ StoreAccess
           \/ \E u \in Users : DeleteUser(u) \/ DisableUser(u)
           \/ Untouched
BY DEF Next, Authorize, Exchanges, AdvanceExchange, Environment, AuthorizeRead, IssueRefused,
   TokenRead, SignTokens, ExchangeFails, RefreshRequest, UpdateClient, Tick, Restart,
   AuthorizeCut, ExchangeCut, vars, tokens, Untouched

\* An /authorize handler keeps what it has read until it stores the code.
LEMMA AuthorizingStep == TypeOK /\ AuthorizingOK /\ [Next]_vars => AuthorizingOK'
<1> SUFFICES ASSUME TypeOK, AuthorizingOK, [Next]_vars PROVE AuthorizingOK'
  OBVIOUS
<1> USE DEF TypeOK, AuthorizingOK, NoRequest
<1>1. ASSUME NEW r \in Reqs, NEW u \in Users, NEW c \in Clients, NEW uri \in Uris,
             NEW scope \in SUBSET Scopes, AuthorizeRead(r, u, c, uri, scope)
      PROVE  AuthorizingOK'
  BY <1>1 DEF AuthorizeRead
<1>2. ASSUME NEW r \in Reqs, IssueRefused(r) \/ \E k \in Codes : IssueCode(r, k)
      PROVE  AuthorizingOK'
  BY <1>2 DEF IssueCode, IssueRefused
<1>3. CASE Exchanges
  BY <1>3 DEF Exchanges, AdvanceExchange, TokenRead, ConsumeCode, SignTokens, StoreRefresh,
     StoreAccess, ExchangeFails, RefreshRequest
<1>4. CASE Environment
  BY <1>4 DEF Environment, DeleteUser, DisableUser, UpdateClient, Tick, Restart, AuthorizeCut,
     ExchangeCut
<1>5. CASE UNCHANGED vars
  BY <1>5 DEF vars
<1> QED
  BY <1>1, <1>2, <1>3, <1>4, <1>5 DEF Next, Authorize

\* Only IssueCode gives a code its columns, from what the handler has read.
LEMMA CodesStep ==
    TypeOK /\ AuthorizingOK /\ CodesRooted /\ [Next]_vars => CodesRooted'
<1> SUFFICES ASSUME TypeOK, AuthorizingOK, CodesRooted, [Next]_vars PROVE CodesRooted'
  OBVIOUS
<1> USE DEF TypeOK, CodesRooted
<1>1. ASSUME NEW r \in Reqs, NEW k \in Codes, IssueCode(r, k) PROVE CodesRooted'
  BY <1>1 DEF IssueCode, AuthorizingOK
<1>2. CASE ConsumeCode
  BY <1>2 DEF ConsumeCode, Spent, Live, CodeRow
<1>3. ASSUME NEW u \in Users, DeleteUser(u) PROVE CodesRooted'
  BY <1>3 DEF DeleteUser, Live, CodeRow
<1>4. CASE StoreRefresh \/ StoreAccess \/ Untouched \/ \E u \in Users : DisableUser(u)
  BY <1>4 DEF StoreRefresh, StoreAccess, Untouched, DisableUser
<1> QED
  BY <1>1, <1>2, <1>3, <1>4, StepKinds

\* A code that is still to be spent has yielded nothing, whoever else is served.
LEMMA UnspentStep ==
    TypeOK /\ ExchangeOK /\ UnspentUnused /\ [Next]_vars => UnspentUnused'
<1> SUFFICES ASSUME TypeOK, ExchangeOK, UnspentUnused, [Next]_vars PROVE UnspentUnused'
  OBVIOUS
<1> USE DEF TypeOK, UnspentUnused, Unused
<1>1. ASSUME NEW r \in Reqs, NEW k \in Codes, IssueCode(r, k) PROVE UnspentUnused'
  BY <1>1 DEF IssueCode, tokens
<1>2. CASE ConsumeCode
  BY <1>2 DEF ConsumeCode, Spent, Live, CodeRow, tokens
<1>3. ASSUME NEW u \in Users, DeleteUser(u) PROVE UnspentUnused'
  BY <1>3 DEF DeleteUser, Live, CodeRow
<1>4. CASE StoreAccess
  <2>1. codes[loop.code].row = "gone"
    BY <1>4 DEF StoreAccess, ExchangeOK
  <2> QED
    BY <1>4, <2>1 DEF StoreAccess
<1>5. CASE StoreRefresh \/ Untouched \/ \E u \in Users : DisableUser(u)
  BY <1>5 DEF StoreRefresh, Untouched, DisableUser, tokens
<1> QED
  BY <1>1, <1>2, <1>3, <1>4, <1>5, StepKinds

-----------------------------------------------------------------------------
\* The exchange under way keeps its code to itself: the event loop runs no
\* other one, and nothing brings a row back.
LEMMA ExchangeStep ==
    TypeOK /\ UnspentUnused /\ ExchangeOK /\ [Next]_vars => ExchangeOK'
<1> SUFFICES ASSUME TypeOK, UnspentUnused, ExchangeOK, [Next]_vars PROVE ExchangeOK'
  OBVIOUS
<1> USE OidcAssumption DEF TypeOK, ExchangeOK, Unused, OwnerGone
<1>1. ASSUME NEW r \in Reqs, NEW k \in Codes, IssueCode(r, k) PROVE ExchangeOK'
  BY <1>1 DEF IssueCode, tokens
<1>2. ASSUME NEW k \in Codes, NEW c \in Clients, NEW uri \in Uris, TokenRead(k, c, uri)
      PROVE  ExchangeOK'
  BY <1>2 DEF TokenRead, CodeMatches, Live, UnspentUnused, tokens
<1>3. CASE ConsumeCode
  <2>1. codes'[loop.code].row = "gone" /\ codes'[loop.code].client = codes[loop.code].client
    BY <1>3 DEF ConsumeCode, Spent, Live, CodeRow, Row
  <2> QED
    BY <1>3, <2>1 DEF ConsumeCode, Step, tokens
<1>4. CASE SignTokens \/ StoreRefresh
  BY <1>4 DEF SignTokens, StoreRefresh, Step, tokens
<1>5. CASE StoreAccess \/ ExchangeFails \/ Restart \/ ExchangeCut
  BY <1>5 DEF StoreAccess, ExchangeFails, Restart, ExchangeCut, EndExchange, NoExchange
<1>6. ASSUME NEW u \in Users, DeleteUser(u) PROVE ExchangeOK'
  BY <1>6 DEF DeleteUser, Live, CodeRow, UserRow
<1>7. ASSUME NEW u \in Users, DisableUser(u) PROVE ExchangeOK'
  BY <1>7 DEF DisableUser, Live, CodeRow, UserRow, tokens
<1>8. CASE UNCHANGED <<users, codes, access, grants, loop>>
  BY <1>8 DEF Live
<1> QED
  BY <1>1, <1>2, <1>3, <1>4, <1>5, <1>6, <1>7, <1>8
  DEF Next, Authorize, Exchanges, AdvanceExchange, Environment, AuthorizeRead, IssueRefused,
      RefreshRequest, UpdateClient, Tick, AuthorizeCut, vars, tokens

\* A new access token comes from the code of the exchange, which had none; codes
\* that tokens come from are gone and never change again.
LEMMA TraceableStep ==
    TypeOK /\ ExchangeOK /\ TokensTraceable /\ [Next]_vars => TokensTraceable'
<1> SUFFICES ASSUME TypeOK, ExchangeOK, TokensTraceable, [Next]_vars PROVE TokensTraceable'
  OBVIOUS
<1> USE DEF TypeOK, TokensTraceable, Jwt, AccessRow
<1>1. ASSUME NEW r \in Reqs, NEW k \in Codes, IssueCode(r, k) PROVE TokensTraceable'
  BY <1>1 DEF IssueCode, tokens
<1>2. CASE ConsumeCode
  BY <1>2 DEF ConsumeCode, Spent, Live, tokens
<1>3. ASSUME NEW u \in Users, DeleteUser(u) PROVE TokensTraceable'
  BY <1>3 DEF DeleteUser, Live
<1>4. CASE StoreAccess
  BY <1>4 DEF StoreAccess, ExchangeOK, Unused
<1>5. CASE StoreRefresh \/ Untouched \/ \E u \in Users : DisableUser(u)
  BY <1>5 DEF StoreRefresh, Untouched, DisableUser, tokens
<1> QED
  BY <1>1, <1>2, <1>3, <1>4, <1>5, StepKinds

\* Whatever refers to a user is stored while the user is there, and goes with it.
LEMMA OrphanStep ==
    TypeOK /\ CodesRooted /\ ExchangeOK /\ NoOrphanTokens /\ [Next]_vars => NoOrphanTokens'
<1> SUFFICES ASSUME TypeOK, CodesRooted, ExchangeOK, NoOrphanTokens, [Next]_vars
             PROVE  NoOrphanTokens'
  OBVIOUS
<1> USE DEF TypeOK, NoOrphanTokens, Live, AccessRow, RefreshRow, Token
<1>1. ASSUME NEW r \in Reqs, NEW k \in Codes, IssueCode(r, k) PROVE NoOrphanTokens'
  BY <1>1 DEF IssueCode, tokens
<1>2. CASE ConsumeCode
  BY <1>2 DEF ConsumeCode, Spent, tokens, CodeRow
<1>3. CASE StoreRefresh
  BY <1>3 DEF StoreRefresh
<1>4. CASE StoreAccess
  BY <1>4 DEF StoreAccess, CanStoreAccess, Jwt
<1>5. ASSUME NEW u \in Users, DeleteUser(u) PROVE NoOrphanTokens'
  BY <1>5 DEF DeleteUser, CodeRow, CodesRooted
<1>6. ASSUME NEW u \in Users, DisableUser(u) PROVE NoOrphanTokens'
  BY <1>6 DEF DisableUser, UserRow, tokens, CodesRooted
<1>7. CASE Untouched
  BY <1>7 DEF Untouched
<1> QED
  BY <1>1, <1>2, <1>3, <1>4, <1>5, <1>6, <1>7, StepKinds

\* What explains the loss of code k.
Explained(k) == OwnerGone(k) \/ Collides(k) \/ k \in cut

\* An explanation is never taken back: a deleted user stays deleted, and a
\* colliding token goes only together with the user that both codes have.
LEMMA ExplanationStays ==
    ASSUME TypeOK, CodesRooted, [Next]_vars, NEW k \in Codes, codes[k].row = "gone", Explained(k)
    PROVE  Explained(k)'
<1> USE DEF TypeOK, Explained, OwnerGone, Collides, Live, Jwt
<1>1. codes'[k] = codes[k]
  <2>1. CASE ConsumeCode
    BY <2>1 DEF ConsumeCode, Spent, CodeRow, Row
  <2> QED
    BY <2>1, StepKinds DEF IssueCode, StoreRefresh, StoreAccess, DeleteUser, DisableUser, Untouched
<1>2. CASE OwnerGone(k)
  <2>1. codes[k].user \in Users
    BY DEF CodesRooted
  <2>2. ~Live(users', codes[k].user)
    BY <1>2, <2>1, StepKinds DEF IssueCode, ConsumeCode, StoreRefresh, StoreAccess, DeleteUser,
       DisableUser, Untouched, UserRow
  <2> QED
    BY <1>1, <2>2
<1>3. CASE Collides(k)
  <2>1. PICK row \in access : row.code # k /\ row.jwt = Jwt(k, codes[k].client, row.jwt.time)
    BY <1>3
  <2>2. CASE row \in access'
    BY <1>1, <2>1, <2>2
  <2>3. CASE row \notin access'
    <3>1. PICK u \in Users : DeleteUser(u)
      BY <2>1, <2>3, StepKinds DEF IssueCode, ConsumeCode, StoreRefresh, StoreAccess,
         DisableUser, Untouched, tokens
    <3>2. codes[k].user = u
      BY <2>1, <2>3, <3>1 DEF DeleteUser
    <3>3. ~Live(users', codes[k].user)
      BY <3>1, <3>2 DEF DeleteUser, UserRow
    <3> QED
      BY <1>1, <3>3
  <2> QED
    BY <2>2, <2>3
<1>4. CASE k \in cut
  <2>1. k \in cut'
    BY <1>4 DEF Next, Authorize, Exchanges, AdvanceExchange, Environment,
       AuthorizeRead, IssueCode, IssueRefused, TokenRead, ConsumeCode, SignTokens, StoreRefresh,
       StoreAccess, ExchangeFails, RefreshRequest, DeleteUser, DisableUser, UpdateClient, Tick,
       Restart, AuthorizeCut, ExchangeCut, vars
  <2> QED
    BY <2>1
<1> QED
  BY <1>2, <1>3, <1>4

\* An exchange whose code is gone ends with tokens or with an explanation.
LEMMA ExchangeEnds ==
    ASSUME TypeOK, CodesRooted, ExchangeOK, [Next]_vars, loop.pc # "idle", loop' # loop,
           loop'.pc = "idle", NEW k \in Codes, loop.code = k, codes[k].row = "gone"
    PROVE  grants'[k] # 0 \/ Explained(k)'
<1> USE OidcAssumption DEF TypeOK, ExchangeOK
<1>1. CASE StoreAccess
  BY <1>1 DEF StoreAccess
<1>2. CASE ExchangeFails
  <2>1. CASE ~Live(users, codes[k].user)
    BY <1>2, <2>1 DEF ExchangeFails, Explained, OwnerGone, Live
  <2>2. CASE \E row \in access : row.jwt = Jwt(k, loop.client, loop.time)
    <3>1. PICK row \in access : row.jwt = Jwt(k, loop.client, loop.time)
      BY <2>2
    <3>2. row.jwt = Jwt(k, codes[k].client, row.jwt.time) /\ row.code # k
      BY <3>1 DEF Jwt, Unused
    <3> QED
      BY <1>2, <3>2 DEF ExchangeFails, Explained, Collides, Jwt, tokens
  <2> QED
    BY <1>2, <2>1, <2>2 DEF ExchangeFails, CanStoreAccess
<1>3. CASE Restart \/ ExchangeCut
  <2>1. CASE loop.pc = "consume"
    BY <1>3, <2>1 DEF Restart, ExchangeCut, Explained, OwnerGone, Live
  <2>2. CASE loop.pc # "consume"
    BY <1>3, <2>2 DEF Restart, ExchangeCut, Consumed, Explained
  <2> QED
    BY <2>1, <2>2
<1> QED
  BY <1>1, <1>2, <1>3
  DEF Next, Authorize, Exchanges, AdvanceExchange, Environment, AuthorizeRead, IssueCode,
      IssueRefused, TokenRead, ConsumeCode, SignTokens, StoreRefresh, RefreshRequest, DeleteUser,
      DisableUser, UpdateClient, Tick, AuthorizeCut, Step, vars

\* A code is lost at the end of an exchange or with its user, never else.
LEMMA LostStep ==
    TypeOK /\ CodesRooted /\ ExchangeOK /\ LostCodesExplained /\ [Next]_vars
        => LostCodesExplained'
<1> SUFFICES ASSUME TypeOK, CodesRooted, ExchangeOK, LostCodesExplained, [Next]_vars,
                    NEW k \in Codes, codes'[k].row = "gone", grants'[k] = 0, loop'.code # k
             PROVE  Explained(k)'
  BY DEF LostCodesExplained, Explained
<1> USE DEF TypeOK
<1>1. grants[k] = 0
  <2>1. CASE StoreAccess
    BY <2>1 DEF StoreAccess
  <2> QED
    BY <2>1, StepKinds DEF IssueCode, ConsumeCode, StoreRefresh, DeleteUser, DisableUser,
       Untouched, tokens
<1>2. CASE codes[k].row = "gone" /\ loop.code # k
  <2>1. Explained(k)
    BY <1>1, <1>2 DEF LostCodesExplained, Explained
  <2> QED
    BY <1>2, <2>1, ExplanationStays
<1>3. CASE loop.code = k
  <2>1. loop.pc # "idle" /\ loop' # loop
    BY <1>3, OidcAssumption DEF ExchangeOK
  <2>2. loop'.pc = "idle"
    BY <1>3, <2>1 DEF Next, Authorize, Exchanges, AdvanceExchange, Environment, AuthorizeRead,
       IssueCode, IssueRefused, TokenRead, ConsumeCode, SignTokens, StoreRefresh, StoreAccess,
       ExchangeFails, RefreshRequest, DeleteUser, DisableUser, UpdateClient, Tick, Restart,
       AuthorizeCut, ExchangeCut, Step, EndExchange, NoExchange, vars
  <2>3. codes[k].row = "gone"
    BY <1>3, <2>1, <2>2 DEF Next, Authorize, Exchanges, AdvanceExchange, Environment,
       AuthorizeRead, IssueCode, IssueRefused, TokenRead, ConsumeCode, SignTokens, StoreRefresh,
       StoreAccess, ExchangeFails, RefreshRequest, DeleteUser, DisableUser, UpdateClient, Tick,
       Restart, AuthorizeCut, ExchangeCut, Step, ExchangeOK, vars
  <2> QED
    BY <1>3, <2>1, <2>2, <2>3, ExchangeEnds
<1>4. CASE codes[k].row # "gone" /\ loop.code # k
  <2>1. PICK u \in Users : DeleteUser(u)
    BY <1>4, StepKinds DEF IssueCode, ConsumeCode, Spent, Live, StoreRefresh, StoreAccess,
       DisableUser, Untouched
  <2>2. codes[k].user = u /\ codes'[k].user = u
    BY <1>4, <2>1 DEF DeleteUser, Live, CodeRow
  <2>3. users'[u].row = "gone"
    BY <2>1 DEF DeleteUser, UserRow
  <2> QED
    BY <2>2, <2>3 DEF Explained, OwnerGone, Live
<1> QED
  BY <1>2, <1>3, <1>4

-----------------------------------------------------------------------------
\* The inductive invariant holds at first,
LEMMA InvInit == Init => IInv
<1> SUFFICES ASSUME Init PROVE IInv
  OBVIOUS
<1>1. CodesRooted /\ AuthorizingOK /\ UnspentUnused /\ ExchangeOK
  BY DEF Init, CodesRooted, AuthorizingOK, UnspentUnused, Unused, ExchangeOK, NoRequest, NoExchange
<1>2. TokensTraceable /\ NoOrphanTokens /\ LostCodesExplained
  BY DEF Init, TokensTraceable, NoOrphanTokens, LostCodesExplained, Live
<1> QED
  BY <1>1, <1>2, TypeInit DEF IInv

\* and every step preserves it.
LEMMA InvStep == IInv /\ [Next]_vars => IInv'
BY TypeStep, CodesStep, AuthorizingStep, UnspentStep, ExchangeStep, TraceableStep, OrphanStep,
   LostStep DEF IInv

\* The inductive invariant of the code flow.
THEOREM FlowInvariance == Spec => []IInv
BY InvInit, InvStep, PTL DEF Spec

\* Tables, handlers and the exchange keep their types throughout.
THEOREM FlowTypeCorrect == Spec => []TypeOK
<1>1. IInv => TypeOK
  BY DEF IInv
<1> QED
  BY <1>1, FlowInvariance, PTL

\* Access tokens are those of a consumed code, each code's own, and one only.
THEOREM TokensAreTraceable == Spec => []TokensTraceable
<1>1. IInv => TokensTraceable
  BY DEF IInv
<1> QED
  BY <1>1, FlowInvariance, PTL

\* No code or token outlives its user.
THEOREM NoTokenIsOrphaned == Spec => []NoOrphanTokens
<1>1. IInv => NoOrphanTokens
  BY DEF IInv
<1> QED
  BY <1>1, FlowInvariance, PTL

\* A code that yields nothing is lost for one of the named reasons.
THEOREM LostCodesAreExplained == Spec => []LostCodesExplained
<1>1. IInv => LostCodesExplained
  BY DEF IInv
<1> QED
  BY <1>1, FlowInvariance, PTL

-----------------------------------------------------------------------------
(* OidcFlow implements OneShotGrant.                                        *)

\* Initially every code is new.
LEMMA RefineInit == Init => OneShot!Init
BY DEF Init, OneShot!Init, Phase

\* Any set of codes may be spent at once.
LEMMA SpendIsStep == ASSUME NEW S \in SUBSET Codes, OneShot!Spend(S) PROVE OneShot!Next
BY DEF OneShot!Next

\* Every step issues a code, spends codes, grants for a spent code, or stutters.
LEMMA RefineStep == IInv /\ [Next]_vars => [OneShot!Next]_OneShot!vars
<1> SUFFICES ASSUME IInv, [Next]_vars PROVE [OneShot!Next]_OneShot!vars
  OBVIOUS
<1> USE DEF IInv, TypeOK, CodeRow, Row, Phase, Live
<1>1. ASSUME NEW r \in Reqs, NEW k \in Codes, IssueCode(r, k) PROVE OneShot!Issue(k)
  BY <1>1 DEF IssueCode, OneShot!Issue, tokens
<1>2. CASE ConsumeCode
  <2>1. CASE codes[loop.code].row = "live"
    <3>1. PICK S \in SUBSET Codes : S = {loop.code}
      BY <1>2 DEF ConsumeCode, ExchangeOK
    <3>2. OneShot!Spend(S)
      BY <1>2, <2>1, <3>1 DEF ConsumeCode, Spent, OneShot!Spend, tokens, ExchangeOK
    <3> QED
      BY <3>2, SpendIsStep
  <2>2. CASE codes[loop.code].row # "live"
    BY <1>2, <2>2 DEF ConsumeCode, Spent, OneShot!vars, tokens
  <2> QED
    BY <2>1, <2>2
<1>3. CASE StoreAccess
  <2>1. loop.code \in Codes /\ grants[loop.code] = 0 /\ codes[loop.code].row = "gone"
    BY <1>3 DEF StoreAccess, ExchangeOK, Unused
  <2>2. OneShot!Grant(loop.code)
    BY <1>3, <2>1 DEF StoreAccess, OneShot!Grant
  <2> QED
    BY <2>1, <2>2 DEF OneShot!Next
<1>4. ASSUME NEW u \in Users, DeleteUser(u) PROVE OneShot!Next
  <2>1. PICK S \in SUBSET Codes : S = {k \in Codes : Live(codes, k) /\ codes[k].user = u}
    OBVIOUS
  <2>2. OneShot!Spend(S)
    BY <1>4, <2>1 DEF DeleteUser, OneShot!Spend
  <2> QED
    BY <2>2, SpendIsStep
<1>5. CASE StoreRefresh \/ Untouched \/ \E u \in Users : DisableUser(u)
  BY <1>5 DEF StoreRefresh, Untouched, DisableUser, OneShot!vars, tokens
<1> QED
  BY <1>1, <1>2, <1>3, <1>4, <1>5, StepKinds DEF OneShot!Next

\* A code yields tokens once at most: the flow implements the one-shot grant.
THEOREM FlowImplementsOneShot == Spec => GrantsOnce
BY RefineInit, RefineStep, FlowInvariance, PTL DEF Spec, GrantsOnce, OneShot!Spec
=============================================================================
