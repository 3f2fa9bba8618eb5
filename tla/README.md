# SimpleAuth in TLA+

SimpleAuth is a single sign-on service without passwords: a FastAPI backend over
PostgreSQL, a Next.js frontend, nginx in front of both. This directory holds TLA+
models of the backend's own logic, the TLC runs that check them and TLAPS proofs
about them. Paths below are relative to `src/backend/app/` unless they begin with `src/`.

## 1. Inventory

| Component | Code | State it keeps | Operations | Correct when |
| --- | --- | --- | --- | --- |
| Enrolment | `api/auth/webauthn.py` (register, devices), `api/auth/one_time_link.py`, `services/one_time_link_service.py`, `services/registration_session_service.py`, `services/webauthn_service.py` | tables `one_time_links`, `registration_sessions`, `credentials`; the registration cookie | create a link, verify and consume it, issue options, verify the answer, store the credential | every credential goes back to a link of its own user; a link is good once; a VERIFIED user has a passkey, or there is a known reason why not |
| Login and sessions | `api/auth/webauthn.py` (login, logout), `services/auth_options_service.py`, `services/session_service.py`, `api/current_user.py`, `api/proxy/auth_request.py` | tables `authentication_options`, `sessions`, the column `sign_count`; two cookies | options, verify, logout, the check behind every request | a session rests on a signature of its user over a challenge that is used once; logout ends the login |
| OIDC code flow | `api/auth/oidc.py`, `services/oidc_auth_flow_service.py` | tables of codes, access and refresh tokens | authorize, token (three grants), userinfo, discovery, keys | a code yields tokens once at most, for the client and user it was issued to; a code that is consumed yields them |
| OIDC administration | `api/admin/oidc_management.py`, `services/oidc_service.py` | clients, scopes, the links between them, claim mappings | create, update, rotate secret, activate, delete scope | no client or mapping loses a scope it refers to, unless it came to refer to it during the deletion; an edit of other columns brings no old flag or secret back |
| Accounts, first start | `services/user_service.py`, `api/admin/admin_user.py`, `api/auth/init_admin.py`, `main.py` | table `users` | create, re-create, update, delete, promote; insert the initial administrator | one row per address; every account goes back to a first start; deleted users stay deleted, disabled ones disabled |
| Credential management | `api/credentials_management.py` | column `user_comment`, rows of `credentials` | list, comment, delete | users touch their own credentials only |
| User options | `services/user_option_service.py`, `api/admin/user_option.py`, `api/user.py` | attributes and values per user, some encrypted | bulk update, attribute administration | a reading yields the last text or none; no option outlives its user |
| Dashboard links | `services/dashboard_links_service.py`, `api/admin/admin_dashboard_links.py`, `utils/static_utils.py` | rows and icon files | create, update, delete | a row's icon exists, or a handler is about to replace it |
| Frontend | `src/frontend/src/` | React state, cookies held by the browser | pages over the API | (nothing that the server relies on) |
| Infrastructure | `db/session.py`, `core/config.py`, `middleware/`, `utils/`, `src/backend/alembic/`, compose and nginx files | none at run time | configuration, logging, migrations | |

**How the parts interact.** Only through the database and cookies. All tables that
belong to a user refer to `users` with `ON DELETE CASCADE`, so that `delete_user` reaches into
every other component in one statement. Enrolment makes the credentials that login
reads; login makes the sessions that `/authorize` and every administrative endpoint
check; OIDC administration changes the clients that the code flow validates against.

**Where it is hard.** Endpoints written `def` run in a pool of worker threads and
interleave at every database statement; PostgreSQL runs at READ COMMITTED and the code
takes no lock. SQLAlchemy expires loaded rows at each commit, so a row deleted by
another thread is noticed at the next attribute access, as an error. An UPDATE through
the ORM that matches no row raises, a DELETE that matches none only warns. `/token` is
`async def` without a single `await`: its handlers do not interleave with one another
(one uvicorn process, `src/backend/scripts/entrypoint.sh`), but do with the threads. Several
operations are two or three transactions, and the container is restarted whenever it
stops. The list of hazards, each at its line, is in `PROJECT.json`.

## 2. Modules

| Module | Models | Runs |
| --- | --- | --- |
| `Enrollment` | links, registration sessions, challenges, credentials, users as enrolment sees them | `enrollment`, `verified`, `link_race`, `link_reuse`, `liveness` |
| `Accounts` | the users table, statement by statement; administrators; the first start | `accounts` |
| `Login` | challenges, assertions, sign counts, sessions, cookies | `login`, `challenge_race`, `logout`, `liveness` |
| `OneTimeToken` | abstract: what check, mark and use in three transactions promise of a token | implemented by `Enrollment` (links) and `Login` (challenges) |
| `OneShotGrant` | abstract: what the code flow promises of a code | implemented by `OidcFlow` |
| `OidcFlow` | authorize, the exchange of a code, tokens | `liveness`, `oidc_refresh` |
| `OidcAdmin` | scopes, claim mappings, clients and the scopes of a client | `administration` |
| `UserOptions` | attributes with their encryption flag, options of users | `administration`, `option_readback` |
| `UserInfo` | `/userinfo`, which reads both; extends `OidcAdmin` and `UserOptions` | `administration` |
| `DashboardLinks` | rows of dashboard links and their icon files | `administration`, `liveness` |
| `Tables` | a row's life and an UPDATE of changed columns, shared by the administrative modules | |
| `OneTimeTokenProofs`, `EnrollmentProofs`, `AccountsProofs`, `LoginProofs`, `OidcFlowProofs`, `OidcAdminProofs`, `UserInfoProofs` (with `UserOptions`), `DashboardLinksProofs` | theorems | (tlapm) |
| `MCEnrollment`, `MCAccounts`, `MCLogin`, `MCOidcFlow`, `MCAdministration`, `MCLiveness` | instances for TLC | |

### Conventions

* A table is a function from ids to records. `row` is `"never"` (not inserted), `"live"` or
  `"gone"`; a gone row keeps its columns as history, which only properties read. Ids, tokens
  and challenges are random in the code and never drawn twice in the models.
* `req[r]` is worker thread `r`: `pc` names the statement it runs next, the other fields are the
  local variables that later statements use. A handler that rejects its input before it
  has changed anything takes no step. Reads are merged into the next read or write of
  the same transaction where no other handler can tell the difference.
* `Arrive`/`Browse` are the calls that come in, `Advance` the steps a handler takes by itself.
  `Restart` drops all handlers in flight and keeps the tables. `Fails` (`AuthorizeCut` and `ExchangeCut` in `OidcFlow`, `CutShort` in
  `DashboardLinks`) is a statement or commit that fails for a reason outside of the tables, a lost connection: it ends one handler, and what that
  has committed before stays. The constant `MayBreak` says whether a run has these two.
* Time is one Boolean per deadline (`expired`, `window`), set by an action at any moment, except in
  `OidcFlow`, where whole seconds matter (`now`).
* "External" actions are not in the code: an authenticator that signs (`Sign`), a browser that drops
  a cookie, an operator who sets DISABLED by hand (no handler does, although several
  read it).

### Enrollment

`users`, `links`, `sessions` and `creds` are the tables. The rest is history: `asked` (the session a challenge was
generated for), the column `chal` of a credential (the challenge it answered), `registered` (users for whom a credential was ever stored), `stranded` (users
without one whose handler was cut off before `StoreCredential`, or refused because another user had registered the credential id) and `outstanding` (the challenges
a user had when it was disabled). The browser and the authenticator act through `VerifyAnswer`, which any browser may send at any
time for any challenge that was issued, as often as it likes, and with any credential id, also one that is registered: the code
does not look before it promotes the user, and only the constraint at the INSERT refuses (`StoreRefused`). `Kinds` are the purposes of links.

| Action | Code |
| --- | --- |
| `CreateUser`, `RecreateUser`, `DeleteUser` | `UserService.create_user`, `delete_user` |
| `CreateLink` | the three endpoints that create links, with `get_link_by_user_id` |
| `VerifyLinkRead`, `ConsumeLink`, `OpenSession` | `verify_and_consume_link`, `generate_token` |
| `InitialAdminLogin` | `init-admin/login` |
| `OptionsRead`, `SaveChallenge` | `_issue_registration_options`, `save_challenge` |
| `VerifyAnswer`, `Promote`, `StoreCredential` | `_verify_registration_and_store`, for new users and for further devices |
| `ConsumeDeletedLink`, `OpenSessionForDeletedUser`, `PromoteDeletedUser`, `StoreRefused` | the same statements failing because a row is gone or a constraint refuses |
| `Fails` | any of them failing for another reason |
| `Restart` | process start, with `initialize_system` |

### Login

`temp` and `cookie` are the two cookies of each browser, `device` the counter inside an
authenticator, `signed` every assertion ever made: a browser may send any of them, again
and again. A login is read (`VerifyRead`), `ConsumeChallenge`, `CheckAnswer`, `UpdateCount`,
`ReadOwner`, `CreateSession`, each a transaction or a reload after a commit, with
`CheckRefused`, `CredentialGone` and `SessionRefused` where the code fails, and `Fails` anywhere. The answer of a
login reaches the browser (`TakeCookie`) or is lost, and then the session exists without a cookie. `Logout` does what the
handler does: nothing that reaches the browser. `overtaken` is history: the handlers whose credential another login has
counted since they checked their own counter.

### OneTimeToken

A token is new, open or spent; handlers take it while it is open, spend it, and open one session each. It does not
say "once": several handlers may have taken it before the first spends it, as `link_race` shows. Under
`Phase`, `HeldBy` and `OpenedBy`/`OpenedWith` links and login challenges are such tokens: `VerifyLinkRead` and `VerifyRead` are `Take`,
`ConsumeLink` and `ConsumeChallenge` are `Spend`, `OpenSession` and `CreateSession` are `Open`, the failures and `Restart` are `Release`, and the deletion of a
user spends all that is its own.

### OidcFlow and OneShotGrant

`loop` is the one `/token` handler that the event loop runs, `req` the `/authorize` handlers in
threads. The exchange is `TokenRead`, `ConsumeCode`, `SignTokens`, `StoreRefresh`, `StoreAccess`, or
`ExchangeFails` where a row is gone or a key is taken; `ExchangeCut` ends it anywhere, and `cut` (history) keeps the codes that were consumed by
then. A signed access token is a function of user, client, scope
and second (`Jwt`) and the primary key of its table. `OneShotGrant` knows three phases of a
code and a count of grants; `OidcFlow` implements it under `Phase` (never, live, gone rows
are new, open, spent).

### Accounts

`Enrollment` takes `create_user` as one step and looks at what becomes of links and credentials; `Accounts` takes it
apart and looks at the users table. A handler is authorised (`get_current_admin_user`) before it does anything, so each
operation is a call (`CallCreate`, `CallUpdate`, `CallDelete`) and one or two statements.

| Action | Code |
| --- | --- |
| `LookUpAddress`, then `InsertUser` or `RecreateUser` | `UserService.create_user` |
| `LoadUser`, then `WriteUser` or `RoleRefused` | `UserService.update_user` |
| `DeleteUser` | `UserService.delete_user` |
| `Fails` | a constraint, a row that is gone, a lost connection |
| `Promote` | `update_user_email_verification` at the end of register/verify |
| `Register` | `register_credential` after it, or at the end of devices/register/verify, which promotes nobody |
| `StartInsert`, `StartSkip`, `Restart` | `initialize_system` at every process start |

`by` and `enrolled` of a row are history: who made the account, and whether its user can have a session. `by` of a request is there
because the ORM does not refresh a row that the authorisation has loaded: an administrator who updates its own row works on
the row as it was then (`Found`). DISABLED and EXPIRED are one status, as the code tells them apart nowhere.

### OidcAdmin and Tables

One editor runs one transaction, split where it reads and where it writes. `update_client` is `UpdateClient` (loads the client, checks
the scopes), `ReplaceScopes` (the DELETE and the INSERTs of the client's scopes) and `CommitClient`
(the UPDATE of the client, which comes last because `autoflush` is off, and the COMMIT). A DELETE of PostgreSQL that waits for a
row lock goes on with the rows it saw, without those inserted meanwhile: `Doomed` and `Unblock` have that, and so two overlapping updates can
leave the union of both lists. `delete_scope` is `CheckClients` and `DropScope`, with cascades to client scopes and mappings.
`edited`, `told` and the `by` of a row are history: the last list of scopes, the last secret shown, the order of writes.
`Tables` has what an UPDATE of the ORM does: a column that was not changed keeps what is in the table (`Column`).

### UserOptions and UserInfo

`bulk_update_user_options` reads attributes (`ReadAttributes`), looks each option up (`SelectOption`) and commits (`SaveOptions`), refused by the unique
constraint or a foreign key (`SaveFails`). A row has a plain and an encrypted column; which one is written and read depends on the flag of
the attribute at that moment, so a row can come to hold both texts. `saved` is history: the last text, and whether its update overlapped with another.
`UserInfo` is the handler of `/userinfo` after the token has been found good (`Ask`): scopes, mappings, attributes and options are four
statements (`ReadScopes`, `ReadMappings`, `ReadFlags`, `Answer`), each of which sees what is committed by then. `mapped` and `kept` are history.

### DashboardLinks

`create_link`, `update_link`, `delete_link` touch a directory and a table in separate steps: `CreateSave` and `InsertLink`; `UpdateRead`, `DeleteOldIcon`, `SaveNewIcon` and
`UpdateRow` or `UpdateRowGone`; `DeleteLink`, which leaves the file. `DeleteOldIconFails` is an `os.remove` whose error is passed over. `CutShort` ends a
handler between any two of them, and `cutIcons` remembers which icons went that way. `left` is history as well: the files that a handler has left
behind, because it was cut short, found its row gone, could not delete, or overwrote a path that it had not loaded.

## 3. Runs

Ids are bounded by the sets in the cfg; all runs say `CHECK_DEADLOCK FALSE`, because a behaviour that
has used up its ids and its time stops. Symmetry is used in safety runs only.

| Run | Bounds | Shows |
| --- | --- | --- |
| `enrollment` | 2 users, 1 link, 2 sessions, 2 challenges, 1 credential, 2 threads, any number of restarts and failures | `TypeOK`; `CredentialsTraceable`: a stored credential goes back, through challenge and session, to a consumed link of the same user; `NoOrphans`; `UnregisteredExplained`: a VERIFIED user without a credential is one whose handler was cut off before the INSERT, or whose credential id was another user's, and no other; `DisabledAnswersOldOnly`: what is written for a disabled user answers a challenge from before; `LinkIsOneTime`: the refinement of `OneTimeToken` |
| `verified` | 2 users, 1 credential, 1 thread, no failure | violated: a user is VERIFIED while the credential id that it sent is another user's, and has none |
| `link_race` | 1 link, 2 threads | violated: two handlers that read the link before either consumes it open two sessions |
| `link_reuse` | 2 links, 1 thread | violated: a second unused link of the same purpose is issued |
| `login` | 1 user, 1 browser, 1 counting credential, 2 challenges, 2 sessions, 2 threads, 2 signatures, any number of restarts and failures | `TypeOK`; `SessionsTraceable`; `NoOrphanSessions`; `SessionsBounded`: a challenge has opened no more sessions than there are threads, less those that hold it; `ChallengeIsOneTime`: the refinement of `OneTimeToken`; `CountFallsOnlyInRace`: a counter falls only by a handler that was overtaken |
| `challenge_race` | 1 challenge, 2 threads, no failure | violated: two handlers that read the challenge before either deletes it open two sessions |
| `logout` | 1 thread | violated: the cookie survives the logout |
| `oidc_refresh` | 1 of each | violated: a valid refresh token is turned away |
| `liveness` | four parts, one in a behaviour. Flow: 1 user, 2 clients, 2 codes, 1 thread beside the loop, 2 seconds, any number of restarts and failures. Enrolment: 1 user, 1 link, 2 sessions, 1 challenge, 1 credential, 2 threads. Login: 1 user, 1 browser, 1 counting credential, 1 challenge, 2 sessions, 1 signature, 1 thread. Dashboard: 1 link, 3 icons, 2 uploaders | of the flow: `TypeOK`, `TokensTraceable`, `NoOrphanTokens`, `LostCodesExplained`, `GrantsOnce` (the refinement of `OneShotGrant`) and `ConsumedCodeYields`: a consumed code yields tokens in the end; of the others: `ConsumedLinkOpensSession`, `VerifiedGetsCredential`, `AcceptedOpensSession`, `IconComesBack` (a link that lost its icon gets another), each unless what it is about is deleted or a named reason applies |
| `administration` | five parts, one in a behaviour: clients, mappings, claims, options, links; 2 editors, 2 savers, 2 uploaders, 1 reader, 2 scopes, 1 client, 1 mapping of 3 forms, 1 option, 4 icons | `ReferencesExist`, `ScopesOfLastEdit`, `SecretAsTold`, `SwitchedOnKnowingly`: a client goes from off to on only by a handler that was asked for that and had loaded it off, `ScopeInUseStays`; `NoOrphanOptions`, `NoStaleReading`; `ClaimsTraceable`; `MissingIconExplained`, `LeftFileExplained`: a file without a link was left by a handler that failed or was overtaken, or by `delete_link`; the types |
| `accounts` | 3 users, 2 addresses, 2 threads, 1 restart, deadline or disabling | `TypeOK`, `AddressesUnique`, `AccountsTraceable`, `DeletedStaysDeleted`, `DisabledStands` |
| `option_readback` | 1 option, 1 thread | violated: an empty text under an encrypted attribute is stored and cannot be read |

Why the bounds are enough. The races are between two handlers of the same object, or one
handler and a deletion, so two threads and one contested object show them; the second
user, client or challenge is there so that something can be mixed up, and the second
session so that one object can be used twice. `login` has one user, as a credential names its owner and
the theorems hold for any number of users; it has two signatures and two challenges instead, for the races of counters. Restarts and failures need no bound where `MayBreak` is TRUE, except in `accounts`, where
one restart meets every handler at every statement. In `liveness` the login part has one thread: it asks for progress only, and what overlapping logins do
is the matter of `login` and `challenge_race`; the enrolment part likewise has two threads for progress under a deletion, and leaves the rest to `enrollment`. The mutants in `PROJECT.json` (a dropped guard, a missing foreign key, a row that is
kept) are each found within the same bounds.

`MCAdministration`, `MCAccounts` and `MCLiveness` also restrict the next-state relation, to keep their state spaces small. The
parts of `MCAdministration` do not meet: no property but `ClaimsTraceable` is about tables of two of them, and in the part "claims"
one writer at a time works beside the reader, with tokens of one scope, a system scope that stays and ids up to 3. In `MCAccounts` updates come only
while there have been two users (an update is about one user and one that has or takes its address, and a third is there to be created while the
others are deleted), and of the updates that name a role, which all end alike, one form is taken. In the flow of `MCLiveness` one client at a time is switched off or has lost its scopes (`OneEdited`): an exchange is about one client, and the other is there to send
a code that is not its own. `MaxIds` (order of writes), `MaxSecrets` (rotations), `MaxCuts` (handlers
cut short) and `MaxEvents` cap counters; one or two of each is what a race needs.

**Fairness.** `FairSpec` says that a worker thread (or the event loop) that has begun a handler
takes its next step eventually: weak fairness of `Advance(r)`, of `AdvanceExchange`, of `LinksAdvance(t)`. The code justifies no more: nobody need call
anything, and nothing retries. A restart or a failure ends a handler, so enrolment and login promise progress only while the server and its
database run, and these parts have `MayBreak` FALSE. The flow has `MayBreak` TRUE: `ConsumedCodeYields` excepts the codes in `cut`. `VerifiedGetsCredential` excepts `stranded`,
which without failures has the users only whose credential id is another user's. `CutShort` in the dashboard part is excepted by `cutIcons`.

**What the violations show.** Each is an execution of the code that a comment or docstring
excludes; `findings` in `PROJECT.json` quotes them.

Further facts met on the way, which have no run of their own:

* A restart or a lost connection between `Promote` and `StoreCredential` leaves a VERIFIED user without a credential, as the refused INSERT of `verified` does:
  `UnregisteredExplained` excepts the users in `stranded` and no others. A user disabled between options and verify is promoted all the same;
  `DisabledAnswersOldOnly` says that nothing else promotes one. A registration session is never marked used.
* Two logins of one credential that both pass the check of the counter may store the lower value last. `CountFallsOnlyInRace` excepts them.
* `delete_scope` takes references made between its check and its DELETE away by the cascade, without an error for anyone. `ScopeInUseStays`
  says that it takes no others.
* Two updates of a client at once leave the scopes of both. `ScopesOfLastEdit` excepts them.
* An option row can hold a plain and an encrypted text of different times, and a change of the flag brings the older one into view; `NoStaleReading`
  therefore excepts updates that overlapped, and shows that nothing else does it.
* `set_client_active` and `update_client` write the flag that was asked for without a look at what became of the row: a handler that loaded a client off,
  while another switches it on and off again, switches it on afterwards. `SwitchedOnKnowingly` accepts that, as the request was to switch on a client that was off; it shows
  that an edit of other columns, or one that loaded the client on, never does.
* `update_user` assigns the member of `UserRole` to the String column (`services/user_service.py:298`), which the driver cannot adapt: every update that names a role fails as a
  whole, and the page always sends one. `RoleRefused` has that.
* `delete_attribute` leaves the options of the attribute; `NoOrphanOptions` is about users only.
* Two `create_user` calls for one disabled address with a registration in between make a VERIFIED user PENDING.
* `src/docs/01_init.sql` says UNIQUE of the key of an attribute and of client and scope in `oidc_client_scopes`; the migrations have neither
  constraint, and the models store such duplicates.
* Icon files stay after `delete_link`, after a failed INSERT or `os.remove`, and for the loser of two updates. `LeftFileExplained` excepts them.
* Re-creation of a disabled user ignores the role that is asked for; two administrators may delete each other, and with any other user left
  the next start inserts no administrator.

## 4. Proofs

`tlapm M.tla` for each of the eight proof modules checks everything from nothing. The proofs assume of the constants only what the
`ASSUME`s of the modules say (that `None` is no id, that bounds are numbers, that the initial administrator's address is an address); all sets may be infinite, but for the worker
threads of `Enrollment` and `Login`, which are finitely many (a thread pool).

**OneTimeToken.** `TokenInv`: what a token has opened and what holds it are together no more than there are holders (`Room`). Taking needs an open token, which has opened
nothing; opening lets go. Hence `UsesAreBounded`, `OpenedOnlyWhenSpent` and `SpentStaysSettled`. `EnrollmentProofs` and `LoginProofs` instantiate this module under the
refinement mapping and so get the bounds on sessions (`SessionsAreBounded`) without looking at their own actions again. Cardinality is
used through the facts of `FiniteSetTheorems` only.

**Enrollment.** `TypeCorrect` is inductive by itself. The other properties are not: what a handler
will write depends on what it read several statements ago. The inductive invariant
`IInv` adds (a) what every row in flight knows, for each value of `pc`: a handler about to open a session
holds a consumed link of its user, and its session id is unused; one about to save a
challenge, promote or store holds a challenge that was issued to a session of the same user; (b) that history never
changes once written: a challenge is asked for one session,
a session keeps its user and link; (c) that ids in flight are distinct. One lemma per action says what
the action does to each group of tables, and the step lemma of each conjunct cites those. From `IInv` follow
`CredentialsAreTraceable`, `NothingIsOrphaned`, `UnregisteredAreExplained` and `DisabledAnswersOld`. The last two need more of the invariant: a handler that
stores for a VERIFIED user is the reason why that user may be without a credential, until it stores one or puts the user into `stranded`
(a refusal because of the user's own credential means that it has one), and every challenge of a
disabled user, asked or about to be, is in `outstanding`. `LinksAreOneTime` maps each action to one of `OneTimeToken` or to a stutter; that a new session
is opened by a handler that holds its link, and that a handler holds one link at a time, is what `IInv` contributes.

**Login.** Here `TypeOK` itself is not inductive: `UpdateCount` stores the counter of an assertion, and only
because a handler in flight holds one that was made (`RequestOK`) is it a counter at all. `RequestOK` says what a
handler knows at each `pc`: its challenge is gone from `check` on, is the signed one from `count` on, and in
`session` the user is the owner of the credential. Besides, a session row that was never inserted belongs to nobody
(`UnusedSessionsBlank`), so that the cascade of `delete_user` leaves it alone. `StepEffects` states once what any step may do
to the tables (rows are not forgotten, a session is born of a handler in `session` for a live user, a user dies with its
sessions); the step lemmas of `SessionsTraceable` and `NoOrphanSessions` cite it and look
at no action again. `ChallengesAreOneTime` is the refinement of `OneTimeToken`. For `CountFallsOnlyByOvertaken` the invariant says that a handler that has checked
its counter and is not in `overtaken` still has the larger one: every UPDATE of a credential puts the other handlers of that credential there.

**OidcFlow.** `IInv` adds that an issued code has an owner and a client (`CodesRooted`), that an `/authorize` handler about to
insert knows both (`AuthorizingOK`), that a code that is not gone has yielded nothing (`UnspentUnused`), and that
the exchange under way holds a code of its own client that has yielded nothing and is gone once consumed, and whose code is gone
before only with its user (`ExchangeOK`). That one exchange runs at a time, because `/token` never yields the event loop, is a fact of the model
that the proof needs: with two, `ExchangeOK` would not be inductive. Hence `TokensAreTraceable`, `NoTokenIsOrphaned`,
`LostCodesAreExplained`, and `FlowImplementsOneShot`: the initial state maps to that of `OneShotGrant`, `IssueCode` to `Issue`,
`ConsumeCode` and `DeleteUser` to `Spend` of a set of codes, `StoreAccess` to `Grant`, everything else to a stutter.

**Accounts.** `IInv` adds that a creation in flight is that of an administrator who has enrolled, or had when it was authorised (`Founder`), and that rows never
inserted are blank. What one step may do to a row is one lemma (`RowStep`); the invariants and both action properties cite it. `DeletedUsersStayDeleted` and
`DisabledUsersStand` need no more than `RowStep`, as the UPDATE finds live rows only and writes changed columns only.

**OidcAdmin.** The invariant says what a transaction in flight knows: a handler about to delete a scope has seen no reference older than `since`, as younger
rows and mappings have a larger `by` (`DeletesScope`); the client whose scopes are being replaced is there, and a DELETE that was not overtaken (`~stale`) covers all its rows
(`ReplacesScopes`, `HandlerOK`). From it follow `AdminReferencesExist`, `ScopesAreOfLastEdit` and `SecretIsAsTold`, and as action properties
`AlwaysSwitchedOnKnowingly` and `ScopeInUseAlwaysStays`.

**UserOptions, UserInfo.** `OptionsInv`: a row that a saver has loaded still has both of its columns, unless another update has been
committed since (`others`), and after an update without overlap both columns hold its text or none (`ExactRow`). `UserInfoInv` adds that what a reader holds is
in `mapped` or `kept`; it reuses the step lemmas of both administrative invariants, as `/userinfo` writes nothing.
The run `administration` has one attribute, one user and one key, so what `NoReadingIsStale` says of two attributes of one key and `ClaimsAreTraceable` of other users is
shown by the theorems only. `NoOptionIsOrphaned` is about the users of options, not their attributes.

**DashboardLinks.** `LinksInv`: the icon that a handler has drawn is its own, the icon of a link is that of no other link and was loaded from no other, and a handler past
its deletion has an old icon that is gone or in `left`. So a link whose icon is gone is one of a handler on its way to another icon, or of one that was cut short. `LeftFileIsExplained` is part of the
invariant: the only path that an UPDATE overwrites without its file being gone is one that the handler had not loaded.

Out of the prover's reach and left to TLC are the liveness properties (fairness and `ENABLED`): `ConsumedLinkOpensSession`, `VerifiedGetsCredential`,
`AcceptedOpensSession`, `ConsumedCodeYields` and `IconComesBack`.

## 5. Not modelled

* The frontend: any call in any order is allowed by the models, so what the pages do is a special case.
* Cryptography, the WebAuthn library and JWT encoding: an answer is accepted exactly when challenge and counter fit.
* `client_credentials`, discovery, keys: they write no table and answer from the configuration.
* The order of claims of one name, and a claim that is named like a field of the answer (`sub`, `email`): names of claims are abstract.
* `update_scope` (a description), the comment of a credential, the texts and order of dashboard links, list and get handlers: nothing another
  part reads.
* Configuration, logging, nginx: no state at run time. Of the migrations, the constraints and the system scopes are in the models.
* The set-up page for the initial administrator shows a status and changes none.

## 6. Plan

Done: every component that keeps state has its module, checked and proved about.

1. The refresh grant's rotation as the code has it (`_handle_refresh_token_grant`), which no request reaches today.
2. `SimpleAuth`: the composition over one users table, for the interplay of deletion, enrolment, login and code flow; `Accounts` and `Enrollment`
   then share their rows.
3. Links and challenges are `OneTimeToken`s, codes `OneShotGrant`s. The chain of both, from the link over the credential to the session of a login, needs
   the composition.
