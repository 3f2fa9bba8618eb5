-------------------------------- MODULE Login --------------------------------
(***************************************************************************)
(* Login with a passkey, sessions and logout.                              *)
(*                                                                         *)
(* login/options stores a fresh challenge under a token that the browser   *)
(* keeps in a cookie; an authenticator signs the challenge; login/verify   *)
(* looks the challenge up by the cookie, deletes it, checks the signature  *)
(* and the signature counter, stores the counter and opens a session.      *)
(* As in Enrollment the handlers run in worker threads and interleave      *)
(* between their database statements.                                      *)
(***************************************************************************)
EXTENDS Naturals, FiniteSets

CONSTANTS
    Users,
    Creds,        \* credentials, each enrolled for some user
    Counting,     \* the credentials whose authenticator counts signatures
    Options,      \* temporary tokens, each with its own challenge
    Sessions,     \* session ids
    Browsers,
    Reqs,         \* worker threads
    None,
    MaxCount,     \* bound: signatures an authenticator makes
    MayBreak      \* whether the server process, or the connection of one of
                  \* its handlers to the database, is ever lost

ASSUME LoginAssumption ==
    /\ Counting \subseteq Creds
    /\ MaxCount \in Nat \ {0} /\ MayBreak \in BOOLEAN
    /\ None \notin Users \cup Creds \cup Options \cup Sessions \cup Browsers
    /\ IsFiniteSet(Reqs)

VARIABLES
    users,      \* table users
    creds,      \* table credentials
    options,    \* table authentication_options
    sessions,   \* table sessions
    device,     \* the signature counter inside each authenticator
    signed,     \* the assertions that authenticators have made
    temp,       \* the browser's cookie with the temporary token
    cookie,     \* the browser's session cookie
    loggedOut,  \* history: the browser's user has logged out, not in again
    req,        \* the login/verify handlers in flight
    overtaken   \* history: the handlers since whose check another one has
                \* stored a counter of the same credential

tables == <<users, creds, options, sessions>>
world == <<device, signed, temp, cookie, loggedOut, overtaken>>
vars == <<users, creds, options, sessions, device, signed, temp, cookie, loggedOut, req, overtaken>>

-----------------------------------------------------------------------------
Row == {"never", "live", "gone"}
UserRow == [row : Row, status : {"verified", "pending", "disabled"}]
CredRow == [row : Row, user : Users, count : 0..MaxCount]
OptionRow == [row : Row, expired : BOOLEAN]
Assertion == [cred : Creds, opt : Options, count : 0..MaxCount]

\* answer is history: the assertion the session was opened for.  revoked is
\* the column revoked_at.
SessionRow == [row : Row, user : Users \cup {None}, expired : BOOLEAN, revoked : BOOLEAN,
               answer : Assertion \cup {None}]

Pc == {"idle", "consume", "check", "count", "owner", "session"}
Request == [pc : Pc, browser : Browsers \cup {None}, opt : Options \cup {None},
            answer : Assertion \cup {None}, user : Users \cup {None}]
At(pc, b, o, a, u) == [pc |-> pc, browser |-> b, opt |-> o, answer |-> a, user |-> u]
Idle == At("idle", None, None, None, None)

TypeOK ==
    /\ users \in [Users -> UserRow]
    /\ creds \in [Creds -> CredRow]
    /\ options \in [Options -> OptionRow]
    /\ sessions \in [Sessions -> SessionRow]
    /\ device \in [Creds -> 0..MaxCount]
    /\ signed \subseteq Assertion
    /\ temp \in [Browsers -> Options \cup {None}]
    /\ cookie \in [Browsers -> Sessions \cup {None}]
    /\ loggedOut \in [Browsers -> BOOLEAN]
    /\ req \in [Reqs -> Request]
    /\ overtaken \subseteq Reqs

-----------------------------------------------------------------------------
Live(table, id) == table[id].row = "live"

\* get_auth_challenge finds the row.
ChallengeFound(o) == Live(options, o) /\ ~options[o].expired

\* External: verify_authentication_response.  A counter in use must have grown.
CountOK(new, stored) == (new > 0 \/ stored > 0) => new > stored

\* Mutant: the assertion is accepted under any challenge.
AnswerAcceptedForAny(o, a) == CountOK(a.count, creds[a.cred].count)
\* Mutant: a counter that has not grown is accepted.
AnswerAcceptedUncounted(o, a) == a.opt = o
\* The challenge is the stored one, and the counter fits.
AnswerAccepted(o, a) == a.opt = o /\ CountOK(a.count, creds[a.cred].count)

\* Mutant: only VERIFIED users get a session.
CanOpenIfVerified(u) == Live(users, u) /\ users[u].status = "verified"
\* Mutant: the foreign key on users is missing.
CanOpenForAnyone(u) == TRUE
\* The foreign key of sessions; the status of the user is not looked at.
CanOpen(u) == Live(users, u)

\* get_current_user: validate_session, then read_user.  (A PENDING user
\* passes while its window is open, which Enrollment models.)
Authenticated(b) ==
    LET s == cookie[b] IN
    /\ s # None
    /\ Live(sessions, s) /\ ~sessions[s].expired /\ ~sessions[s].revoked
    /\ Live(users, sessions[s].user)
    /\ users[sessions[s].user].status # "disabled"

Goto(r, state) == req' = [req EXCEPT ![r] = state]
Finish(r) == Goto(r, Idle)

-----------------------------------------------------------------------------
(* POST webauthn/login/options, and what the browser does with it.          *)

\* The challenge is stored under a new token; the cookie of a tab that asked
\* before is overwritten.
LoginOptions(b, o) ==
    /\ options[o].row = "never"
    /\ options' = [options EXCEPT ![o].row = "live"]
    /\ temp' = [temp EXCEPT ![b] = o]
    /\ UNCHANGED <<users, creds, sessions, device, signed, cookie, loggedOut, req, overtaken>>

\* External: an authenticator signs a challenge that was issued.
Sign(c, o) ==
    LET n == IF c \in Counting THEN device[c] + 1 ELSE 0 IN
    /\ options[o].row # "never"
    /\ n <= MaxCount
    /\ device' = [device EXCEPT ![c] = n]
    /\ signed' = signed \cup {[cred |-> c, opt |-> o, count |-> n]}
    /\ UNCHANGED <<tables, temp, cookie, loggedOut, req, overtaken>>

-----------------------------------------------------------------------------
(* POST webauthn/login/verify.                                              *)

\* The credential and the challenge are found.
VerifyRead(r, b, a) ==
    /\ req[r] = Idle
    /\ temp[b] # None
    /\ Live(creds, a.cred)
    /\ ChallengeFound(temp[b])
    /\ Goto(r, At("consume", b, temp[b], a, None))
    /\ UNCHANGED <<tables, world>>

\* Mutant: the challenge is kept.
ConsumedKept(o) == options
\* DELETE by the token; the number of rows deleted is not looked at.
Consumed(o) == IF Live(options, o) THEN [options EXCEPT ![o].row = "gone"] ELSE options

ConsumeChallenge(r) ==
    /\ req[r].pc = "consume"
    /\ options' = Consumed(req[r].opt)
    /\ Goto(r, [req[r] EXCEPT !.pc = "check"])
    /\ UNCHANGED <<users, creds, sessions, world>>

\* The credential is loaded again (the commit has expired it) and checked.
CheckAnswer(r) ==
    LET a == req[r].answer IN
    /\ req[r].pc = "check"
    /\ Live(creds, a.cred)
    /\ AnswerAccepted(req[r].opt, a)
    /\ Goto(r, [req[r] EXCEPT !.pc = "count"])
    /\ overtaken' = overtaken \ {r}
    /\ UNCHANGED <<tables, device, signed, temp, cookie, loggedOut>>

CheckRefused(r) ==
    LET a == req[r].answer IN
    /\ req[r].pc = "check"
    /\ ~(Live(creds, a.cred) /\ AnswerAccepted(req[r].opt, a))
    /\ Finish(r)
    /\ UNCHANGED <<tables, world>>

\* Mutant: the counter that is expected next is stored.
StoredCountNext(a) == a.count + 1
StoredCount(a) == a.count

\* The other handlers that have checked an assertion of c and not stored it.
Waiting(r, c) == {q \in Reqs \ {r} : req[q].pc = "count" /\ req[q].answer.cred = c}

\* The UPDATE of sign_count does not compare with the value that was checked.
UpdateCount(r) ==
    LET a == req[r].answer IN
    /\ req[r].pc = "count"
    /\ Live(creds, a.cred)
    /\ creds' = [creds EXCEPT ![a.cred].count = StoredCount(a)]
    /\ Goto(r, [req[r] EXCEPT !.pc = "owner"])
    /\ overtaken' = (overtaken \ {r}) \cup Waiting(r, a.cred)
    /\ UNCHANGED <<users, options, sessions, device, signed, temp, cookie, loggedOut>>

\* cred.user_id: the credential is loaded once more.
ReadOwner(r) ==
    LET c == req[r].answer.cred IN
    /\ req[r].pc = "owner"
    /\ Live(creds, c)
    /\ Goto(r, [req[r] EXCEPT !.pc = "session", !.user = creds[c].user])
    /\ UNCHANGED <<tables, world>>

\* The credential was deleted meanwhile: the UPDATE or the load fails.
CredentialGone(r) ==
    /\ req[r].pc \in {"count", "owner"}
    /\ ~Live(creds, req[r].answer.cred)
    /\ Finish(r)
    /\ UNCHANGED <<tables, world>>

\* The browser takes an answer that sets one cookie and deletes the other.
TakeCookie(b, s) ==
    /\ cookie' = [cookie EXCEPT ![b] = s]
    /\ temp' = [temp EXCEPT ![b] = None]
    /\ loggedOut' = [loggedOut EXCEPT ![b] = FALSE]

\* create_session, and the answer, which may be lost on its way.
CreateSession(r, s) ==
    /\ req[r].pc = "session"
    /\ CanOpen(req[r].user)
    /\ sessions[s].row = "never"
    /\ sessions' = [sessions EXCEPT ![s] =
            [row |-> "live", user |-> req[r].user, expired |-> FALSE, revoked |-> FALSE,
             answer |-> req[r].answer]]
    /\ TakeCookie(req[r].browser, s) \/ UNCHANGED <<temp, cookie, loggedOut>>
    /\ Finish(r)
    /\ UNCHANGED <<users, creds, options, device, signed, overtaken>>

\* The user was deleted meanwhile: the foreign key refuses the INSERT.
SessionRefused(r) ==
    /\ req[r].pc = "session"
    /\ ~CanOpen(req[r].user)
    /\ Finish(r)
    /\ UNCHANGED <<tables, world>>

-----------------------------------------------------------------------------
(* POST webauthn/logout, and what else happens to the tables.               *)

\* delete_cookie is called on a response that the handler then drops for a
\* new one: the browser keeps its cookie, and no row changes.
Logout(b) ==
    /\ cookie[b] # None
    /\ loggedOut' = [loggedOut EXCEPT ![b] = TRUE]
    /\ UNCHANGED <<tables, device, signed, temp, cookie, req, overtaken>>

\* The two cookies have no other end: the session cookie goes when the browser
\* is closed, the temporary one after max_age.
CloseBrowser(b) ==
    /\ cookie[b] # None
    /\ cookie' = [cookie EXCEPT ![b] = None]
    /\ UNCHANGED <<tables, device, signed, temp, loggedOut, req, overtaken>>

\* delete_credential: a user removes a credential of its own.
RemoveCredential(b, c) ==
    /\ Authenticated(b)
    /\ Live(creds, c) /\ creds[c].user = sessions[cookie[b]].user
    /\ creds' = [creds EXCEPT ![c].row = "gone"]
    /\ UNCHANGED <<users, options, sessions, world, req>>

\* delete_user cascades to credentials and sessions.
DeleteUser(u) ==
    /\ Live(users, u)
    /\ users' = [users EXCEPT ![u].row = "gone"]
    /\ creds' = [c \in Creds |-> IF creds[c].user = u THEN [creds[c] EXCEPT !.row = "gone"]
                                 ELSE creds[c]]
    /\ sessions' = [s \in Sessions |->
            IF sessions[s].user = u THEN [sessions[s] EXCEPT !.row = "gone"] ELSE sessions[s]]
    /\ UNCHANGED <<options, world, req>>

\* External: by hand in the database.
DisableUser(u) ==
    /\ Live(users, u) /\ users[u].status # "disabled"
    /\ users' = [users EXCEPT ![u].status = "disabled"]
    /\ UNCHANGED <<creds, options, sessions, world, req>>

OptionExpires(o) ==
    /\ Live(options, o) /\ ~options[o].expired
    /\ options' = [options EXCEPT ![o].expired = TRUE]
    /\ UNCHANGED <<users, creds, sessions, world, req>>

SessionExpires(s) ==
    /\ Live(sessions, s) /\ ~sessions[s].expired
    /\ sessions' = [sessions EXCEPT ![s].expired = TRUE]
    /\ UNCHANGED <<users, creds, options, world, req>>

\* The next statement or commit of a handler fails for a reason outside of the
\* tables, a lost connection: what it has committed before stays.
Fails(r) ==
    /\ MayBreak
    /\ req[r] # Idle
    /\ Finish(r)
    /\ overtaken' = overtaken \ {r}
    /\ UNCHANGED <<tables, device, signed, temp, cookie, loggedOut>>

\* The server restarts: the handlers in flight are lost.
Restart ==
    /\ MayBreak
    /\ req' = [r \in Reqs |-> Idle]
    /\ overtaken' = {}
    /\ UNCHANGED <<tables, device, signed, temp, cookie, loggedOut>>

-----------------------------------------------------------------------------
\* Every credential was enrolled; a user is VERIFIED or, with a device link,
\* still PENDING.
Init ==
    /\ users \in [Users -> {[row |-> "live", status |-> st] : st \in {"verified", "pending"}}]
    /\ creds \in [Creds -> {[row |-> "live", user |-> u, count |-> 0] : u \in Users}]
    /\ options = [o \in Options |-> [row |-> "never", expired |-> FALSE]]
    /\ sessions = [s \in Sessions |-> [row |-> "never", user |-> None, expired |-> FALSE,
                                       revoked |-> FALSE, answer |-> None]]
    /\ device = [c \in Creds |-> 0]
    /\ signed = {}
    /\ temp = [b \in Browsers |-> None]
    /\ cookie = [b \in Browsers |-> None]
    /\ loggedOut = [b \in Browsers |-> FALSE]
    /\ req = [r \in Reqs |-> Idle]
    /\ overtaken = {}

\* The steps a handler in flight takes by itself.
Advance(r) ==
    \/ ConsumeChallenge(r)
    \/ CheckAnswer(r) \/ CheckRefused(r)
    \/ UpdateCount(r) \/ ReadOwner(r) \/ CredentialGone(r)
    \/ (\E s \in Sessions : CreateSession(r, s)) \/ SessionRefused(r)

Browse(b) ==
    \/ \E o \in Options : LoginOptions(b, o)
    \/ \E r \in Reqs, a \in signed : VerifyRead(r, b, a)
    \/ \E c \in Creds : RemoveCredential(b, c)
    \/ Logout(b) \/ CloseBrowser(b)

Environment ==
    \/ \E c \in Creds, o \in Options : Sign(c, o)
    \/ \E u \in Users : DeleteUser(u) \/ DisableUser(u)
    \/ \E o \in Options : OptionExpires(o)
    \/ \E s \in Sessions : SessionExpires(s)
    \/ (\E r \in Reqs : Fails(r)) \/ Restart

Next == (\E r \in Reqs : Advance(r)) \/ (\E b \in Browsers : Browse(b)) \/ Environment

Spec == Init /\ [][Next]_vars

\* A worker thread that has started a handler finishes it.
FairSpec == Spec /\ \A r \in Reqs : WF_vars(Advance(r))

-----------------------------------------------------------------------------
(* Properties.                                                              *)

\* A session rests on an assertion: the owner of the credential that signed
\* it, over a challenge of the server that is deleted by then.
SessionsTraceable ==
    \A s \in Sessions : sessions[s].row # "never" =>
        LET a == sessions[s].answer IN
        /\ a \in signed
        /\ creds[a.cred].user = sessions[s].user
        /\ options[a.opt].row = "gone"

\* No session outlives its user, also if delete_user commits during a login.
NoOrphanSessions ==
    \A s \in Sessions : Live(sessions, s) => Live(users, sessions[s].user)

OpenedWith(o) == {s \in Sessions : sessions[s].row # "never" /\ sessions[s].answer.opt = o}
HeldBy(o) == {r \in Reqs : req[r].opt = o}

\* login_verify: "the challenge is used once and consumed before it is
\* verified": a challenge opens one session.
OneSessionPerChallenge == \A o \in Options : Cardinality(OpenedWith(o)) <= 1

\* However logins overlap, a challenge has opened no more sessions than there
\* are worker threads, less those that still hold it.
SessionsBounded ==
    \A o \in Options : Cardinality(OpenedWith(o)) + Cardinality(HeldBy(o)) <= Cardinality(Reqs)

\* A challenge is a one-time token: no handler takes it once it is deleted, no
\* session is opened with it before, and each taking opens one at most.
Phase(o) == CASE options[o].row = "never" -> "new"
              [] options[o].row = "live" -> "open"
              [] options[o].row = "gone" -> "spent"

Token == INSTANCE OneTimeToken WITH
            Tokens <- Options, Holders <- Reqs, Things <- Sessions,
            phase <- [o \in Options |-> Phase(o)],
            holders <- [o \in Options |-> HeldBy(o)],
            opened <- [o \in Options |-> OpenedWith(o)]

ChallengeIsOneTime == Token!Spec

\* The stored counter falls, so that an assertion older than the last one
\* accepted passes again, only by a handler that was overtaken between its
\* check and its UPDATE.
Storing(r, c) == req[r].pc = "count" /\ req[r].answer.cred = c /\ req'[r].pc = "owner"
CountFallsOnlyInRace ==
    [][\A c \in Creds : creds'[c].count < creds[c].count
            => \E r \in overtaken : Storing(r, c)]_vars

\* logout: "deletes the session cookie".
LogoutDropsCookie == \A b \in Browsers : loggedOut[b] => cookie[b] = None

\* An accepted assertion becomes a session, unless its credential or its user
\* is deleted meanwhile, while the server and its database run.
AcceptedOpensSession ==
    \A r \in Reqs, a \in Assertion :
        req[r].pc = "count" /\ req[r].answer = a
            ~> \/ \E s \in Sessions : sessions[s].answer = a
               \/ ~Live(creds, a.cred)
=============================================================================
