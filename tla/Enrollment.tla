----------------------------- MODULE Enrollment -----------------------------
(***************************************************************************)
(* Enrolment of a passkey: an administrator creates a user and sends a     *)
(* one-time link; the link opens a registration session; the session       *)
(* issues a challenge; the answer to the challenge makes the user VERIFIED *)
(* and stores a credential.                                                *)
(*                                                                         *)
(* Every endpoint here is a plain `def`, so FastAPI runs it in a worker    *)
(* thread: handlers interleave between their database statements.  Reqs is *)
(* the set of worker threads, req[r].pc the next statement of the handler  *)
(* that r runs.  A statement that only rejects the request changes nothing *)
(* and is not a step.  Statements are merged where no other handler can    *)
(* tell: a row read that is only used together with a later read of the    *)
(* same transaction is taken at the later one.                             *)
(***************************************************************************)
EXTENDS Naturals, FiniteSets

CONSTANTS
    Users,        \* user ids (one per users row ever inserted)
    Links,        \* one-time link tokens, never drawn twice
    Kinds,        \* purposes of links: registration, device_registration
    Sessions,     \* registration session tokens, never drawn twice
    Challenges,   \* WebAuthn registration challenges, never drawn twice
    Creds,        \* credential ids made by authenticators
    Reqs,         \* worker threads
    None,         \* the null value
    MayBreak      \* whether the server process, or the connection of one of
                  \* its handlers to the database, is ever lost

ASSUME NoneAssumption ==
    /\ None \notin Users \cup Links \cup Sessions \cup Challenges \cup Creds
    /\ MayBreak \in BOOLEAN
    /\ IsFiniteSet(Reqs)

VARIABLES
    users,      \* table users
    links,      \* table one_time_links
    sessions,   \* table registration_sessions
    creds,      \* table credentials
    asked,      \* the session a challenge was generated for
    req,        \* the handlers in flight
    registered, \* history: the users for whom a credential was ever stored
    stranded,   \* history: other users whose handler was cut off before the INSERT
                \* of the credential, or refused it as another user's, and who
                \* were neither promoted nor disabled since
    outstanding \* history: the challenges a disabled user had when it was disabled

tables == <<users, links, sessions, creds>>
past == <<registered, stranded, outstanding>>
vars == <<users, links, sessions, creds, asked, req, registered, stranded, outstanding>>

-----------------------------------------------------------------------------
(* A row is "never" inserted yet, "live", or "gone" (deleted; its columns   *)
(* are kept as history, no handler reads them).                             *)
Row == {"never", "live", "gone"}

\* "disabled" stands for DISABLED and EXPIRED, which the code treats alike.
\* window: email_verification_expires_at is still ahead.
\* boot: the address and role are those of the initial administrator.
UserRow == [row : Row, status : {"pending", "verified", "disabled"},
            window : BOOLEAN, boot : BOOLEAN]
LinkRow == [row : Row, user : Users \cup {None}, kind : Kinds \cup {None},
            used : BOOLEAN, expired : BOOLEAN]
\* link is history: the link the session was opened with (None: by the
\* initial administrator's login).  used is the column used_at.
SessionRow == [row : Row, user : Users \cup {None}, link : Links \cup {None},
               challenge : Challenges \cup {None}, used : BOOLEAN]
\* chal is history: the challenge that the credential answered.
CredRow == [row : Row, user : Users \cup {None}, chal : Challenges \cup {None}]

Pc == {"idle", "consume", "open", "save", "promote", "store"}
Request == [pc : Pc, user : Users \cup {None}, link : Links \cup {None},
            sess : Sessions \cup {None}, chal : Challenges \cup {None},
            cred : Creds \cup {None}]
At(pc, user, link, sess, chal, cred) ==
    [pc |-> pc, user |-> user, link |-> link, sess |-> sess, chal |-> chal, cred |-> cred]
Idle == At("idle", None, None, None, None, None)

TypeOK ==
    /\ users \in [Users -> UserRow]
    /\ links \in [Links -> LinkRow]
    /\ sessions \in [Sessions -> SessionRow]
    /\ creds \in [Creds -> CredRow]
    /\ asked \in [Challenges -> Sessions \cup {None}]
    /\ req \in [Reqs -> Request]
    /\ registered \subseteq Users /\ stranded \subseteq Users
    /\ outstanding \in [Users -> SUBSET Challenges]

-----------------------------------------------------------------------------
(* Reading the tables.                                                      *)

Live(table, id) == table[id].row = "live"

\* Mutant: the check of used_at is dropped.
LinkUsableIgnoringUse(l) == Live(links, l) /\ ~links[l].expired

\* verify_and_consume_link's checks before it consumes.
LinkUsable(l) == Live(links, l) /\ ~links[l].used /\ ~links[l].expired

\* validate_token: used_at is NULL.  (A session used less than five minutes
\* ago would pass too, but nothing ever sets used_at.)  expires_at is not read.
SessionAccepted(s) == Live(sessions, s) /\ ~sessions[s].used

\* Mutant: the status of the user is not looked at.
MayEnrollAnyone(u) == Live(users, u)

\* read_user: VERIFIED passes, PENDING only before its expiry, the rest fail.
MayEnroll(u) ==
    /\ Live(users, u)
    /\ \/ users[u].status = "verified"
       \/ users[u].status = "pending" /\ users[u].window

\* Mutant: any answer to any challenge passes.
AnswerAcceptedUnchecked(s, ch) == TRUE

\* verify_registration_response compares the challenge the authenticator
\* signed with the one stored in the session.
AnswerAccepted(s, ch) == sessions[s].challenge = ch

\* initial_admin_login, after the configured address and password matched.
BootLoginAllowed(u) ==
    /\ {v \in Users : Live(users, v)} = {u}
    /\ users[u].boot
    /\ users[u].status = "pending"

\* get_link_by_user_id filters on `OneTimeLink.used_at is None`, a Python
\* identity test on the column object: FALSE before any row is looked at.
UsedAtIsNone == FALSE
ReusableLinks(u, kind) ==
    {l \in Links : /\ Live(links, l) /\ links[l].user = u /\ links[l].kind = kind
                   /\ UsedAtIsNone /\ ~links[l].expired}

\* The rows that DELETE FROM users takes along (ON DELETE CASCADE).
Cascade(table, u) ==
    [id \in DOMAIN table |->
        IF table[id].user = u /\ table[id].row = "live"
        THEN [table[id] EXCEPT !.row = "gone"] ELSE table[id]]

\* A session token that no table row and no handler in flight has drawn.
FreshSession(s) == sessions[s].row = "never" /\ \A r \in Reqs : req[r].sess # s
FreshChallenge(ch) == asked[ch] = None /\ \A r \in Reqs : req[r].chal # ch

Goto(r, state) == req' = [req EXCEPT ![r] = state]
\* The handler raises or returns: its thread is free again.
Finish(r) == Goto(r, Idle)

-----------------------------------------------------------------------------
(* Administration.                                                          *)

\* create_user for an unknown address.
CreateUser(u) ==
    /\ users[u].row = "never"
    /\ users' = [users EXCEPT ![u] = [row |-> "live", status |-> "pending",
                                      window |-> TRUE, boot |-> FALSE]]
    /\ UNCHANGED <<links, sessions, creds, asked, req, past>>

\* create_user for the address of an EXPIRED or DISABLED user: the same row
\* is PENDING again, with a new expiry; its credentials stay.
RecreateUser(u) ==
    /\ Live(users, u)
    /\ users[u].status = "disabled"
    /\ users' = [users EXCEPT ![u].status = "pending", ![u].window = TRUE]
    /\ outstanding' = [outstanding EXCEPT ![u] = {}]
    /\ UNCHANGED <<links, sessions, creds, asked, req, registered, stranded>>

\* delete_user: the row and everything that refers to it.
DeleteUser(u) ==
    /\ Live(users, u)
    /\ users' = [users EXCEPT ![u].row = "gone"]
    /\ links' = Cascade(links, u)
    /\ sessions' = Cascade(sessions, u)
    /\ creds' = Cascade(creds, u)
    /\ registered' = registered \ {u}
    /\ stranded' = stranded \ {u}
    /\ outstanding' = [outstanding EXCEPT ![u] = {}]
    /\ UNCHANGED <<asked, req>>

\* The challenges of u: stored in a registration session, or about to be.
ChallengesOf(u) ==
    {ch \in Challenges :
        \/ asked[ch] # None /\ sessions[asked[ch]].user = u
        \/ \E r \in Reqs : req[r].pc = "save" /\ req[r].chal = ch /\ sessions[req[r].sess].user = u}

\* External: the status is set by hand in the database (UserStatus.DISABLED,
\* UserStatus.EXPIRED); no handler sets it.
DisableUser(u) ==
    /\ Live(users, u)
    /\ users[u].status # "disabled"
    /\ users' = [users EXCEPT ![u].status = "disabled"]
    /\ stranded' = stranded \ {u}
    /\ outstanding' = [outstanding EXCEPT ![u] = ChallengesOf(u)]
    /\ UNCHANGED <<links, sessions, creds, asked, req, registered>>

\* create_one_time_link, create_rereg_one_time_link, create_self_device_link:
\* return the reusable link if there is one, else insert a new one (the
\* foreign key refuses an unknown user).
CreateLink(u, kind, l) ==
    /\ ReusableLinks(u, kind) = {}
    /\ Live(users, u)
    /\ links[l].row = "never"
    /\ links' = [links EXCEPT ![l] = [row |-> "live", user |-> u, kind |-> kind,
                                      used |-> FALSE, expired |-> FALSE]]
    /\ UNCHANGED <<users, sessions, creds, asked, req, past>>

\* delete_credential, from the device management page.
RemoveCredential(c) ==
    /\ Live(creds, c)
    /\ creds' = [creds EXCEPT ![c].row = "gone"]
    /\ UNCHANGED <<users, links, sessions, asked, req, past>>

-----------------------------------------------------------------------------
(* GET one-time-link/verify.                                                *)

\* The SELECT of verify_and_consume_link and its three checks.
VerifyLinkRead(r, l, s) ==
    /\ req[r] = Idle
    /\ LinkUsable(l)
    /\ FreshSession(s)
    /\ Goto(r, At("consume", links[l].user, l, s, None, None))
    /\ UNCHANGED <<tables, asked, past>>

\* used_at = now; commit.  The UPDATE names the row by its id only.
ConsumeLink(r) ==
    /\ req[r].pc = "consume"
    /\ Live(links, req[r].link)
    /\ links' = [links EXCEPT ![req[r].link].used = TRUE]
    /\ Goto(r, At("open", req[r].user, req[r].link, req[r].sess, None, None))
    /\ UNCHANGED <<users, sessions, creds, asked, past>>

\* The UPDATE matches no row: StaleDataError.
ConsumeDeletedLink(r) ==
    /\ req[r].pc = "consume"
    /\ ~Live(links, req[r].link)
    /\ Finish(r)
    /\ UNCHANGED <<tables, asked, past>>

\* Mutant: only users that are VERIFIED already get a session.
CanOpenIfVerified(u) == Live(users, u) /\ users[u].status = "verified"

\* The user is found and the foreign key accepts the session.
CanOpen(u) == Live(users, u)

\* generate_token, for a link or for the initial administrator's login.
OpenSession(r) ==
    LET u == req[r].user  s == req[r].sess IN
    /\ req[r].pc = "open"
    /\ CanOpen(u)
    /\ sessions' = [sessions EXCEPT ![s] =
            [row |-> "live", user |-> u, link |-> req[r].link,
             challenge |-> None, used |-> FALSE]]
    /\ Finish(r)
    /\ UNCHANGED <<users, links, creds, asked, past>>

\* The user is not found any more, or the foreign key refuses the INSERT.
OpenSessionForDeletedUser(r) ==
    /\ req[r].pc = "open"
    /\ ~CanOpen(req[r].user)
    /\ Finish(r)
    /\ UNCHANGED <<tables, asked, past>>

\* POST init-admin/login: the checks; generate_token follows in OpenSession.
InitialAdminLogin(r, u, s) ==
    /\ req[r] = Idle
    /\ BootLoginAllowed(u)
    /\ FreshSession(s)
    /\ Goto(r, At("open", u, None, s, None, None))
    /\ UNCHANGED <<tables, asked, past>>

-----------------------------------------------------------------------------
(* POST webauthn/register/options and webauthn/register/verify.             *)

\* _issue_registration_options up to the generated challenge.
OptionsRead(r, s, ch) ==
    /\ req[r] = Idle
    /\ SessionAccepted(s)
    /\ MayEnroll(sessions[s].user)
    /\ FreshChallenge(ch)
    /\ Goto(r, At("save", None, None, s, ch, None))
    /\ UNCHANGED <<tables, asked, past>>

\* save_challenge, and the answer to the browser: a challenge saved before
\* is overwritten.  A session that is gone is not noticed.
SaveChallenge(r) ==
    LET s == req[r].sess  ch == req[r].chal IN
    /\ req[r].pc = "save"
    /\ sessions' = IF Live(sessions, s)
                   THEN [sessions EXCEPT ![s].challenge = ch] ELSE sessions
    /\ asked' = [asked EXCEPT ![ch] = s]
    /\ Finish(r)
    /\ UNCHANGED <<users, links, creds, past>>

\* _verify_registration_and_store up to the verified signature: under the
\* cookie of session s the browser sends credential c and an answer to
\* challenge ch.  Whether c is registered already is not looked at.
\* promote: the endpoint is register/verify, not devices/register/verify.
VerifyAnswer(r, s, ch, c, promote) ==
    /\ req[r] = Idle
    /\ asked[ch] # None
    /\ SessionAccepted(s)
    /\ AnswerAccepted(s, ch)
    /\ Goto(r, At(IF promote THEN "promote" ELSE "store",
                  sessions[s].user, None, None, ch, c))
    /\ UNCHANGED <<tables, asked, past>>

\* Mutant: the name of the enum member is stored instead of its value.
PromotedStatusName == "VERIFIED"
PromotedStatus == "verified"

\* update_user_email_verification commits VERIFIED, whatever the status was.
Promote(r) ==
    /\ req[r].pc = "promote"
    /\ Live(users, req[r].user)
    /\ users' = [users EXCEPT ![req[r].user].status = PromotedStatus]
    /\ outstanding' = [outstanding EXCEPT ![req[r].user] = {}]
    /\ stranded' = stranded \ {req[r].user}
    /\ Goto(r, At("store", req[r].user, None, None, req[r].chal, req[r].cred))
    /\ UNCHANGED <<links, sessions, creds, asked, registered>>

PromoteDeletedUser(r) ==
    /\ req[r].pc = "promote"
    /\ ~Live(users, req[r].user)
    /\ Finish(r)
    /\ UNCHANGED <<tables, asked, past>>

\* Mutant: the foreign key on users is missing.
CanStoreForAnyone(u, c) == ~Live(creds, c)
\* Mutant: register_credential serves PENDING users only.
CanStoreIfPending(u, c) ==
    Live(users, u) /\ users[u].status = "pending" /\ ~Live(creds, c)

\* register_credential's INSERT: credential_id is unique, user_id a foreign key.
CanStore(u, c) == Live(users, u) /\ ~Live(creds, c)
\* Another user has registered the credential id.
HeldByAnother(u, c) == Live(creds, c) /\ creds[c].user # u

StoreCredential(r) ==
    LET u == req[r].user  c == req[r].cred IN
    /\ req[r].pc = "store"
    /\ CanStore(u, c)
    /\ creds' = [creds EXCEPT ![c] = [row |-> "live", user |-> u, chal |-> req[r].chal]]
    /\ registered' = registered \cup {u}
    /\ stranded' = stranded \ {u}
    /\ Finish(r)
    /\ UNCHANGED <<users, links, sessions, asked, outstanding>>

\* The users without a credential whose handlers, in S, end before the INSERT.
CutOff(S) == {req[r].user : r \in {q \in S : req[q].pc = "store"}} \ registered

\* IntegrityError; the rollback does not undo Promote, committed before.
StoreRefused(r) ==
    LET u == req[r].user  c == req[r].cred IN
    /\ req[r].pc = "store"
    /\ ~CanStore(u, c)
    /\ stranded' = IF HeldByAnother(u, c) THEN stranded \cup CutOff({r}) ELSE stranded
    /\ Finish(r)
    /\ UNCHANGED <<tables, asked, registered, outstanding>>

-----------------------------------------------------------------------------
(* Time and crashes.                                                        *)

LinkExpires(l) ==
    /\ Live(links, l) /\ ~links[l].expired
    /\ links' = [links EXCEPT ![l].expired = TRUE]
    /\ UNCHANGED <<users, sessions, creds, asked, req, past>>

WindowCloses(u) ==
    /\ Live(users, u) /\ users[u].window
    /\ users' = [users EXCEPT ![u].window = FALSE]
    /\ UNCHANGED <<links, sessions, creds, asked, req, past>>

\* initialize_system: insert the initial administrator if there is no user.
EnsureInitialAdmin ==
    IF \E u \in Users : Live(users, u)
    THEN UNCHANGED users
    ELSE \/ \E u \in Users :
              /\ users[u].row = "never"
              /\ users' = [users EXCEPT ![u] = [row |-> "live", status |-> "pending",
                                                window |-> TRUE, boot |-> TRUE]]
         \/ (\A u \in Users : users[u].row # "never") /\ UNCHANGED users

\* The next statement or commit of a handler fails for a reason outside of the
\* tables, a lost connection: what it has committed before stays.
Fails(r) ==
    /\ MayBreak
    /\ req[r] # Idle
    /\ stranded' = stranded \cup CutOff({r})
    /\ Finish(r)
    /\ UNCHANGED <<tables, asked, registered, outstanding>>

\* The container restarts: the handlers in flight are lost, committed rows stay.
Restart ==
    /\ MayBreak
    /\ req' = [r \in Reqs |-> Idle]
    /\ stranded' = stranded \cup CutOff(Reqs)
    /\ EnsureInitialAdmin
    /\ UNCHANGED <<links, sessions, creds, asked, registered, outstanding>>

-----------------------------------------------------------------------------
NoUser == [row |-> "never", status |-> "pending", window |-> FALSE, boot |-> FALSE]
NoLink == [row |-> "never", user |-> None, kind |-> None,
           used |-> FALSE, expired |-> FALSE]
NoSession == [row |-> "never", user |-> None, link |-> None,
              challenge |-> None, used |-> FALSE]
NoCred == [row |-> "never", user |-> None, chal |-> None]

\* The first start has inserted the initial administrator.
Init ==
    /\ \E u \in Users :
         users = [v \in Users |->
            IF v = u THEN [row |-> "live", status |-> "pending",
                           window |-> TRUE, boot |-> TRUE] ELSE NoUser]
    /\ links = [l \in Links |-> NoLink]
    /\ sessions = [s \in Sessions |-> NoSession]
    /\ creds = [c \in Creds |-> NoCred]
    /\ asked = [ch \in Challenges |-> None]
    /\ req = [r \in Reqs |-> Idle]
    /\ registered = {} /\ stranded = {}
    /\ outstanding = [u \in Users |-> {}]

\* The steps that a handler in flight takes by itself.
Advance(r) ==
    \/ ConsumeLink(r) \/ ConsumeDeletedLink(r)
    \/ OpenSession(r) \/ OpenSessionForDeletedUser(r)
    \/ SaveChallenge(r)
    \/ Promote(r) \/ PromoteDeletedUser(r)
    \/ StoreCredential(r) \/ StoreRefused(r)

\* The calls that arrive.
Arrive(r) ==
    \/ \E l \in Links, s \in Sessions : VerifyLinkRead(r, l, s)
    \/ \E u \in Users, s \in Sessions : InitialAdminLogin(r, u, s)
    \/ \E s \in Sessions, ch \in Challenges : OptionsRead(r, s, ch)
    \/ \E s \in Sessions, ch \in Challenges, c \in Creds, promote \in BOOLEAN :
           VerifyAnswer(r, s, ch, c, promote)

Administer ==
    \/ \E u \in Users :
         \/ CreateUser(u) \/ RecreateUser(u) \/ DeleteUser(u) \/ DisableUser(u)
         \/ \E kind \in Kinds, l \in Links : CreateLink(u, kind, l)
    \/ \E c \in Creds : RemoveCredential(c)

Tick ==
    \/ \E l \in Links : LinkExpires(l)
    \/ \E u \in Users : WindowCloses(u)

Next == (\E r \in Reqs : Arrive(r) \/ Advance(r) \/ Fails(r)) \/ Administer \/ Tick \/ Restart

Spec == Init /\ [][Next]_vars

\* A worker thread that has started a handler finishes it.
FairSpec == Spec /\ \A r \in Reqs : WF_vars(Advance(r))

-----------------------------------------------------------------------------
(* Properties.                                                              *)

\* A stored credential can be traced: it answers a challenge that was issued
\* to a registration session of the same user, and that session was opened by
\* consuming a link of that user (or by the initial administrator's login).
Traceable(c) ==
    LET ch == creds[c].chal  s == asked[ch]  l == sessions[s].link IN
    /\ ch # None /\ s # None
    /\ sessions[s].user = creds[c].user
    /\ IF l = None THEN users[creds[c].user].boot
       ELSE links[l].used /\ links[l].user = creds[c].user

CredentialsTraceable == \A c \in Creds : creds[c].row # "never" => Traceable(c)

\* No row refers to a deleted user, whatever handlers were in flight when
\* delete_user committed.
NoOrphans ==
    /\ \A l \in Links : Live(links, l) => Live(users, links[l].user)
    /\ \A s \in Sessions : Live(sessions, s) => Live(users, sessions[s].user)
    /\ \A c \in Creds : Live(creds, c) => Live(users, creds[c].user)

StoringFor(u) == \E r \in Reqs : req[r].pc = "store" /\ req[r].user = u

\* UserStatus.VERIFIED: "WebAuthn registered": a VERIFIED user has registered a
\* credential, or the handler that promoted it is about to store one.
VerifiedMeansRegistered ==
    \A u \in Users : Live(users, u) /\ users[u].status = "verified"
        => u \in registered \/ StoringFor(u)

\* What remains of it: a VERIFIED user without a credential is one whose handler
\* a restart or a lost connection has cut off between the promotion and the
\* INSERT, or whose credential id another user had registered.  No other
\* refusal and no race of handlers leaves one behind.
UnregisteredExplained ==
    \A u \in Users : Live(users, u) /\ users[u].status = "verified"
        => u \in registered \/ StoringFor(u) \/ u \in stranded

\* register/options refuses a disabled user, register/verify does not look at
\* the status: what a handler is about to write for a disabled user answers a
\* challenge from before it was disabled.
DisabledAnswersOldOnly ==
    \A r \in Reqs :
        /\ req[r].pc \in {"promote", "store"}
        /\ Live(users, req[r].user) /\ users[req[r].user].status = "disabled"
        => req[r].chal \in outstanding[req[r].user]

OpenedBy(l) == {s \in Sessions : sessions[s].row # "never" /\ sessions[s].link = l}
HeldBy(l) == {r \in Reqs : req[r].link = l}

\* A link is a one-time token: no handler takes it once it is used, no session
\* is opened with it before, and each taking opens one at most.
Phase(l) == CASE links[l].row = "never" -> "new"
              [] Live(links, l) /\ ~links[l].used -> "open"
              [] OTHER -> "spent"

Token == INSTANCE OneTimeToken WITH
            Tokens <- Links, Holders <- Reqs, Things <- Sessions,
            phase <- [l \in Links |-> Phase(l)],
            holders <- [l \in Links |-> HeldBy(l)],
            opened <- [l \in Links |-> OpenedBy(l)]

LinkIsOneTime == Token!Spec

\* verify_and_consume_link: "once called, the token can never be used again".
OneSessionPerLink == \A l \in Links : Cardinality(OpenedBy(l)) <= 1

\* create_one_time_link: an unused link of the same purpose is reused, so
\* that several are not outstanding at once.
OneLiveLinkPerPurpose ==
    \A k, l \in Links :
        /\ Live(links, k) /\ ~links[k].used /\ ~links[k].expired
        /\ Live(links, l) /\ ~links[l].used /\ ~links[l].expired
        /\ links[k].user = links[l].user /\ links[k].kind = links[l].kind
        => k = l

\* A consumed link is not lost: while the server runs, it opens a session
\* unless its user is deleted.
ConsumedLinkOpensSession ==
    \A l \in Links : links[l].used ~> OpenedBy(l) # {} \/ ~Live(links, l)

\* A promoted user ends up with a credential, or deleted, or its credential id
\* was another user's.
VerifiedGetsCredential ==
    \A u \in Users :
        users[u].status = "verified" ~> u \in registered \cup stranded \/ ~Live(users, u)

=============================================================================
