----------------------------- MODULE LoginProofs -----------------------------
(***************************************************************************)
(* Proofs about Login, for any number of users, credentials, challenges,   *)
(* browsers and worker threads.                                            *)
(***************************************************************************)
EXTENDS Login, TLAPS

\* What a login/verify handler has read still holds when it goes on: its
\* assertion was made, its challenge exists, is consumed before the check and
\* is the one that was signed after it; it logs in the owner of the credential.
RequestOK(q) ==
    /\ q.pc # "idle" =>
         /\ q.browser \in Browsers /\ q.opt \in Options /\ q.answer \in signed
         /\ options[q.opt].row # "never"
    /\ q.pc \in {"check", "count", "owner", "session"} => options[q.opt].row = "gone"
    /\ q.pc \in {"count", "owner", "session"} => q.answer.opt = q.opt
    /\ q.pc = "session" => q.user = creds[q.answer.cred].user

RequestsOK == \A r \in Reqs : RequestOK(req[r])

\* A row that was never inserted belongs to nobody, so no cascade meets it.
UnusedSessionsBlank == \A s \in Sessions : sessions[s].row = "never" => sessions[s].user = None

IInv == TypeOK /\ RequestsOK /\ UnusedSessionsBlank /\ SessionsTraceable /\ NoOrphanSessions

-----------------------------------------------------------------------------
\* The first state is well typed.
LEMMA TypeInit == Init => TypeOK
<1> SUFFICES ASSUME Init PROVE TypeOK
  OBVIOUS
<1> USE LoginAssumption
<1>1. users \in [Users -> UserRow] /\ creds \in [Creds -> CredRow]
  BY DEF Init, UserRow, CredRow, Row
<1>2. options \in [Options -> OptionRow] /\ sessions \in [Sessions -> SessionRow]
  BY DEF Init, OptionRow, SessionRow, Row
<1>3. req \in [Reqs -> Request]
  BY DEF Init, Request, Idle, At, Pc
<1>4. /\ device \in [Creds -> 0..MaxCount] /\ signed \subseteq Assertion
      /\ overtaken \subseteq Reqs
  BY DEF Init
<1>5. /\ temp \in [Browsers -> Options \cup {None}]
      /\ cookie \in [Browsers -> Sessions \cup {None}]
      /\ loggedOut \in [Browsers -> BOOLEAN]
  BY DEF Init
<1> QED
  BY <1>1, <1>2, <1>3, <1>4, <1>5 DEF TypeOK

\* No step leaves the types: a handler works on an assertion that was made.
LEMMA TypeStep == TypeOK /\ RequestsOK /\ [Next]_vars => TypeOK'
<1> SUFFICES ASSUME TypeOK, RequestsOK, [Next]_vars PROVE TypeOK'
  OBVIOUS
<1> USE LoginAssumption DEF TypeOK, tables, world
<1>1. Idle \in Request
  BY DEF Idle, At, Request, Pc
<1>2. ASSUME NEW r \in Reqs, ConsumeChallenge(r) PROVE TypeOK'
  <2>1. options' \in [Options -> OptionRow]
    <3> \A x \in OptionRow : [x EXCEPT !.row = "gone"] \in OptionRow
      BY DEF OptionRow, Row
    <3> QED
      BY <1>2 DEF ConsumeChallenge, Consumed
  <2>2. req' \in [Reqs -> Request]
    <3> \A x \in Request : [x EXCEPT !.pc = "check"] \in Request
      BY DEF Request, Pc
    <3> QED
      BY <1>2 DEF ConsumeChallenge, Goto
  <2> QED
    BY <1>2, <2>1, <2>2 DEF ConsumeChallenge
<1>3. ASSUME NEW r \in Reqs, CheckAnswer(r) PROVE TypeOK'
  <2> \A x \in Request : [x EXCEPT !.pc = "count"] \in Request
    BY DEF Request, Pc
  <2>1. req' \in [Reqs -> Request]
    BY <1>3 DEF CheckAnswer, Goto
  <2> QED
    BY <1>3, <2>1 DEF CheckAnswer
<1>4. ASSUME NEW r \in Reqs, CheckRefused(r) \/ CredentialGone(r) \/ SessionRefused(r)
      PROVE  TypeOK'
  <2>1. req' \in [Reqs -> Request]
    BY <1>1, <1>4 DEF CheckRefused, CredentialGone, SessionRefused, Finish, Goto
  <2> QED
    BY <1>4, <2>1 DEF CheckRefused, CredentialGone, SessionRefused
<1>5. ASSUME NEW r \in Reqs, UpdateCount(r) PROVE TypeOK'
  <2>1. req[r].answer \in Assertion
    BY <1>5 DEF UpdateCount, RequestsOK, RequestOK
  <2>2. StoredCount(req[r].answer) \in 0..MaxCount
    BY <2>1 DEF StoredCount, Assertion
  <2>3. \A x \in CredRow : [x EXCEPT !.count = StoredCount(req[r].answer)] \in CredRow
    BY <2>2 DEF CredRow
  <2>4. creds' \in [Creds -> CredRow]
    BY <1>5, <2>3 DEF UpdateCount
  <2>5. req' \in [Reqs -> Request]
    <3> \A x \in Request : [x EXCEPT !.pc = "owner"] \in Request
      BY DEF Request, Pc
    <3> QED
      BY <1>5 DEF UpdateCount, Goto
  <2> QED
    BY <1>5, <2>4, <2>5 DEF UpdateCount, Waiting
<1>6. ASSUME NEW r \in Reqs, ReadOwner(r) PROVE TypeOK'
  <2> DEFINE u == creds[req[r].answer.cred].user
  <2>1. u \in Users
    BY <1>6 DEF ReadOwner, RequestsOK, RequestOK, Assertion, CredRow
  <2>2. \A x \in Request : [x EXCEPT !.pc = "session", !.user = u] \in Request
    BY <2>1 DEF Request, Pc
  <2>3. req' \in [Reqs -> Request]
    BY <1>6, <2>2 DEF ReadOwner, Goto
  <2> QED
    BY <1>6, <2>3 DEF ReadOwner
<1>7. ASSUME NEW r \in Reqs, NEW s \in Sessions, CreateSession(r, s) PROVE TypeOK'
  <2>1. req[r] \in Request /\ req[r].browser \in Browsers
    BY <1>7 DEF CreateSession, RequestsOK, RequestOK
  <2>2. [row |-> "live", user |-> req[r].user, expired |-> FALSE, revoked |-> FALSE,
         answer |-> req[r].answer] \in SessionRow
    BY <2>1 DEF Request, SessionRow, Row
  <2>3. sessions' \in [Sessions -> SessionRow]
    BY <1>7, <2>2 DEF CreateSession
  <2>4. /\ cookie' \in [Browsers -> Sessions \cup {None}]
        /\ temp' \in [Browsers -> Options \cup {None}]
        /\ loggedOut' \in [Browsers -> BOOLEAN]
    BY <1>7 DEF CreateSession, TakeCookie
  <2>5. req' \in [Reqs -> Request]
    BY <1>1, <1>7 DEF CreateSession, Finish, Goto
  <2> QED
    BY <1>7, <2>3, <2>4, <2>5 DEF CreateSession
<1>8. ASSUME NEW b \in Browsers, NEW o \in Options, LoginOptions(b, o) PROVE TypeOK'
  <2> \A x \in OptionRow : [x EXCEPT !.row = "live"] \in OptionRow
    BY DEF OptionRow, Row
  <2>1. options' \in [Options -> OptionRow]
    BY <1>8 DEF LoginOptions
  <2>2. temp' \in [Browsers -> Options \cup {None}]
    BY <1>8 DEF LoginOptions
  <2> QED
    BY <1>8, <2>1, <2>2 DEF LoginOptions
<1>9. ASSUME NEW b \in Browsers, NEW r \in Reqs, NEW a \in signed, VerifyRead(r, b, a)
      PROVE  TypeOK'
  <2>1. At("consume", b, temp[b], a, None) \in Request
    BY <1>9 DEF VerifyRead, At, Request, Pc
  <2>2. req' \in [Reqs -> Request]
    BY <1>9, <2>1 DEF VerifyRead, Goto
  <2> QED
    BY <1>9, <2>2 DEF VerifyRead
<1>10. ASSUME NEW b \in Browsers, NEW c \in Creds, RemoveCredential(b, c) PROVE TypeOK'
  <2> \A x \in CredRow : [x EXCEPT !.row = "gone"] \in CredRow
    BY DEF CredRow, Row
  <2>1. creds' \in [Creds -> CredRow]
    BY <1>10 DEF RemoveCredential
  <2> QED
    BY <1>10, <2>1 DEF RemoveCredential
<1>11. ASSUME NEW b \in Browsers, Logout(b) \/ CloseBrowser(b) PROVE TypeOK'
  <2>1. cookie' \in [Browsers -> Sessions \cup {None}] /\ loggedOut' \in [Browsers -> BOOLEAN]
    BY <1>11 DEF Logout, CloseBrowser
  <2> QED
    BY <1>11, <2>1 DEF Logout, CloseBrowser
<1>12. ASSUME NEW c \in Creds, NEW o \in Options, Sign(c, o) PROVE TypeOK'
  <2> DEFINE n == IF c \in Counting THEN device[c] + 1 ELSE 0
  <2>1. n \in 0..MaxCount
    BY <1>12 DEF Sign
  <2>2. device' \in [Creds -> 0..MaxCount]
    BY <1>12, <2>1 DEF Sign
  <2>3. [cred |-> c, opt |-> o, count |-> n] \in Assertion
    BY <2>1 DEF Assertion
  <2>4. signed' \subseteq Assertion
    BY <1>12, <2>3 DEF Sign
  <2> QED
    BY <1>12, <2>2, <2>4 DEF Sign
<1>13. ASSUME NEW u \in Users, DeleteUser(u) PROVE TypeOK'
  <2>1. users' \in [Users -> UserRow]
    <3> \A x \in UserRow : [x EXCEPT !.row = "gone"] \in UserRow
      BY DEF UserRow, Row
    <3> QED
      BY <1>13 DEF DeleteUser
  <2>2. creds' \in [Creds -> CredRow]
    <3> \A x \in CredRow : [x EXCEPT !.row = "gone"] \in CredRow
      BY DEF CredRow, Row
    <3> QED
      BY <1>13 DEF DeleteUser
  <2>3. sessions' \in [Sessions -> SessionRow]
    <3> \A x \in SessionRow : [x EXCEPT !.row = "gone"] \in SessionRow
      BY DEF SessionRow, Row
    <3> QED
      BY <1>13 DEF DeleteUser
  <2> QED
    BY <1>13, <2>1, <2>2, <2>3 DEF DeleteUser
<1>14. ASSUME NEW u \in Users, DisableUser(u) PROVE TypeOK'
  <2> \A x \in UserRow : [x EXCEPT !.status = "disabled"] \in UserRow
    BY DEF UserRow
  <2>1. users' \in [Users -> UserRow]
    BY <1>14 DEF DisableUser
  <2> QED
    BY <1>14, <2>1 DEF DisableUser
<1>15. ASSUME NEW o \in Options, OptionExpires(o) PROVE TypeOK'
  <2> \A x \in OptionRow : [x EXCEPT !.expired = TRUE] \in OptionRow
    BY DEF OptionRow
  <2>1. options' \in [Options -> OptionRow]
    BY <1>15 DEF OptionExpires
  <2> QED
    BY <1>15, <2>1 DEF OptionExpires
<1>16. ASSUME NEW s \in Sessions, SessionExpires(s) PROVE TypeOK'
  <2> \A x \in SessionRow : [x EXCEPT !.expired = TRUE] \in SessionRow
    BY DEF SessionRow
  <2>1. sessions' \in [Sessions -> SessionRow]
    BY <1>16 DEF SessionExpires
  <2> QED
    BY <1>16, <2>1 DEF SessionExpires
<1>17. CASE Restart
  BY <1>1, <1>17 DEF Restart
<1>18. ASSUME NEW r \in Reqs, Fails(r) PROVE TypeOK'
  BY <1>1, <1>18 DEF Fails, Finish, Goto
<1>19. CASE UNCHANGED vars
  BY <1>19 DEF vars
<1> QED
  BY <1>2, <1>3, <1>4, <1>5, <1>6, <1>7, <1>8, <1>9, <1>10, <1>11, <1>12, <1>13, <1>14,
     <1>15, <1>16, <1>17, <1>18, <1>19
  DEF Next, Advance, Browse, Environment

-----------------------------------------------------------------------------
(* What one step can do to the tables, whatever action it is.               *)

\* Assertions stay, rows are never forgotten, an owner never changes, a
\* consumed challenge stays consumed and users stay deleted.
Grows ==
    /\ signed \subseteq signed'
    /\ \A c \in Creds : creds'[c].user = creds[c].user
    /\ \A o \in Options : /\ options[o].row # "never" => options'[o].row # "never"
                          /\ options[o].row = "gone" => options'[o].row = "gone"
    /\ \A s \in Sessions : sessions[s].row # "never" =>
         /\ sessions'[s].row # "never"
         /\ sessions'[s].user = sessions[s].user /\ sessions'[s].answer = sessions[s].answer
         /\ Live(sessions', s) => Live(sessions, s)

\* A new session is that of a handler that has got to the end, for a live user.
SessionBirth ==
    \A s \in Sessions : sessions[s].row = "never" /\ sessions'[s].row # "never" =>
        \E r \in Reqs :
            /\ req[r].pc = "session"
            /\ sessions'[s].user = req[r].user /\ sessions'[s].answer = req[r].answer
            /\ Live(users', req[r].user)

\* A user is deleted together with its sessions.
UserDeath ==
    \A u \in Users : Live(users, u) /\ ~Live(users', u) =>
        \A s \in Sessions : sessions'[s].user = u => ~Live(sessions', s)

Effects == Grows /\ SessionBirth /\ UserDeath

\* Every action has these effects and no others.
LEMMA StepEffects == TypeOK /\ UnusedSessionsBlank /\ [Next]_vars => Effects
<1> SUFFICES ASSUME TypeOK, UnusedSessionsBlank, [Next]_vars PROVE Effects
  OBVIOUS
<1> USE DEF Effects, Grows, SessionBirth, UserDeath, Live, tables, world, TypeOK
<1>1. ASSUME NEW r \in Reqs, ConsumeChallenge(r) PROVE Effects
  BY <1>1 DEF ConsumeChallenge, Consumed, OptionRow
<1>2. ASSUME NEW r \in Reqs, UpdateCount(r) PROVE Effects
  BY <1>2 DEF UpdateCount, CredRow
<1>3. ASSUME NEW r \in Reqs, NEW s \in Sessions, CreateSession(r, s) PROVE Effects
  BY <1>3 DEF CreateSession, CanOpen
<1>4. ASSUME NEW b \in Browsers, NEW o \in Options, LoginOptions(b, o) PROVE Effects
  BY <1>4 DEF LoginOptions, OptionRow
<1>5. ASSUME NEW b \in Browsers, NEW c \in Creds, RemoveCredential(b, c) PROVE Effects
  BY <1>5 DEF RemoveCredential, CredRow
<1>6. ASSUME NEW c \in Creds, NEW o \in Options, Sign(c, o) PROVE Effects
  BY <1>6 DEF Sign
<1>7. ASSUME NEW u \in Users, DeleteUser(u) PROVE Effects
  <2>1. \A s \in Sessions : sessions[s].row = "never" => sessions'[s] = sessions[s]
    BY <1>7, LoginAssumption DEF DeleteUser, UnusedSessionsBlank
  <2>2. \A s \in Sessions : sessions'[s] \in {sessions[s], [sessions[s] EXCEPT !.row = "gone"]}
    BY <1>7 DEF DeleteUser
  <2>3. \A c \in Creds : creds'[c].user = creds[c].user
    BY <1>7 DEF DeleteUser, CredRow
  <2>4. UNCHANGED <<signed, options>>
    BY <1>7 DEF DeleteUser, world
  <2>5. Grows /\ SessionBirth
    BY <2>1, <2>2, <2>3, <2>4 DEF SessionRow
  <2>6. UserDeath
    BY <1>7 DEF DeleteUser, UserRow, SessionRow
  <2> QED
    BY <2>5, <2>6 DEF Effects
<1>8. ASSUME NEW u \in Users, DisableUser(u) PROVE Effects
  BY <1>8 DEF DisableUser, UserRow
<1>9. ASSUME NEW o \in Options, OptionExpires(o) PROVE Effects
  BY <1>9 DEF OptionExpires, OptionRow
<1>10. ASSUME NEW s \in Sessions, SessionExpires(s) PROVE Effects
  BY <1>10 DEF SessionExpires, SessionRow
<1>11. CASE UNCHANGED <<tables, signed>>
  BY <1>11
<1> QED
  BY <1>1, <1>2, <1>3, <1>4, <1>5, <1>6, <1>7, <1>8, <1>9, <1>10, <1>11
  DEF Next, Advance, Browse, Environment, CheckAnswer, CheckRefused, ReadOwner, CredentialGone,
      SessionRefused, VerifyRead, Logout, CloseBrowser, Fails, Restart, vars

-----------------------------------------------------------------------------
\* What a handler remembers survives the steps of all others and its own.
LEMMA RequestsStep ==
    TypeOK /\ RequestsOK /\ UnusedSessionsBlank /\ [Next]_vars => RequestsOK'
<1> SUFFICES ASSUME TypeOK, RequestsOK, UnusedSessionsBlank, [Next]_vars, NEW r \in Reqs
             PROVE  RequestOK(req[r])'
  BY DEF RequestsOK
<1> USE DEF TypeOK
<1>0. Effects /\ RequestOK(req[r])
  BY StepEffects DEF RequestsOK
<1>1. CASE req'[r] = req[r]
  BY <1>0, <1>1 DEF Effects, Grows, RequestOK, Assertion
<1>2. CASE req'[r] = Idle
  BY <1>2 DEF RequestOK, Idle, At
<1>3. CASE ConsumeChallenge(r)
  <2>1. req'[r] = [req[r] EXCEPT !.pc = "check"]
    BY <1>3 DEF ConsumeChallenge, Goto
  <2>2. options'[req[r].opt].row = "gone"
    BY <1>0, <1>3 DEF ConsumeChallenge, Consumed, Live, RequestOK, OptionRow, Row
  <2> QED
    BY <1>0, <1>3, <2>1, <2>2 DEF Effects, Grows, RequestOK, Request, ConsumeChallenge
<1>4. CASE CheckAnswer(r)
  <2>1. req'[r] = [req[r] EXCEPT !.pc = "count"]
    BY <1>4 DEF CheckAnswer, Goto
  <2> QED
    BY <1>0, <1>4, <2>1 DEF Effects, Grows, RequestOK, Request, CheckAnswer, AnswerAccepted
<1>5. CASE UpdateCount(r)
  <2>1. req'[r] = [req[r] EXCEPT !.pc = "owner"]
    BY <1>5 DEF UpdateCount, Goto
  <2> QED
    BY <1>0, <1>5, <2>1 DEF Effects, Grows, RequestOK, Request, UpdateCount
<1>6. CASE ReadOwner(r)
  <2>1. req'[r] = [req[r] EXCEPT !.pc = "session", !.user = creds[req[r].answer.cred].user]
    BY <1>6 DEF ReadOwner, Goto
  <2>2. UNCHANGED <<creds, options, signed>>
    BY <1>6 DEF ReadOwner, tables, world
  <2> QED
    BY <1>0, <1>6, <2>1, <2>2 DEF RequestOK, Request, ReadOwner
<1>7. ASSUME NEW b \in Browsers, NEW a \in signed, VerifyRead(r, b, a)
      PROVE  RequestOK(req[r])'
  <2>1. req'[r] = At("consume", b, temp[b], a, None) /\ UNCHANGED <<options, signed>>
    BY <1>7 DEF VerifyRead, Goto, tables, world
  <2> QED
    BY <1>7, <2>1 DEF VerifyRead, RequestOK, At, ChallengeFound, Live
<1> QED
  BY <1>1, <1>2, <1>3, <1>4, <1>5, <1>6, <1>7
  DEF Next, Advance, Browse, Environment, ConsumeChallenge, CheckAnswer, CheckRefused, UpdateCount,
      ReadOwner, CredentialGone, CreateSession, SessionRefused, VerifyRead, LoginOptions, Sign,
      RemoveCredential, Logout, CloseBrowser, DeleteUser, DisableUser, OptionExpires,
      SessionExpires, Fails, Restart, Goto, Finish, world, tables, vars

\* Only session rows that are being inserted get another user: the blank rows
\* are those of sessions nobody has opened.
LEMMA BlankStep == TypeOK /\ UnusedSessionsBlank /\ [Next]_vars => UnusedSessionsBlank'
<1> SUFFICES ASSUME TypeOK, UnusedSessionsBlank, [Next]_vars, NEW s \in Sessions,
                    sessions'[s].row = "never"
             PROVE  sessions'[s].user = None
  BY DEF UnusedSessionsBlank
<1> USE DEF TypeOK, UnusedSessionsBlank, SessionRow
<1>1. sessions[s].row = "never"
  BY StepEffects DEF Effects, Grows
<1>2. CASE sessions'[s] = sessions[s]
  BY <1>1, <1>2
<1>3. ASSUME NEW r \in Reqs, NEW t \in Sessions, CreateSession(r, t) PROVE sessions'[s].user = None
  BY <1>1, <1>3 DEF CreateSession
<1>4. ASSUME NEW u \in Users, DeleteUser(u) PROVE sessions'[s].user = None
  BY <1>1, <1>4 DEF DeleteUser
<1>5. ASSUME NEW t \in Sessions, SessionExpires(t) PROVE sessions'[s].user = None
  BY <1>1, <1>5 DEF SessionExpires
<1> QED
  BY <1>2, <1>3, <1>4, <1>5
  DEF Next, Advance, Browse, Environment, ConsumeChallenge, CheckAnswer, CheckRefused, UpdateCount,
      ReadOwner, CredentialGone, SessionRefused, VerifyRead, LoginOptions, Sign, RemoveCredential,
      Logout, CloseBrowser, DisableUser, OptionExpires, Fails, Restart, tables, vars

\* A session is opened by a handler whose memory is right, and what it was
\* opened with is never forgotten.
LEMMA TraceableStep ==
    TypeOK /\ RequestsOK /\ SessionsTraceable /\ Effects => SessionsTraceable'
<1> SUFFICES ASSUME TypeOK, RequestsOK, SessionsTraceable, Effects, NEW s \in Sessions,
                    sessions'[s].row # "never"
             PROVE  /\ sessions'[s].answer \in signed'
                    /\ creds'[sessions'[s].answer.cred].user = sessions'[s].user
                    /\ options'[sessions'[s].answer.opt].row = "gone"
  BY DEF SessionsTraceable
<1> USE DEF TypeOK, Effects, Grows, Assertion
<1>1. CASE sessions[s].row # "never"
  BY <1>1 DEF SessionsTraceable
<1>2. CASE sessions[s].row = "never"
  <2>1. PICK r \in Reqs : /\ req[r].pc = "session"
                          /\ sessions'[s].user = req[r].user /\ sessions'[s].answer = req[r].answer
    BY <1>2 DEF SessionBirth
  <2>2. RequestOK(req[r])
    BY DEF RequestsOK
  <2> QED
    BY <2>1, <2>2 DEF RequestOK
<1> QED
  BY <1>1, <1>2

\* Sessions are opened only for live users and go with them.
LEMMA OrphanStep ==
    TypeOK /\ SessionsTraceable /\ NoOrphanSessions /\ Effects => NoOrphanSessions'
<1> SUFFICES ASSUME TypeOK, SessionsTraceable, NoOrphanSessions, Effects, NEW s \in Sessions,
                    Live(sessions', s)
             PROVE  Live(users', sessions'[s].user)
  BY DEF NoOrphanSessions, Live
<1> DEFINE u == sessions'[s].user
<1>1. CASE sessions[s].row = "never"
  BY <1>1 DEF Effects, SessionBirth, Live
<1>2. CASE sessions[s].row # "never"
  <2>1. Live(sessions, s) /\ sessions[s].user = u
    BY <1>2 DEF Effects, Grows
  <2>2. Live(users, u)
    BY <2>1 DEF NoOrphanSessions
  <2>3. u \in Users
    BY <1>2, <2>1 DEF SessionsTraceable, TypeOK, Assertion, CredRow
  <2> QED
    BY <2>2, <2>3 DEF Effects, UserDeath
<1> QED
  BY <1>1, <1>2

-----------------------------------------------------------------------------
\* The invariant holds at first,
LEMMA InvInit == Init => IInv
<1> SUFFICES ASSUME Init PROVE IInv
  OBVIOUS
<1>1. TypeOK
  BY TypeInit
<1>2. RequestsOK
  BY DEF Init, RequestsOK, RequestOK, Idle, At
<1>3. UnusedSessionsBlank /\ SessionsTraceable /\ NoOrphanSessions
  BY DEF Init, UnusedSessionsBlank, SessionsTraceable, NoOrphanSessions, Live
<1> QED
  BY <1>1, <1>2, <1>3 DEF IInv

\* and every step keeps it.
LEMMA InvStep == IInv /\ [Next]_vars => IInv'
BY TypeStep, RequestsStep, BlankStep, StepEffects, TraceableStep, OrphanStep DEF IInv

\* The inductive invariant holds throughout.
THEOREM LoginInvariance == Spec => []IInv
BY InvInit, InvStep, PTL DEF Spec

\* Every variable keeps its type: no login/verify handler leaves a row, a
\* cookie or its own memory in a shape the code does not know.
THEOREM LoginTypeCorrect == Spec => []TypeOK
<1>1. IInv => TypeOK
  BY DEF IInv
<1> QED
  BY <1>1, LoginInvariance, PTL

\* A session was opened with an assertion that an authenticator made over a
\* challenge now deleted, and is that of the owner of its credential.
THEOREM SessionsAreTraceable == Spec => []SessionsTraceable
<1>1. IInv => SessionsTraceable
  BY DEF IInv
<1> QED
  BY <1>1, LoginInvariance, PTL

\* No session outlives its user, whenever delete_user commits.
THEOREM NoSessionIsOrphaned == Spec => []NoOrphanSessions
<1>1. IInv => NoOrphanSessions
  BY DEF IInv
<1> QED
  BY <1>1, LoginInvariance, PTL

-----------------------------------------------------------------------------
(* What a step does to a handler and to the sessions of a challenge.        *)

\* Only create_session inserts a session.
LEMMA BirthIsCreation ==
    ASSUME [Next]_vars, TypeOK, UnusedSessionsBlank, NEW s \in Sessions, sessions[s].row = "never",
           sessions'[s].row # "never"
    PROVE  \E r \in Reqs : CreateSession(r, s)
<1> USE DEF TypeOK
<1>1. sessions' # sessions
  OBVIOUS
<1>2. ASSUME NEW r \in Reqs, NEW t \in Sessions, CreateSession(r, t)
      PROVE  \E p \in Reqs : CreateSession(p, s)
  <2>1. s = t
    BY <1>2 DEF CreateSession
  <2> QED
    BY <1>2, <2>1
<1>3. ASSUME NEW u \in Users, DeleteUser(u) PROVE FALSE
  <2>1. sessions[s].user # u
    BY LoginAssumption DEF UnusedSessionsBlank
  <2> QED
    BY <1>3, <2>1 DEF DeleteUser
<1>4. ASSUME NEW t \in Sessions, SessionExpires(t) PROVE FALSE
  BY <1>4 DEF SessionExpires, SessionRow
<1> QED
  BY <1>1, <1>2, <1>3, <1>4
  DEF Next, Advance, Browse, Environment, ConsumeChallenge, CheckAnswer, CheckRefused, UpdateCount,
      ReadOwner, CredentialGone, SessionRefused, VerifyRead, LoginOptions, Sign, RemoveCredential,
      Logout, CloseBrowser, DisableUser, OptionExpires, Fails, Restart, tables, vars

\* A step without a creation leaves the sessions of every challenge as they are.
LEMMA NoCreationNoSession ==
    ASSUME IInv, [Next]_vars, NEW o \in Options, NEW s \in Sessions,
           \A r \in Reqs : ~CreateSession(r, s)
    PROVE  s \in OpenedWith(o)' <=> s \in OpenedWith(o)
<1>1. Effects
  BY StepEffects DEF IInv
<1>2. CASE sessions[s].row # "never"
  BY <1>1, <1>2 DEF Effects, Grows, OpenedWith
<1>3. CASE sessions[s].row = "never"
  <2>1. sessions'[s].row = "never"
    BY <1>3, BirthIsCreation DEF IInv
  <2> QED
    BY <1>3, <2>1 DEF OpenedWith
<1> QED
  BY <1>2, <1>3

\* What a step may do to a handler.
LEMMA RequestChange ==
    ASSUME TypeOK, [Next]_vars, NEW r \in Reqs
    PROVE  \/ req'[r] \in {req[r], Idle}
           \/ ConsumeChallenge(r) \/ CheckAnswer(r) \/ UpdateCount(r) \/ ReadOwner(r)
           \/ \E b \in Browsers, a \in signed : VerifyRead(r, b, a)
<1> DEFINE Changed ==
        \/ req'[r] \in {req[r], Idle}
        \/ ConsumeChallenge(r) \/ CheckAnswer(r) \/ UpdateCount(r) \/ ReadOwner(r)
        \/ \E b \in Browsers, a \in signed : VerifyRead(r, b, a)
<1> SUFFICES Changed
  OBVIOUS
<1>1. ASSUME NEW p \in Reqs, p # r, NEW q, Goto(p, q) PROVE Changed
  BY <1>1 DEF Goto, TypeOK
<1>2. ASSUME NEW p \in Reqs, Finish(p) PROVE Changed
  BY <1>2 DEF Finish, Goto, TypeOK
<1>3. ASSUME NEW p \in Reqs,
             ConsumeChallenge(p) \/ CheckAnswer(p) \/ UpdateCount(p) \/ ReadOwner(p)
      PROVE  Changed
  <2>1. CASE p = r
    BY <1>3, <2>1
  <2>2. CASE p # r
    BY <1>1, <1>3, <2>2 DEF ConsumeChallenge, CheckAnswer, UpdateCount, ReadOwner
  <2> QED
    BY <2>1, <2>2
<1>4. ASSUME NEW p \in Reqs, NEW b \in Browsers, NEW a \in signed, VerifyRead(p, b, a)
      PROVE  Changed
  <2>1. CASE p = r
    BY <1>4, <2>1
  <2>2. CASE p # r
    BY <1>1, <1>4, <2>2 DEF VerifyRead
  <2> QED
    BY <2>1, <2>2
<1>5. CASE req' = req
  BY <1>5
<1>6. CASE Restart
  BY <1>6 DEF Restart
<1> HIDE DEF Changed
<1>7. ASSUME NEW p \in Reqs, Advance(p) PROVE Changed
  BY <1>2, <1>3, <1>7
  DEF Advance, CheckRefused, CredentialGone, CreateSession, SessionRefused
<1>8. ASSUME NEW b \in Browsers, Browse(b) PROVE Changed
  <2>1. \/ \E p \in Reqs, a \in signed : VerifyRead(p, b, a)
        \/ req' = req
    BY <1>8 DEF Browse, LoginOptions, RemoveCredential, Logout, CloseBrowser
  <2> QED
    BY <1>4, <1>5, <2>1
<1>9. CASE Environment
  <2>1. Restart \/ (\E p \in Reqs : Finish(p)) \/ req' = req
    BY <1>9 DEF Fails, Environment, Sign, DeleteUser, DisableUser, OptionExpires, SessionExpires
  <2> QED
    BY <1>2, <1>5, <1>6, <2>1
<1> QED
  BY <1>5, <1>7, <1>8, <1>9 DEF Next, vars

\* A handler that goes on keeps its challenge.
LEMMA ChallengeKept ==
    ASSUME TypeOK, NEW r \in Reqs,
           ConsumeChallenge(r) \/ CheckAnswer(r) \/ UpdateCount(r) \/ ReadOwner(r)
    PROVE  req[r].pc # "idle" /\ req'[r].opt = req[r].opt
<1> USE DEF TypeOK, Goto, Request
<1>1. CASE ConsumeChallenge(r)
  BY <1>1 DEF ConsumeChallenge
<1>2. CASE CheckAnswer(r)
  BY <1>2 DEF CheckAnswer
<1>3. CASE UpdateCount(r)
  BY <1>3 DEF UpdateCount
<1>4. CASE ReadOwner(r)
  BY <1>4 DEF ReadOwner
<1> QED
  BY <1>1, <1>2, <1>3, <1>4
-----------------------------------------------------------------------------
(* A challenge is a one-time token: every step of Login is a step of        *)
(* OneTimeToken or leaves its three variables alone.                        *)

\* A step that lets every handler keep its challenge keeps the holders.
LEMMA SameHolders ==
    ASSUME \A q \in Reqs : req'[q].opt = req[q].opt
    PROVE  \A o \in Options : HeldBy(o)' = HeldBy(o)
BY DEF HeldBy

\* A step that keeps the rows of challenges, or only lets them expire, keeps
\* the phases.
LEMMA SamePhases ==
    ASSUME \A o \in Options : options'[o].row = options[o].row
    PROVE  \A o \in Options : Phase(o)' = Phase(o)
BY DEF Phase

\* A challenge is in one of the three phases.
LEMMA Phases ==
    ASSUME TypeOK, NEW o \in Options
    PROVE  /\ Phase(o) = "new" <=> options[o].row = "never"
           /\ Phase(o) = "open" <=> options[o].row = "live"
           /\ Phase(o) = "spent" <=> options[o].row = "gone"
BY DEF Phase, TypeOK, OptionRow, Row

\* A step without a creation opens nothing.
LEMMA SameOpened ==
    ASSUME IInv, [Next]_vars, \A r \in Reqs, s \in Sessions : ~CreateSession(r, s)
    PROVE  \A o \in Options : OpenedWith(o)' = OpenedWith(o)
BY NoCreationNoSession DEF OpenedWith

\* What does none of the three is a stutter of the token.
LEMMA TokenStutters ==
    ASSUME \A o \in Options : Phase(o)' = Phase(o),
           \A o \in Options : HeldBy(o)' = HeldBy(o),
           \A o \in Options : OpenedWith(o)' = OpenedWith(o)
    PROVE  UNCHANGED Token!vars
BY DEF Token!vars

\* No handler holds a challenge, and none was issued.
LEMMA TokenInit == Init => Token!Init
<1> SUFFICES ASSUME Init PROVE Token!Init
  OBVIOUS
<1> USE LoginAssumption
<1>1. \A o \in Options : Phase(o) = "new"
  BY DEF Init, Phase
<1>2. \A o \in Options : HeldBy(o) = {}
  BY DEF Init, HeldBy, Idle, At
<1>3. \A o \in Options : OpenedWith(o) = {}
  BY DEF Init, OpenedWith
<1> QED
  BY <1>1, <1>2, <1>3 DEF Token!Init

\* login/options issues a challenge that no handler can know.
LEMMA OptionsIssue ==
    ASSUME IInv, [Next]_vars, NEW b \in Browsers, NEW o \in Options, LoginOptions(b, o)
    PROVE  Token!Issue(o)
<1> USE DEF IInv
<1>1. /\ options[o].row = "never" /\ options'[o].row = "live"
      /\ \A p \in Options \ {o} : options'[p] = options[p]
  BY DEF LoginOptions, TypeOK, OptionRow
<1>2. Phase(o) = "new" /\ Phase(o)' = "open" /\ \A p \in Options \ {o} : Phase(p)' = Phase(p)
  BY <1>1 DEF Phase
<1>3. \A p \in Options : HeldBy(p)' = HeldBy(p)
  BY SameHolders DEF LoginOptions
<1>4. \A p \in Options : OpenedWith(p)' = OpenedWith(p)
  BY DEF LoginOptions, OpenedWith
<1> QED
  BY <1>2, <1>3, <1>4 DEF Token!Issue

\* login/verify takes the challenge that it has found.
LEMMA VerifyTakes ==
    ASSUME IInv, NEW r \in Reqs, NEW b \in Browsers, NEW a \in signed, VerifyRead(r, b, a)
    PROVE  \E o \in Options : Token!Take(o, r)
<1> USE LoginAssumption DEF IInv, TypeOK
<1>1. PICK o \in Options : o = temp[b] /\ options[o].row = "live"
  BY DEF VerifyRead, ChallengeFound, Live
<1>2. req[r].opt = None /\ req' = [req EXCEPT ![r] = At("consume", b, o, a, None)]
  BY <1>1 DEF VerifyRead, Goto, Idle, At
<1>3. req'[r].opt = o /\ \A q \in Reqs \ {r} : req'[q] = req[q]
  BY <1>2 DEF At
<1>4. Phase(o) = "open"
  BY <1>1 DEF Phase
<1>5. \A p \in Options : r \notin HeldBy(p)
  BY <1>2 DEF HeldBy
<1>6. HeldBy(o)' = HeldBy(o) \cup {r} /\ \A p \in Options \ {o} : HeldBy(p)' = HeldBy(p)
  BY <1>2, <1>3 DEF HeldBy
<1>7. \A p \in Options : Phase(p)' = Phase(p) /\ OpenedWith(p)' = OpenedWith(p)
  BY DEF VerifyRead, tables, Phase, OpenedWith
<1>8. Token!Take(o, r)
  BY <1>4, <1>5, <1>6, <1>7 DEF Token!Take
<1> QED
  BY <1>8

\* The DELETE spends the challenge, unless another handler has.
LEMMA ConsumptionSpends ==
    ASSUME IInv, NEW r \in Reqs, ConsumeChallenge(r)
    PROVE  (\E S \in SUBSET Options : Token!Spend(S)) \/ UNCHANGED Token!vars
<1> USE DEF IInv, TypeOK
<1>1. PICK o \in Options : o = req[r].opt /\ options' = Consumed(o)
  BY DEF ConsumeChallenge, RequestsOK, RequestOK
<1>2. \A p \in Options : HeldBy(p)' = HeldBy(p)
  <2>1. \A q \in Reqs : req'[q].opt = req[q].opt
    BY DEF ConsumeChallenge, Goto, Request
  <2> QED
    BY <2>1, SameHolders
<1>3. \A p \in Options : OpenedWith(p)' = OpenedWith(p)
  BY DEF ConsumeChallenge, OpenedWith
<1>4. CASE options[o].row = "live"
  <2>1. options'[o].row = "gone" /\ \A p \in Options \ {o} : options'[p] = options[p]
    BY <1>1, <1>4 DEF Consumed, Live, OptionRow
  <2>2. /\ Phase(o) = "open"
        /\ Phase(o)' = "spent" /\ \A p \in Options \ {o} : Phase(p)' = Phase(p)
    BY <1>4, <2>1 DEF Phase
  <2>3. Token!Spend({o})
    BY <1>2, <1>3, <2>2 DEF Token!Spend
  <2> QED
    BY <2>3
<1>5. CASE options[o].row # "live"
  <2>1. \A p \in Options : Phase(p)' = Phase(p)
    BY <1>1, <1>5 DEF Consumed, Live, Phase
  <2> QED
    BY <1>2, <1>3, <2>1, TokenStutters
<1> QED
  BY <1>4, <1>5

\* create_session opens a session with the challenge of its handler, which
\* ends, and with no other.
LEMMA CreationOpens ==
    ASSUME IInv, NEW r \in Reqs, NEW s \in Sessions, CreateSession(r, s)
    PROVE  \E o \in Options : Token!Open(o, r, s)
<1> USE LoginAssumption DEF IInv, TypeOK
<1>1. PICK o \in Options : o = req[r].opt /\ options[o].row = "gone" /\ req[r].answer.opt = o
  BY DEF CreateSession, RequestsOK, RequestOK
<1>2. Phase(o) = "spent" /\ \A p \in Options : Phase(p)' = Phase(p)
  BY <1>1 DEF Phase, CreateSession
<1>3. r \in HeldBy(o)
  BY <1>1 DEF HeldBy
<1>4. HeldBy(o)' = HeldBy(o) \ {r} /\ \A p \in Options \ {o} : HeldBy(p)' = HeldBy(p)
  <2>1. req'[r].opt = None /\ \A q \in Reqs \ {r} : req'[q] = req[q]
    BY DEF CreateSession, Finish, Goto, Idle, At
  <2> QED
    BY <1>1, <2>1 DEF HeldBy
<1>5. \A p \in Options : s \notin OpenedWith(p)
  BY DEF CreateSession, OpenedWith
<1>6. OpenedWith(o)' = OpenedWith(o) \cup {s}
      /\ \A p \in Options \ {o} : OpenedWith(p)' = OpenedWith(p)
  <2>1. /\ sessions[s].row = "never"
        /\ sessions'[s].row = "live" /\ sessions'[s].answer = req[r].answer
        /\ \A t \in Sessions \ {s} : sessions'[t] = sessions[t]
    BY DEF CreateSession
  <2> QED
    BY <1>1, <2>1 DEF OpenedWith
<1>7. Token!Open(o, r, s)
  BY <1>2, <1>3, <1>4, <1>5, <1>6 DEF Token!Open
<1> QED
  BY <1>7

\* A handler that fails, and a restart, let go of challenges.
LEMMA FailureReleases ==
    ASSUME IInv, NEW S \in SUBSET Reqs, \A q \in Reqs : req'[q] = IF q \in S THEN Idle ELSE req[q],
           UNCHANGED tables
    PROVE  Token!Release(S)
<1>1. \A o \in Options : HeldBy(o)' = HeldBy(o) \ S
  BY LoginAssumption DEF HeldBy, Idle, At
<1>2. \A o \in Options : Phase(o)' = Phase(o) /\ OpenedWith(o)' = OpenedWith(o)
  BY DEF tables, Phase, OpenedWith
<1> QED
  BY <1>1, <1>2 DEF Token!Release

\* What else happens is not seen by the token: users and sessions are deleted,
\* challenges and sessions expire, credentials are checked and removed.
LEMMA TokenUnseen ==
    ASSUME IInv, [Next]_vars, \A q \in Reqs : req'[q].opt = req[q].opt,
           \A o \in Options : options'[o].row = options[o].row,
           \A r \in Reqs, s \in Sessions : ~CreateSession(r, s)
    PROVE  UNCHANGED Token!vars
BY SameHolders, SamePhases, SameOpened, TokenStutters

\* Step by step, Login implements OneTimeToken.
LEMMA TokenStep == ASSUME IInv, [Next]_vars PROVE [Token!Next]_(Token!vars)
<1> USE DEF IInv, TypeOK
<1>1. ASSUME NEW r \in Reqs, NEW s \in Sessions, CreateSession(r, s) PROVE Token!Next
  BY <1>1, CreationOpens DEF Token!Next
<1>2. ASSUME NEW r \in Reqs,
             CheckRefused(r) \/ CredentialGone(r) \/ SessionRefused(r) \/ Fails(r)
      PROVE  Token!Next
  <2>1. Token!Release({r})
    BY <1>2, FailureReleases
    DEF CheckRefused, CredentialGone, SessionRefused, Fails, Finish, Goto
  <2> QED
    BY <2>1 DEF Token!Next
<1>3. ASSUME NEW r \in Reqs, ConsumeChallenge(r) PROVE [Token!Next]_(Token!vars)
  BY <1>3, ConsumptionSpends DEF Token!Next
<1>4. ASSUME NEW b \in Browsers, NEW o \in Options, LoginOptions(b, o) PROVE Token!Next
  BY <1>4, OptionsIssue DEF Token!Next
<1>5. ASSUME NEW r \in Reqs, NEW b \in Browsers, NEW a \in signed, VerifyRead(r, b, a)
      PROVE  Token!Next
  BY <1>5, VerifyTakes DEF Token!Next
<1>6. CASE Restart
  <2>1. Token!Release(Reqs)
    BY <1>6, FailureReleases DEF Restart
  <2> QED
    BY <2>1 DEF Token!Next
<1>7. ASSUME NEW r \in Reqs, CheckAnswer(r) \/ UpdateCount(r) \/ ReadOwner(r)
      PROVE  UNCHANGED Token!vars
  <2>1. req'[r].opt = req[r].opt /\ \A q \in Reqs \ {r} : req'[q] = req[q]
    <3> USE DEF Goto, Request
    <3>1. CASE CheckAnswer(r)
      BY <3>1 DEF CheckAnswer
    <3>2. CASE UpdateCount(r)
      BY <3>2 DEF UpdateCount
    <3>3. CASE ReadOwner(r)
      BY <3>3 DEF ReadOwner
    <3> QED
      BY <1>7, <3>1, <3>2, <3>3
  <2>2. options' = options /\ sessions' = sessions
    BY <1>7 DEF CheckAnswer, UpdateCount, ReadOwner, tables
  <2> QED
    BY <2>1, <2>2, SameHolders, TokenStutters DEF Phase, OpenedWith
<1>8. ASSUME req' = req, \A o \in Options : options'[o].row = options[o].row
      PROVE  UNCHANGED Token!vars
  <2>1. \A r \in Reqs, s \in Sessions : ~CreateSession(r, s)
    BY <1>8 DEF CreateSession, Finish, Goto, Idle, At
  <2> QED
    BY <1>8, <2>1, TokenUnseen
<1>9. ASSUME NEW b \in Browsers, Browse(b) PROVE [Token!Next]_(Token!vars)
  <2>1. ASSUME NEW c \in Creds, RemoveCredential(b, c) PROVE UNCHANGED Token!vars
    BY <1>8, <2>1 DEF RemoveCredential
  <2>2. CASE Logout(b) \/ CloseBrowser(b)
    BY <1>8, <2>2 DEF Logout, CloseBrowser, tables
  <2> QED
    BY <1>4, <1>5, <1>9, <2>1, <2>2 DEF Browse
<1>10. CASE Environment
  BY <1>2, <1>6, <1>8, <1>10
  DEF Environment, Sign, DeleteUser, DisableUser, OptionExpires, SessionExpires, tables, OptionRow
<1>11. CASE UNCHANGED vars
  BY <1>8, <1>11 DEF vars
<1> QED
  BY <1>1, <1>2, <1>3, <1>7, <1>9, <1>10, <1>11 DEF Next, Advance

\* A login challenge is a one-time token: no handler takes it once it is
\* deleted, no session is opened with it before, and none without a handler
\* that has taken it, whatever requests overlap and whenever the server stops.
THEOREM ChallengesAreOneTime == Spec => ChallengeIsOneTime
<1>1. Init => Token!Init
  BY TokenInit
<1>2. IInv /\ [Next]_vars => [Token!Next]_(Token!vars)
  BY TokenStep
<1> QED
  BY <1>1, <1>2, LoginInvariance, PTL DEF Spec, ChallengeIsOneTime, Token!Spec

TokenProofs == INSTANCE OneTimeTokenProofs WITH
                  Tokens <- Options, Holders <- Reqs, Things <- Sessions,
                  phase <- [o \in Options |-> Phase(o)],
                  holders <- [o \in Options |-> HeldBy(o)],
                  opened <- [o \in Options |-> OpenedWith(o)]

FinitelyMany == \A o \in Options : IsFiniteSet(OpenedWith(o))

\* What the token promises, said of sessions.
LEMMA BoundedSessions == Spec => [](FinitelyMany /\ SessionsBounded)
<1>1. ChallengeIsOneTime => TokenProofs!Spec
  BY DEF ChallengeIsOneTime, Token!Spec, Token!Init, Token!Next, Token!vars, Token!Issue,
         Token!Take, Token!Spend, Token!Open, Token!Release, TokenProofs!Spec, TokenProofs!Init,
         TokenProofs!Next, TokenProofs!vars, TokenProofs!Issue, TokenProofs!Take,
         TokenProofs!Spend, TokenProofs!Open, TokenProofs!Release
<1>2. TokenProofs!IsFiniteSet(Reqs)
  BY LoginAssumption DEF TokenProofs!IsFiniteSet, IsFiniteSet
<1>3. TokenProofs!Spec => []TokenProofs!UsesBounded
  BY <1>2, TokenProofs!UsesAreBounded
<1>4. TokenProofs!UsesBounded => FinitelyMany /\ SessionsBounded
  <2>1. \A S : TokenProofs!Cardinality(S) = Cardinality(S)
    BY DEF TokenProofs!Cardinality, Cardinality
  <2>2. \A S : TokenProofs!IsFiniteSet(S) <=> IsFiniteSet(S)
    BY DEF TokenProofs!IsFiniteSet, IsFiniteSet
  <2> QED
    BY <2>1, <2>2 DEF TokenProofs!UsesBounded, SessionsBounded, FinitelyMany
<1> QED
  BY <1>1, <1>3, <1>4, ChallengesAreOneTime, PTL

\* However logins overlap, a challenge has opened no more sessions than there
\* are worker threads, less those that still hold it.
THEOREM SessionsAreBounded == Spec => []SessionsBounded
BY BoundedSessions, PTL

-----------------------------------------------------------------------------
(* Signature counters.                                                      *)

\* The counter that a handler is about to store is not lower than the stored
\* one, unless another handler has stored one since its check.
CountReady ==
    \A r \in Reqs :
        req[r].pc = "count" /\ r \notin overtaken
            => req[r].answer.count >= creds[req[r].answer.cred].count

\* Only an accepted assertion changes a stored counter.
LEMMA CountChange ==
    ASSUME TypeOK, [Next]_vars, NEW c \in Creds, creds'[c].count # creds[c].count
    PROVE  \E r \in Reqs : UpdateCount(r) /\ req[r].answer.cred = c
<1> USE DEF TypeOK
<1>1. creds' # creds
  OBVIOUS
<1>2. ASSUME NEW r \in Reqs, UpdateCount(r) PROVE req[r].answer.cred = c
  BY <1>2 DEF UpdateCount
<1>3. ASSUME NEW b \in Browsers, NEW d \in Creds, RemoveCredential(b, d) PROVE FALSE
  BY <1>3 DEF RemoveCredential, CredRow
<1>4. ASSUME NEW u \in Users, DeleteUser(u) PROVE FALSE
  BY <1>4 DEF DeleteUser, CredRow
<1>5. \E r \in Reqs : UpdateCount(r)
  BY <1>1, <1>3, <1>4
  DEF Next, Advance, Browse, Environment, ConsumeChallenge, CheckAnswer, CheckRefused, ReadOwner,
      CredentialGone, CreateSession, SessionRefused, VerifyRead, LoginOptions, Sign, Logout,
      CloseBrowser, DisableUser, OptionExpires, SessionExpires, Fails, Restart, tables, vars
<1> QED
  BY <1>2, <1>5

\* A handler gets to the UPDATE by an assertion whose counter fits.
LEMMA CountEntry ==
    ASSUME TypeOK, RequestsOK, [Next]_vars, NEW r \in Reqs, req'[r].pc = "count"
    PROVE  /\ req'[r].answer = req[r].answer
           /\ req[r].answer \in Assertion
           /\ \/ req[r].pc = "count"
              \/ CountOK(req[r].answer.count, creds[req[r].answer.cred].count)
<1> USE DEF TypeOK
<1>0. req[r].pc # "idle" => req[r].answer \in Assertion
  BY DEF RequestsOK, RequestOK
<1>1. CASE req'[r] = req[r]
  BY <1>0, <1>1
<1>2. CASE req'[r] = Idle
  BY <1>2 DEF Idle, At
<1>3. CASE ConsumeChallenge(r) \/ UpdateCount(r) \/ ReadOwner(r)
  <2>1. CASE ConsumeChallenge(r)
    BY <2>1 DEF ConsumeChallenge, Goto, Request
  <2>2. CASE UpdateCount(r)
    BY <2>2 DEF UpdateCount, Goto, Request
  <2>3. CASE ReadOwner(r)
    BY <2>3 DEF ReadOwner, Goto, Request
  <2> QED
    BY <1>3, <2>1, <2>2, <2>3
<1>4. CASE CheckAnswer(r)
  <2>1. req'[r].answer = req[r].answer
    BY <1>4 DEF CheckAnswer, Goto, Request
  <2>2. CountOK(req[r].answer.count, creds[req[r].answer.cred].count)
    BY <1>4 DEF CheckAnswer, AnswerAccepted
  <2>3. req[r].answer \in Assertion
    BY <1>0, <1>4 DEF CheckAnswer
  <2> QED
    BY <2>1, <2>2, <2>3
<1>5. ASSUME NEW b \in Browsers, NEW a \in signed, VerifyRead(r, b, a) PROVE FALSE
  BY <1>5 DEF VerifyRead, Goto, At
<1> QED
  BY <1>1, <1>2, <1>3, <1>4, <1>5, RequestChange

\* A handler about to store stays overtaken until it checks again.
LEMMA OvertakenStays ==
    ASSUME TypeOK, [Next]_vars, NEW r \in overtaken, req'[r].pc = "count", r \notin overtaken'
    PROVE  CheckAnswer(r)
<1> USE DEF TypeOK
<1>1. ASSUME NEW p \in Reqs, UpdateCount(p) PROVE FALSE
  <2>1. p = r
    BY <1>1 DEF UpdateCount
  <2> QED
    BY <1>1, <2>1 DEF UpdateCount, Goto, Request
<1>2. ASSUME NEW p \in Reqs, CheckAnswer(p) PROVE CheckAnswer(r)
  BY <1>2 DEF CheckAnswer
<1>3. CASE Restart
  BY <1>3 DEF Restart, Idle, At
<1>4. ASSUME NEW p \in Reqs, Fails(p) PROVE FALSE
  <2>1. p = r
    BY <1>4 DEF Fails
  <2> QED
    BY <1>4, <2>1 DEF Fails, Finish, Goto, Idle, At
<1>5. CASE overtaken' = overtaken
  BY <1>5
<1> QED
  BY <1>1, <1>2, <1>3, <1>4, <1>5
  DEF Next, Advance, Browse, Environment, ConsumeChallenge, CheckRefused, ReadOwner,
      CredentialGone, CreateSession, SessionRefused, VerifyRead, LoginOptions, Sign,
      RemoveCredential, Logout, CloseBrowser, DeleteUser, DisableUser, OptionExpires,
      SessionExpires, world, vars

\* Who stores a counter marks all that have checked one before, and a check
\* compares with the stored one.
LEMMA CountStep == TypeOK /\ RequestsOK /\ CountReady /\ [Next]_vars => CountReady'
<1> SUFFICES ASSUME TypeOK, RequestsOK, CountReady, [Next]_vars, NEW r \in Reqs,
                    req'[r].pc = "count", r \notin overtaken'
             PROVE  req'[r].answer.count >= creds'[req'[r].answer.cred].count
  BY DEF CountReady
<1> DEFINE a == req[r].answer
<1>1. /\ req'[r].answer = a /\ a \in Assertion
      /\ req[r].pc = "count" \/ CountOK(a.count, creds[a.cred].count)
  BY CountEntry
<1>2. a.count \in Nat /\ creds[a.cred].count \in Nat /\ a.cred \in Creds
  BY <1>1 DEF Assertion, TypeOK, CredRow
<1>3. a.count >= creds[a.cred].count
  <2>1. CASE CountOK(a.count, creds[a.cred].count)
    BY <1>2, <2>1 DEF CountOK
  <2>2. CASE req[r].pc = "count" /\ r \notin overtaken
    BY <2>2 DEF CountReady
  <2>3. CASE req[r].pc = "count" /\ r \in overtaken
    BY <2>3, OvertakenStays DEF CheckAnswer
  <2> QED
    BY <1>1, <2>1, <2>2, <2>3
<1>4. creds'[a.cred].count = creds[a.cred].count
  <2> SUFFICES ASSUME creds'[a.cred].count # creds[a.cred].count PROVE FALSE
    OBVIOUS
  <2>1. PICK p \in Reqs : UpdateCount(p) /\ req[p].answer.cred = a.cred
    BY <1>2, CountChange
  <2>2. CASE p = r
    BY <2>1, <2>2 DEF UpdateCount, Goto, TypeOK, Request
  <2>3. CASE p # r
    <3>1. req[r].pc = "count"
      BY <2>1, <2>3 DEF UpdateCount, Goto, TypeOK
    <3>2. r \in Waiting(p, a.cred)
      BY <2>3, <3>1 DEF Waiting
    <3> QED
      BY <2>1, <3>2 DEF UpdateCount
  <2> QED
    BY <2>2, <2>3
<1> QED
  BY <1>1, <1>3, <1>4

\* One step that lowers a counter is that of a handler that was overtaken.
LEMMA CountFalls ==
    ASSUME IInv, CountReady, [Next]_vars, NEW c \in Creds, creds'[c].count < creds[c].count
    PROVE  \E r \in overtaken : Storing(r, c)
<1> USE DEF IInv, TypeOK
<1>1. creds[c].count \in Nat
  BY DEF CredRow
<1>2. PICK r \in Reqs : UpdateCount(r) /\ req[r].answer.cred = c
  BY <1>1, CountChange
<1>3. creds'[c].count = req[r].answer.count /\ creds'[c].count \in Nat
  <2>1. req[r].answer \in Assertion
    BY <1>2 DEF UpdateCount, RequestsOK, RequestOK
  <2> QED
    BY <1>2, <2>1 DEF UpdateCount, StoredCount, CredRow, Assertion
<1>4. r \in overtaken
  BY <1>1, <1>2, <1>3 DEF UpdateCount, CountReady
<1>5. Storing(r, c)
  BY <1>2 DEF Storing, UpdateCount, Goto, Request
<1> QED
  BY <1>4, <1>5

\* The stored counter falls, so that an assertion older than the last one
\* accepted passes again, only by a handler that another has overtaken between
\* its check and its UPDATE: neither a replay nor a restart lowers it.
THEOREM CountFallsOnlyByOvertaken == Spec => CountFallsOnlyInRace
<1>1. Init => CountReady
  BY DEF Init, CountReady, Idle, At
<1>2. IInv /\ CountReady /\ [Next]_vars => CountReady'
  BY CountStep DEF IInv
<1>3. IInv /\ CountReady /\ [Next]_vars
        => [\A c \in Creds : creds'[c].count < creds[c].count
                => \E r \in overtaken : Storing(r, c)]_vars
  BY CountFalls
<1> QED
  BY <1>1, <1>2, <1>3, LoginInvariance, PTL DEF Spec, CountFallsOnlyInRace
=============================================================================
