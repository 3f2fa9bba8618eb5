-------------------------- MODULE EnrollmentProofs --------------------------
(***************************************************************************)
(* Proofs about Enrollment, for any number of users, links, sessions,      *)
(* challenges, credentials, worker threads and restarts.                   *)
(***************************************************************************)
EXTENDS Enrollment, TLAPS

\* What the rows that were ever inserted say of each other.  Rows are only
\* marked gone, so none of this is undone by a deletion.
LinksRooted ==
    \A l \in Links : links[l].row # "never"
        => links[l].user \in Users /\ users[links[l].user].row # "never"

\* Only links that were created get used.
LinksUsed == \A l \in Links : links[l].used => links[l].row # "never"

\* u may enrol: through the consumed link l, or as initial administrator.
Invited(u, l) == IF l = None THEN users[u].boot
                 ELSE links[l].used /\ links[l].user = u

SessionsRooted ==
    \A s \in Sessions : sessions[s].row # "never" =>
        /\ sessions[s].user \in Users
        /\ users[sessions[s].user].row # "never"
        /\ Invited(sessions[s].user, sessions[s].link)

ChallengesRooted ==
    /\ \A s \in Sessions : sessions[s].challenge # None
            => asked[sessions[s].challenge] = s
    /\ \A ch \in Challenges : asked[ch] # None => sessions[asked[ch]].row # "never"

\* What a handler in flight remembers still holds when it goes on.
ConsumeOK(q) ==
    /\ q.link \in Links /\ links[q.link].row # "never"
    /\ q.user = links[q.link].user
    /\ q.sess \in Sessions /\ sessions[q.sess].row = "never"

OpenOK(q) ==
    /\ q.user \in Users /\ users[q.user].row # "never"
    /\ Invited(q.user, q.link)
    /\ q.sess \in Sessions /\ sessions[q.sess].row = "never"

SaveOK(q) ==
    /\ q.sess \in Sessions /\ sessions[q.sess].row # "never"
    /\ q.chal \in Challenges /\ asked[q.chal] = None

\* The answer that a handler is storing was asked of a session of its user.
AnswerOK(q) ==
    /\ q.user \in Users
    /\ q.cred \in Creds /\ q.chal \in Challenges
    /\ asked[q.chal] \in Sessions
    /\ sessions[asked[q.chal]].row # "never"
    /\ sessions[asked[q.chal]].user = q.user

RequestOK(q) ==
    /\ q.pc = "consume" => ConsumeOK(q)
    /\ q.pc = "open" => OpenOK(q)
    /\ q.pc = "save" => SaveOK(q)
    /\ q.pc \in {"promote", "store"} => AnswerOK(q)

RequestsOK == \A r \in Reqs : RequestOK(req[r])

\* A token that x has drawn is not y's.
NoClash(x, y) ==
    /\ x.pc \in {"consume", "open"} => x.sess # y.sess
    /\ x.pc = "save" => x.chal # y.chal

DrawnOnce == \A q, r \in Reqs : q # r => NoClash(req[q], req[r])

CredsRooted ==
    \A c \in Creds : creds[c].row # "never" =>
        /\ creds[c].user \in Users
        /\ creds[c].chal \in Challenges
        /\ asked[creds[c].chal] \in Sessions
        /\ sessions[asked[creds[c].chal]].row # "never"
        /\ sessions[asked[creds[c].chal]].user = creds[c].user

\* Whose credential is stored is on record as registered.
HoldersRegistered == \A c \in Creds : Live(creds, c) => creds[c].user \in registered

IInv ==
    /\ TypeOK
    /\ LinksRooted /\ LinksUsed /\ SessionsRooted /\ ChallengesRooted
    /\ RequestsOK /\ DrawnOnce /\ CredsRooted
    /\ NoOrphans
    /\ HoldersRegistered /\ UnregisteredExplained

-----------------------------------------------------------------------------
\* The empty tables are well typed.
LEMMA TypeInit == Init => TypeOK
BY NoneAssumption DEF Init, TypeOK, UserRow, Row, LinkRow, SessionRow, CredRow,
   Request, Pc, At, Idle, NoUser, NoLink, NoSession, NoCred

\* The handlers that are about to store a credential do so for users.
LEMMA CutOffUsers ==
    ASSUME RequestsOK, NEW S \in SUBSET Reqs
    PROVE  CutOff(S) \subseteq Users
BY DEF CutOff, RequestsOK, RequestOK, AnswerOK

\* No step leaves the types: a row is only ever built from typed parts.
LEMMA TypeStep == TypeOK /\ RequestsOK /\ [Next]_vars => TypeOK'
<1> SUFFICES ASSUME TypeOK, RequestsOK, [Next]_vars PROVE TypeOK'
  OBVIOUS
<1> USE NoneAssumption DEF TypeOK, past
<1>1. ASSUME NEW r \in Reqs, Arrive(r) PROVE TypeOK'
  <2> USE DEF LinkRow, SessionRow, Request, Pc, At, Idle, Goto, Finish, tables
  <2>1. ASSUME NEW l \in Links, NEW s \in Sessions, VerifyLinkRead(r, l, s) PROVE TypeOK'
    BY <2>1 DEF VerifyLinkRead
  <2>2. ASSUME NEW u \in Users, NEW s \in Sessions, InitialAdminLogin(r, u, s) PROVE TypeOK'
    BY <2>2 DEF InitialAdminLogin
  <2>3. ASSUME NEW s \in Sessions, NEW ch \in Challenges, OptionsRead(r, s, ch) PROVE TypeOK'
    BY <2>3 DEF OptionsRead
  <2>4. ASSUME NEW s \in Sessions, NEW ch \in Challenges, NEW c \in Creds,
               NEW promote \in BOOLEAN, VerifyAnswer(r, s, ch, c, promote)
        PROVE TypeOK'
    BY <2>4 DEF VerifyAnswer
  <2> QED
    BY <1>1, <2>1, <2>2, <2>3, <2>4 DEF Arrive
<1>2. ASSUME NEW r \in Reqs, Advance(r) \/ Fails(r) PROVE TypeOK'
  <2> USE DEF Request, Pc, At, Idle, Goto, Finish, tables
  <2>1. CASE ConsumeLink(r)
    <3> \A x \in LinkRow : [x EXCEPT !.used = TRUE] \in LinkRow
      BY DEF LinkRow
    <3>1. links' \in [Links -> LinkRow]
      BY <2>1 DEF ConsumeLink
    <3>2. req' \in [Reqs -> Request]
      BY <2>1 DEF ConsumeLink
    <3>3. UNCHANGED <<users, sessions, creds, asked, past>>
      BY <2>1 DEF ConsumeLink
    <3> QED
      BY <3>1, <3>2, <3>3
  <2>2. CASE OpenSession(r)
    BY <2>2 DEF OpenSession, SessionRow, Row
  <2>3. CASE SaveChallenge(r)
    <3> \A x \in SessionRow : [x EXCEPT !.challenge = req[r].chal] \in SessionRow
      BY DEF SessionRow
    <3>1. sessions' \in [Sessions -> SessionRow]
      BY <2>3 DEF SaveChallenge
    <3>2. req' \in [Reqs -> Request] /\ asked' \in [Challenges -> Sessions \cup {None}]
      BY <2>3 DEF SaveChallenge
    <3>3. UNCHANGED <<users, links, creds, past>>
      BY <2>3 DEF SaveChallenge
    <3> QED
      BY <3>1, <3>2, <3>3
  <2>4. CASE Promote(r)
    <3> \A x \in UserRow : [x EXCEPT !.status = PromotedStatus] \in UserRow
      BY DEF UserRow, PromotedStatus
    <3>1. users' \in [Users -> UserRow]
      BY <2>4 DEF Promote
    <3>2. req' \in [Reqs -> Request]
      BY <2>4 DEF Promote
    <3>3. /\ UNCHANGED <<links, sessions, creds, asked, registered>>
          /\ stranded' \subseteq Users /\ outstanding' \in [Users -> SUBSET Challenges]
      BY <2>4 DEF Promote
    <3> QED
      BY <3>1, <3>2, <3>3
  <2>5. CASE StoreCredential(r)
    <3>1. req[r].user \in Users
      BY <2>5 DEF StoreCredential, RequestsOK, RequestOK, AnswerOK
    <3>2. creds' \in [Creds -> CredRow]
      BY <2>5 DEF StoreCredential, CredRow, Row
    <3>3. /\ UNCHANGED <<users, links, sessions, asked, outstanding>>
          /\ req' \in [Reqs -> Request]
      BY <2>5 DEF StoreCredential
    <3>4. registered' \subseteq Users /\ stranded' \subseteq Users
      BY <2>5, <3>1 DEF StoreCredential
    <3> QED
      BY <3>2, <3>3, <3>4
  <2>6. CASE ConsumeDeletedLink(r) \/ OpenSessionForDeletedUser(r) \/ PromoteDeletedUser(r)
    BY <2>6 DEF ConsumeDeletedLink, OpenSessionForDeletedUser, PromoteDeletedUser
  <2>7. CASE StoreRefused(r) \/ Fails(r)
    <3>1. CutOff({r}) \subseteq Users
      BY CutOffUsers
    <3>2. stranded' \in {stranded, stranded \cup CutOff({r})}
      BY <2>7 DEF StoreRefused, Fails
    <3>3. UNCHANGED <<tables, asked, registered, outstanding>> /\ req' \in [Reqs -> Request]
      BY <2>7 DEF StoreRefused, Fails
    <3> QED
      BY <3>1, <3>2, <3>3
  <2> QED
    BY <1>2, <2>1, <2>2, <2>3, <2>4, <2>5, <2>6, <2>7 DEF Advance
<1>3. ASSUME NEW u \in Users,
             CreateUser(u) \/ RecreateUser(u) \/ DisableUser(u) \/ WindowCloses(u)
      PROVE TypeOK'
  <2>1. users' \in [Users -> UserRow]
    <3>1. CASE CreateUser(u)
      BY <3>1 DEF CreateUser, UserRow, Row
    <3>2. CASE RecreateUser(u)
      <4> \A x \in UserRow : [x EXCEPT !.status = "pending", !.window = TRUE] \in UserRow
        BY DEF UserRow
      <4> QED
        BY <3>2 DEF RecreateUser
    <3>3. CASE DisableUser(u)
      BY <3>3 DEF DisableUser, UserRow
    <3>4. CASE WindowCloses(u)
      BY <3>4 DEF WindowCloses, UserRow
    <3> QED
      BY <1>3, <3>1, <3>2, <3>3, <3>4
  <2>2. UNCHANGED <<links, sessions, creds, asked, req>>
    BY <1>3 DEF CreateUser, RecreateUser, DisableUser, WindowCloses
  <2>3. /\ registered' \subseteq Users /\ stranded' \subseteq Users
        /\ outstanding' \in [Users -> SUBSET Challenges]
    BY <1>3 DEF CreateUser, RecreateUser, DisableUser, WindowCloses, ChallengesOf
  <2> QED
    BY <2>1, <2>2, <2>3
<1>4. ASSUME NEW u \in Users, DeleteUser(u) PROVE TypeOK'
  <2>1. users' \in [Users -> UserRow]
    BY <1>4 DEF DeleteUser, UserRow, Row
  <2>2. /\ \A x \in LinkRow : [x EXCEPT !.row = "gone"] \in LinkRow
        /\ \A x \in SessionRow : [x EXCEPT !.row = "gone"] \in SessionRow
        /\ \A x \in CredRow : [x EXCEPT !.row = "gone"] \in CredRow
    BY DEF LinkRow, SessionRow, CredRow, Row
  <2>3. /\ links' \in [Links -> LinkRow]
        /\ sessions' \in [Sessions -> SessionRow]
        /\ creds' \in [Creds -> CredRow]
    BY <1>4, <2>2 DEF DeleteUser, Cascade
  <2>4. /\ UNCHANGED <<asked, req>>
        /\ registered' \subseteq Users /\ stranded' \subseteq Users
        /\ outstanding' \in [Users -> SUBSET Challenges]
    BY <1>4 DEF DeleteUser
  <2> QED
    BY <2>1, <2>3, <2>4
<1>5. ASSUME NEW u \in Users, NEW kind \in Kinds, NEW l \in Links, CreateLink(u, kind, l)
      PROVE TypeOK'
  BY <1>5 DEF CreateLink, LinkRow, Row
<1>6. ASSUME NEW c \in Creds, RemoveCredential(c) PROVE TypeOK'
  <2>1. creds' \in [Creds -> CredRow]
    BY <1>6 DEF RemoveCredential, CredRow, Row
  <2>2. UNCHANGED <<users, links, sessions, asked, req, past>>
    BY <1>6 DEF RemoveCredential
  <2> QED
    BY <2>1, <2>2
<1>7. ASSUME NEW l \in Links, LinkExpires(l) PROVE TypeOK'
  <2>1. links' \in [Links -> LinkRow]
    BY <1>7 DEF LinkExpires, LinkRow
  <2>2. UNCHANGED <<users, sessions, creds, asked, req, past>>
    BY <1>7 DEF LinkExpires
  <2> QED
    BY <2>1, <2>2
<1>8. CASE Restart
  <2>1. users' \in [Users -> UserRow]
    <3>1. CASE UNCHANGED users
      BY <3>1
    <3>2. CASE ~UNCHANGED users
      <4> PICK u \in Users :
            users' = [users EXCEPT ![u] = [row |-> "live", status |-> "pending",
                                           window |-> TRUE, boot |-> TRUE]]
        BY <1>8, <3>2 DEF Restart, EnsureInitialAdmin
      <4> QED
        BY DEF UserRow, Row
    <3> QED
      BY <3>1, <3>2
  <2>2. req' \in [Reqs -> Request]
    BY <1>8 DEF Restart, Request, Pc, At, Idle
  <2>3. UNCHANGED <<links, sessions, creds, asked, registered, outstanding>>
    BY <1>8 DEF Restart
  <2>4. stranded' \subseteq Users
    BY <1>8, CutOffUsers DEF Restart
  <2> QED
    BY <2>1, <2>2, <2>3, <2>4
<1>9. CASE UNCHANGED vars
  BY <1>9 DEF vars
<1> QED
  BY <1>1, <1>2, <1>3, <1>4, <1>5, <1>6, <1>7, <1>8, <1>9 DEF Next, Administer, Tick

-----------------------------------------------------------------------------
(* What one step can do to each table, whatever action it is.               *)

\* A step undoes no history: what a row that exists says of its origin stays.
Grows ==
    /\ \A u \in Users : users[u].row # "never"
         => users'[u].row # "never" /\ users'[u].boot = users[u].boot
    /\ \A l \in Links : links[l].row # "never"
         => /\ links'[l].row # "never" /\ links'[l].user = links[l].user
            /\ links[l].used => links'[l].used
            /\ Live(links', l) => Live(links, l)
    /\ \A l \in Links : links'[l].used => links[l].used \/ links'[l].row # "never"
    /\ \A s \in Sessions : sessions[s].row # "never"
         => /\ sessions'[s].row # "never" /\ sessions'[s].user = sessions[s].user
            /\ sessions'[s].link = sessions[s].link
            /\ Live(sessions', s) => Live(sessions, s)
    /\ \A ch \in Challenges : asked[ch] # None => asked'[ch] = asked[ch]
    /\ \A c \in Creds : creds[c].row # "never" => creds'[c].row # "never"

\* A new link belongs to a user that is there.
LinkBirth ==
    \A l \in Links : links[l].row = "never" /\ links'[l].row # "never"
        => links'[l].user \in Users /\ Live(users', links'[l].user)

\* A new session is the one its handler has drawn.
SessionBirth ==
    \A s \in Sessions : sessions[s].row = "never" /\ sessions'[s].row # "never"
        => \E r \in Reqs :
              /\ req[r].pc = "open" /\ req[r].sess = s
              /\ sessions'[s].user = req[r].user /\ sessions'[s].link = req[r].link
              /\ Live(users', req[r].user) /\ req'[r] = Idle

\* A challenge appears in a session, or is asked, when its handler saves it.
ChallengeBirth ==
    /\ \A s \in Sessions : sessions'[s].challenge \notin {None, sessions[s].challenge}
         => \E r \in Reqs : /\ req[r].pc = "save" /\ req[r].sess = s
                            /\ sessions'[s].challenge = req[r].chal
                            /\ asked'[req[r].chal] = s
    /\ \A ch \in Challenges : asked'[ch] # asked[ch]
         => \E r \in Reqs : /\ req[r].pc = "save" /\ req[r].chal = ch
                            /\ asked'[ch] = req[r].sess /\ req'[r] = Idle

\* A credential is stored by the handler that verified it.
CredBirth ==
    \A c \in Creds : creds'[c].row # "never" =>
        \/ /\ creds[c].row # "never" /\ creds'[c].user = creds[c].user
           /\ creds'[c].chal = creds[c].chal
           /\ (Live(creds', c) => Live(creds, c))
        \/ \E r \in Reqs : /\ req[r].pc = "store" /\ req[r].cred = c
                           /\ creds'[c].user = req[r].user /\ Live(users', req[r].user)
                           /\ creds'[c].chal = req[r].chal
                           /\ req[r].user \in registered'

\* A user is deleted together with every row that refers to it.
UserDeath ==
    \A u \in Users : Live(users, u) /\ ~Live(users', u) =>
        /\ \A l \in Links : links'[l].user = u => ~Live(links', l)
        /\ \A s \in Sessions : sessions'[s].user = u => ~Live(sessions', s)
        /\ \A c \in Creds : creds'[c].user = u => ~Live(creds', c)

\* Who has registered stays on record while it exists.
RecordKept == \A u \in registered : Live(users', u) => u \in registered'

Effects == Grows /\ LinkBirth /\ SessionBirth /\ ChallengeBirth /\ CredBirth /\ UserDeath /\ RecordKept

\* Every action has these effects and no others.
LEMMA StepEffects == TypeOK /\ RequestsOK /\ [Next]_vars => Effects
<1> SUFFICES ASSUME TypeOK, RequestsOK, [Next]_vars PROVE Effects
  OBVIOUS
<1> USE DEF Effects, Grows, LinkBirth, SessionBirth, ChallengeBirth, CredBirth,
           UserDeath, RecordKept, Live, tables, past
<1>1. ASSUME NEW r \in Reqs, Arrive(r) PROVE Effects
  <2>1. CASE UNCHANGED <<tables, asked, registered>>
    BY <2>1
  <2> QED
    BY <1>1, <2>1 DEF Arrive, VerifyLinkRead, InitialAdminLogin, OptionsRead, VerifyAnswer
<1>2. ASSUME NEW r \in Reqs, Advance(r) \/ Fails(r) PROVE Effects
  <2>1. CASE ConsumeLink(r)
    BY <2>1 DEF ConsumeLink, TypeOK, LinkRow
  <2>2. CASE OpenSession(r)
    BY <2>2 DEF OpenSession, Finish, Goto, TypeOK, SessionRow, CanOpen,
                RequestsOK, RequestOK, OpenOK
  <2>3. CASE SaveChallenge(r)
    BY <2>3 DEF SaveChallenge, Finish, Goto, TypeOK, SessionRow,
                RequestsOK, RequestOK, SaveOK
  <2>4. CASE Promote(r)
    BY <2>4 DEF Promote, TypeOK, UserRow
  <2>5. CASE StoreCredential(r)
    BY <2>5 DEF StoreCredential, TypeOK, CredRow, CanStore
  <2>6. CASE UNCHANGED <<tables, asked, registered>>
    BY <2>6
  <2> QED
    BY <1>2, <2>1, <2>2, <2>3, <2>4, <2>5, <2>6
    DEF Advance, ConsumeDeletedLink, OpenSessionForDeletedUser, PromoteDeletedUser,
        StoreRefused, Fails
<1>3. ASSUME NEW u \in Users, CreateUser(u) PROVE Effects
  BY <1>3 DEF CreateUser, TypeOK, UserRow
<1>4. ASSUME NEW u \in Users, RecreateUser(u) \/ DisableUser(u) \/ WindowCloses(u)
      PROVE Effects
  <2>1. UNCHANGED <<links, sessions, creds, asked, registered>>
    BY <1>4 DEF RecreateUser, DisableUser, WindowCloses
  <2>2. \A v \in Users : users'[v].row = users[v].row /\ users'[v].boot = users[v].boot
    <3> USE DEF TypeOK, UserRow
    <3>1. CASE RecreateUser(u)
      BY <3>1 DEF RecreateUser
    <3>2. CASE DisableUser(u)
      BY <3>2 DEF DisableUser
    <3>3. CASE WindowCloses(u)
      BY <3>3 DEF WindowCloses
    <3> QED
      BY <1>4, <3>1, <3>2, <3>3
  <2> QED
    BY <2>1, <2>2
<1>5. ASSUME NEW u \in Users, DeleteUser(u) PROVE Effects
  BY <1>5 DEF DeleteUser, Cascade, TypeOK, UserRow, LinkRow, SessionRow, CredRow
<1>6. ASSUME NEW u \in Users, NEW kind \in Kinds, NEW l \in Links, CreateLink(u, kind, l)
      PROVE Effects
  BY <1>6 DEF CreateLink, TypeOK, LinkRow
<1>7. ASSUME NEW c \in Creds, RemoveCredential(c) PROVE Effects
  BY <1>7 DEF RemoveCredential, TypeOK, CredRow
<1>8. ASSUME NEW l \in Links, LinkExpires(l) PROVE Effects
  BY <1>8 DEF LinkExpires, TypeOK, LinkRow
<1>9. CASE Restart
  BY <1>9 DEF Restart, EnsureInitialAdmin, TypeOK, UserRow
<1>10. CASE UNCHANGED vars
  BY <1>10 DEF vars
<1> QED
  BY <1>1, <1>2, <1>3, <1>4, <1>5, <1>6, <1>7, <1>8, <1>9, <1>10 DEF Next, Administer, Tick

-----------------------------------------------------------------------------
(* The inductive invariant.                                                 *)

\* Tables: every row has an origin, before and after a step.
LEMMA RootedStep ==
    IInv /\ TypeOK' /\ Effects
        => LinksRooted' /\ LinksUsed' /\ SessionsRooted' /\ ChallengesRooted' /\ CredsRooted'
<1> SUFFICES ASSUME IInv, TypeOK', Effects
             PROVE  /\ LinksRooted' /\ LinksUsed' /\ SessionsRooted'
                    /\ ChallengesRooted' /\ CredsRooted'
  OBVIOUS
<1> USE NoneAssumption DEF IInv, Effects, Grows
<1>1. LinksRooted' /\ LinksUsed'
  BY DEF LinksRooted, LinksUsed, LinkBirth, Live
<1>2. ASSUME NEW s \in Sessions, sessions'[s].row # "never"
      PROVE  /\ sessions'[s].user \in Users
             /\ users'[sessions'[s].user].row # "never"
             /\ Invited(sessions[s].user, sessions[s].link)'
  <2>1. CASE sessions[s].row # "never"
    <3>1. Invited(sessions[s].user, sessions[s].link) /\ sessions[s].user \in Users
          /\ users[sessions[s].user].row # "never"
      BY <2>1 DEF SessionsRooted
    <3>2. sessions[s].link = None \/ sessions[s].link \in Links
      BY DEF TypeOK, SessionRow
    <3>3. sessions[s].link # None => links[sessions[s].link].row # "never"
      BY <3>1, <3>2 DEF Invited, LinksUsed
    <3> QED
      BY <2>1, <3>1, <3>2, <3>3 DEF Invited
  <2>2. CASE sessions[s].row = "never"
    <3> PICK r \in Reqs : /\ req[r].pc = "open" /\ req[r].sess = s
                          /\ sessions'[s].user = req[r].user
                          /\ sessions'[s].link = req[r].link
                          /\ Live(users', req[r].user)
      BY <1>2, <2>2 DEF SessionBirth
    <3>1. OpenOK(req[r])
      BY DEF RequestsOK, RequestOK
    <3>2. req[r].link = None \/ req[r].link \in Links
      BY DEF TypeOK, Request
    <3> QED
      BY <3>1, <3>2 DEF OpenOK, Invited, Live, LinksUsed
  <2> QED
    BY <2>1, <2>2
<1>3. SessionsRooted'
  BY <1>2 DEF SessionsRooted
<1>4. ASSUME NEW s \in Sessions, sessions'[s].challenge # None
      PROVE  asked'[sessions'[s].challenge] = s
  <2>1. CASE sessions'[s].challenge = sessions[s].challenge
    <3>1. asked[sessions[s].challenge] = s /\ sessions[s].challenge \in Challenges
      BY <1>4, <2>1 DEF ChallengesRooted, TypeOK, SessionRow
    <3> QED
      BY <2>1, <3>1
  <2>2. CASE sessions'[s].challenge # sessions[s].challenge
    BY <1>4, <2>2 DEF ChallengeBirth
  <2> QED
    BY <2>1, <2>2
<1>5. ASSUME NEW ch \in Challenges, asked'[ch] # None
      PROVE  sessions'[asked'[ch]].row # "never"
  <2>1. CASE asked'[ch] = asked[ch]
    BY <1>5, <2>1 DEF ChallengesRooted, TypeOK
  <2>2. CASE asked'[ch] # asked[ch]
    <3> PICK r \in Reqs : req[r].pc = "save" /\ req[r].chal = ch /\ asked'[ch] = req[r].sess
      BY <2>2 DEF ChallengeBirth
    <3> SaveOK(req[r])
      BY DEF RequestsOK, RequestOK
    <3> QED
      BY DEF SaveOK
  <2> QED
    BY <2>1, <2>2
<1>6. ChallengesRooted'
  BY <1>4, <1>5 DEF ChallengesRooted
<1>7. CredsRooted'
  BY DEF CredsRooted, CredBirth, RequestsOK, RequestOK, AnswerOK
<1> QED
  BY <1>1, <1>3, <1>6, <1>7

\* No row outlives its user, whatever handler was about to insert it.
LEMMA NoOrphansStep == IInv /\ TypeOK' /\ Effects => NoOrphans'
BY DEF IInv, Effects, Grows, NoOrphans, LinksRooted, SessionsRooted, CredsRooted,
       LinkBirth, SessionBirth, CredBirth, UserDeath, Live

\* A handler that does not move still remembers the truth: nobody else can
\* use up what it has drawn.
LEMMA RequestStays ==
    ASSUME IInv, TypeOK', Effects, NEW r \in Reqs, req'[r] = req[r]
    PROVE  RequestOK(req[r])'
<1> USE NoneAssumption DEF IInv, Effects, Grows
<1> DEFINE q == req[r]
<1>1. RequestOK(q) /\ q \in Request
  BY DEF RequestsOK, TypeOK
<1>2. \A s \in Sessions : /\ q.pc \in {"consume", "open"} /\ q.sess = s
                          /\ sessions[s].row = "never"
                          => sessions'[s].row = "never"
  <2> SUFFICES ASSUME NEW s \in Sessions, q.pc \in {"consume", "open"}, q.sess = s,
                      sessions[s].row = "never", sessions'[s].row # "never"
               PROVE  FALSE
    OBVIOUS
  <2> PICK p \in Reqs : req[p].pc = "open" /\ req[p].sess = s /\ req'[p] = Idle
    BY DEF SessionBirth
  <2>1. p # r
    BY DEF Idle, At
  <2> QED
    BY <2>1 DEF DrawnOnce, NoClash
<1>3. \A ch \in Challenges : q.pc = "save" /\ q.chal = ch /\ asked[ch] = None
                             => asked'[ch] = None
  <2> SUFFICES ASSUME NEW ch \in Challenges, q.pc = "save", q.chal = ch,
                      asked[ch] = None, asked'[ch] # None
               PROVE  FALSE
    OBVIOUS
  <2> PICK p \in Reqs : req[p].pc = "save" /\ req[p].chal = ch /\ req'[p] = Idle
    BY DEF ChallengeBirth
  <2>1. p # r
    BY DEF Idle, At
  <2> QED
    BY <2>1 DEF DrawnOnce, NoClash
<1>4. q.pc = "consume" => ConsumeOK(q)'
  BY <1>1, <1>2 DEF RequestOK, ConsumeOK
<1>5. q.pc = "open" => OpenOK(q)'
  BY <1>1, <1>2 DEF RequestOK, OpenOK, Invited, LinksUsed, Request
<1>6. q.pc = "save" => SaveOK(q)'
  BY <1>1, <1>3 DEF RequestOK, SaveOK
<1>7. q.pc \in {"promote", "store"} => AnswerOK(q)'
  BY <1>1 DEF RequestOK, AnswerOK
<1> QED
  BY <1>4, <1>5, <1>6, <1>7 DEF RequestOK, ConsumeOK, OpenOK, SaveOK, AnswerOK

\* Only handler r moves; where it goes is right, and clashes with no other.
Turn(r) ==
    /\ \A q \in Reqs \ {r} : req'[q] = req[q]
    /\ RequestOK(req[r])'
    /\ \A q \in Reqs \ {r} : NoClash(req'[r], req[q]) /\ NoClash(req[q], req'[r])

Moves(r, x) == req'[r] = x /\ \A q \in Reqs \ {r} : req'[q] = req[q]

\* A handler that ends leaves nothing to be right about.
LEMMA IdleTurn ==
    ASSUME IInv, NEW r \in Reqs, Finish(r)
    PROVE  Turn(r)
BY NoneAssumption DEF IInv, Turn, Finish, Goto, Idle, At, RequestOK, NoClash,
   RequestsOK, ConsumeOK, OpenOK, SaveOK, TypeOK

\* Every statement that a handler executes leads to such a state.
LEMMA HandlerTurn ==
    ASSUME IInv, TypeOK', Effects, NEW r \in Reqs, Arrive(r) \/ Advance(r) \/ Fails(r)
    PROVE  Turn(r)
<1> USE NoneAssumption DEF Goto, Moves
<1> req \in [Reqs -> Request]
  BY DEF IInv, TypeOK
<1>1. ASSUME NEW l \in Links, NEW s \in Sessions, VerifyLinkRead(r, l, s)
      PROVE  Turn(r)
  <2> DEFINE x == At("consume", links[l].user, l, s, None, None)
  <2>1. Moves(r, x) /\ UNCHANGED tables
    BY <1>1 DEF VerifyLinkRead
  <2>2. RequestOK(req[r])'
    BY <1>1, <2>1 DEF VerifyLinkRead, RequestOK, ConsumeOK, At, LinkUsable, Live, FreshSession,
       tables
  <2>3. \A q \in Reqs \ {r} : NoClash(req'[r], req[q]) /\ NoClash(req[q], req'[r])
    BY <1>1 DEF VerifyLinkRead, FreshSession, NoClash, At, IInv, RequestsOK, RequestOK, SaveOK
  <2> QED
    BY <2>1, <2>2, <2>3 DEF Turn
<1>2. ASSUME NEW u \in Users, NEW s \in Sessions, InitialAdminLogin(r, u, s)
      PROVE  Turn(r)
  <2> DEFINE x == At("open", u, None, s, None, None)
  <2>1. Moves(r, x) /\ UNCHANGED tables
    BY <1>2 DEF InitialAdminLogin
  <2>2. RequestOK(req[r])'
    BY <1>2, <2>1 DEF InitialAdminLogin, RequestOK, OpenOK, Invited, At, BootLoginAllowed,
       Live, FreshSession, tables
  <2>3. \A q \in Reqs \ {r} : NoClash(req'[r], req[q]) /\ NoClash(req[q], req'[r])
    BY <1>2 DEF InitialAdminLogin, FreshSession, NoClash, At, IInv, RequestsOK, RequestOK, SaveOK
  <2> QED
    BY <2>1, <2>2, <2>3 DEF Turn
<1>3. ASSUME NEW s \in Sessions, NEW ch \in Challenges, OptionsRead(r, s, ch)
      PROVE  Turn(r)
  <2> DEFINE x == At("save", None, None, s, ch, None)
  <2>1. Moves(r, x) /\ UNCHANGED <<tables, asked>>
    BY <1>3 DEF OptionsRead
  <2>2. RequestOK(req[r])'
    BY <1>3, <2>1 DEF OptionsRead, RequestOK, SaveOK, At, SessionAccepted, Live,
       FreshChallenge, tables
  <2>3. \A q \in Reqs \ {r} : NoClash(req'[r], req[q]) /\ NoClash(req[q], req'[r])
    BY <1>3 DEF OptionsRead, FreshChallenge, SessionAccepted, Live, NoClash, At,
       IInv, RequestsOK, RequestOK, ConsumeOK, OpenOK
  <2> QED
    BY <2>1, <2>2, <2>3 DEF Turn
<1>4. ASSUME NEW s \in Sessions, NEW ch \in Challenges, NEW c \in Creds,
             NEW promote \in BOOLEAN, VerifyAnswer(r, s, ch, c, promote)
      PROVE  Turn(r)
  <2> DEFINE x == At(IF promote THEN "promote" ELSE "store",
                     sessions[s].user, None, None, ch, c)
  <2>1. Moves(r, x) /\ UNCHANGED <<tables, asked>>
    BY <1>4 DEF VerifyAnswer
  <2>2. /\ sessions[s].row # "never" /\ sessions[s].user \in Users
        /\ asked[ch] = s
    BY <1>4 DEF VerifyAnswer, SessionAccepted, Live, AnswerAccepted, IInv, SessionsRooted,
       ChallengesRooted, TypeOK
  <2>3. RequestOK(req[r])'
    BY <2>1, <2>2 DEF RequestOK, AnswerOK, At, tables
  <2>4. \A q \in Reqs \ {r} : NoClash(req'[r], req[q]) /\ NoClash(req[q], req'[r])
    BY <2>1, <2>2 DEF NoClash, At, IInv, RequestsOK, RequestOK, ConsumeOK, OpenOK, SaveOK
  <2> QED
    BY <2>1, <2>3, <2>4 DEF Turn
<1>5. CASE ConsumeLink(r)
  <2> DEFINE x == At("open", req[r].user, req[r].link, req[r].sess, None, None)
  <2>1. ConsumeOK(req[r]) /\ Live(links, req[r].link)
    BY <1>5 DEF ConsumeLink, IInv, RequestsOK, RequestOK
  <2>2. Moves(r, x) /\ UNCHANGED <<users, sessions>>
        /\ links' = [links EXCEPT ![req[r].link].used = TRUE]
    BY <1>5 DEF ConsumeLink
  <2>3. links[req[r].link] \in LinkRow /\ req[r].link \in DOMAIN links
    BY <2>1 DEF ConsumeOK, IInv, TypeOK
  <2>4. links'[req[r].link].used /\ links'[req[r].link].user = req[r].user
    BY <2>1, <2>2, <2>3 DEF ConsumeOK, LinkRow
  <2>5. req[r].user \in Users /\ users[req[r].user].row # "never"
    BY <2>1 DEF ConsumeOK, IInv, LinksRooted
  <2>6. RequestOK(req[r])'
    BY <2>1, <2>2, <2>4, <2>5 DEF RequestOK, OpenOK, Invited, ConsumeOK, At
  <2>7. \A q \in Reqs \ {r} : NoClash(req'[r], req[q]) /\ NoClash(req[q], req'[r])
    BY <1>5, <2>1 DEF ConsumeLink, IInv, DrawnOnce, NoClash, At, RequestsOK, RequestOK, SaveOK
  <2> QED
    BY <2>2, <2>6, <2>7 DEF Turn
<1>6. CASE Promote(r)
  <2> DEFINE x == At("store", req[r].user, None, None, req[r].chal, req[r].cred)
  <2>1. AnswerOK(req[r])
    BY <1>6 DEF Promote, IInv, RequestsOK, RequestOK
  <2>2. Moves(r, x) /\ UNCHANGED <<sessions, asked>>
    BY <1>6 DEF Promote
  <2>3. RequestOK(req[r])'
    BY <2>1, <2>2 DEF RequestOK, AnswerOK, At
  <2>4. \A q \in Reqs \ {r} : NoClash(req'[r], req[q]) /\ NoClash(req[q], req'[r])
    BY <2>1, <2>2 DEF AnswerOK, IInv, NoClash, At, RequestsOK, RequestOK, ConsumeOK, OpenOK, SaveOK
  <2> QED
    BY <2>2, <2>3, <2>4 DEF Turn
<1>7. CASE Finish(r)
  BY <1>7, IdleTurn
<1> QED
  BY <1>1, <1>2, <1>3, <1>4, <1>5, <1>6, <1>7
  DEF Arrive, Advance, ConsumeDeletedLink, OpenSession, OpenSessionForDeletedUser,
      SaveChallenge, PromoteDeletedUser, StoreCredential, StoreRefused, Fails

\* So the handlers in flight are right about the tables after every step.
LEMMA RequestsStep ==
    IInv /\ TypeOK' /\ Effects /\ [Next]_vars => RequestsOK' /\ DrawnOnce'
<1> SUFFICES ASSUME IInv, TypeOK', Effects, [Next]_vars PROVE RequestsOK' /\ DrawnOnce'
  OBVIOUS
<1>1. ASSUME NEW r \in Reqs, Arrive(r) \/ Advance(r) \/ Fails(r) PROVE RequestsOK' /\ DrawnOnce'
  <2>1. Turn(r)
    BY <1>1, HandlerTurn
  <2>2. \A q \in Reqs \ {r} : RequestOK(req[q])'
    BY <2>1, RequestStays DEF Turn
  <2>3. RequestsOK'
    BY <2>1, <2>2 DEF RequestsOK, Turn
  <2>4. DrawnOnce'
    BY <2>1 DEF DrawnOnce, Turn, NoClash, IInv
  <2> QED
    BY <2>3, <2>4
<1>2. CASE UNCHANGED req
  <2>1. RequestsOK'
    BY <1>2, RequestStays DEF RequestsOK
  <2> QED
    BY <1>2, <2>1 DEF DrawnOnce, NoClash, IInv
<1>3. CASE Restart
  BY <1>3 DEF Restart, RequestsOK, RequestOK, DrawnOnce, NoClash, Idle, At
<1> QED
  BY <1>1, <1>2, <1>3
  DEF Next, Administer, Tick, CreateUser, RecreateUser, DeleteUser, DisableUser, CreateLink,
      RemoveCredential, LinkExpires, WindowCloses, vars

\* A user becomes VERIFIED only by the handler that answers for it.
LEMMA VerifiedByPromote ==
    ASSUME TypeOK, [Next]_vars,
           NEW u \in Users, Live(users', u), users'[u].status = "verified"
    PROVE  \/ Live(users, u) /\ users[u].status = "verified"
           \/ \E r \in Reqs : Promote(r) /\ req[r].user = u
<1> USE DEF Live, TypeOK, UserRow, tables
<1>1. CASE UNCHANGED users
  BY <1>1
<1>2. ASSUME NEW r \in Reqs, Promote(r)
      PROVE \/ users[u].row = "live" /\ users[u].status = "verified"
            \/ req[r].user = u
  BY <1>2 DEF Promote
<1>3. ASSUME NEW v \in Users,
             CreateUser(v) \/ RecreateUser(v) \/ DeleteUser(v) \/ DisableUser(v) \/ WindowCloses(v)
      PROVE users[u].row = "live" /\ users[u].status = "verified"
  <2>1. CASE CreateUser(v) \/ RecreateUser(v)
    BY <2>1 DEF CreateUser, RecreateUser
  <2>2. CASE DeleteUser(v)
    BY <2>2 DEF DeleteUser
  <2>3. CASE DisableUser(v)
    BY <2>3 DEF DisableUser
  <2>4. CASE WindowCloses(v)
    BY <2>4 DEF WindowCloses
  <2> QED
    BY <1>3, <2>1, <2>2, <2>3, <2>4
<1>4. CASE Restart
  BY <1>4 DEF Restart, EnsureInitialAdmin
<1> QED
  BY <1>1, <1>2, <1>3, <1>4
  DEF Next, Arrive, Advance, Administer, Tick, VerifyLinkRead, InitialAdminLogin, OptionsRead,
      VerifyAnswer, ConsumeLink, ConsumeDeletedLink, OpenSession, OpenSessionForDeletedUser,
      SaveChallenge, PromoteDeletedUser, StoreCredential, StoreRefused, Fails, CreateLink,
      RemoveCredential, LinkExpires, vars

\* Nobody loses a record by another one's deletion.
LEMMA RegisteredStays == IInv /\ NoOrphans' /\ Effects => HoldersRegistered'
BY DEF IInv, Effects, RecordKept, HoldersRegistered, CredBirth, NoOrphans, Live

\* A handler that leaves its INSERT of a credential behind leaves its user with
\* a credential or stranded.
LEMMA StoringEnds ==
    ASSUME IInv, Effects, [Next]_vars, NEW u \in Users, Live(users', u),
           NEW r \in Reqs, req[r].pc = "store", req[r].user = u, req'[r] # req[r]
    PROVE  u \in registered' \/ u \in stranded'
<1> USE DEF Live
<1>1. AnswerOK(req[r]) /\ req \in [Reqs -> Request]
  BY DEF IInv, TypeOK, RequestsOK, RequestOK
<1>2. u \in registered => u \in registered'
  BY DEF Effects, RecordKept
<1>3. CASE StoreCredential(r)
  BY <1>1, <1>3 DEF StoreCredential
<1>4. CASE StoreRefused(r)
  <2>1. Live(creds, req[r].cred)
    BY <1>4 DEF StoreRefused, CanStore, tables
  <2>2. CASE creds[req[r].cred].user = u
    BY <1>1, <1>2, <2>1, <2>2 DEF IInv, HoldersRegistered, AnswerOK
  <2>3. CASE creds[req[r].cred].user # u
    BY <1>2, <1>4, <2>1, <2>3 DEF StoreRefused, HeldByAnother, CutOff
  <2> QED
    BY <2>2, <2>3
<1>5. CASE Fails(r)
  BY <1>2, <1>5 DEF Fails, CutOff
<1>6. CASE Restart
  BY <1>2, <1>6 DEF Restart, CutOff
<1>7. ASSUME NEW q \in Reqs, Arrive(q) \/ Advance(q) \/ Fails(q)
      PROVE  q = r
  BY <1>1, <1>7
  DEF Arrive, Advance, Fails, VerifyLinkRead, InitialAdminLogin, OptionsRead, VerifyAnswer,
      ConsumeLink, ConsumeDeletedLink, OpenSession, OpenSessionForDeletedUser, SaveChallenge,
      Promote, PromoteDeletedUser, StoreCredential, StoreRefused, Finish, Goto
<1>8. Arrive(r) \/ Advance(r) => StoreCredential(r) \/ StoreRefused(r)
  <2>1. req[r] # Idle
    BY DEF Idle, At
  <2>2. ~Arrive(r)
    BY <2>1 DEF Arrive, VerifyLinkRead, InitialAdminLogin, OptionsRead, VerifyAnswer
  <2> QED
    BY <2>2 DEF Advance, ConsumeLink, ConsumeDeletedLink, OpenSession,
       OpenSessionForDeletedUser, SaveChallenge, Promote, PromoteDeletedUser
<1> QED
  BY <1>3, <1>4, <1>5, <1>6, <1>7, <1>8
  DEF Next, Administer, Tick, CreateUser, RecreateUser, DeleteUser, DisableUser, CreateLink,
      RemoveCredential, LinkExpires, WindowCloses, vars

\* A stranded user stays so until it is promoted again, gets a credential, or is
\* disabled or deleted.
LEMMA StrandedStays ==
    ASSUME IInv, [Next]_vars, NEW u \in stranded, Live(users', u), users'[u].status = "verified"
    PROVE  \/ u \in stranded' \/ u \in registered'
           \/ \E r \in Reqs : Promote(r) /\ req[r].user = u
<1> USE DEF IInv, TypeOK
<1>1. CASE stranded \subseteq stranded'
  BY <1>1
<1>2. ASSUME NEW r \in Reqs, StoreCredential(r) PROVE u \in stranded' \/ u \in registered'
  BY <1>2 DEF StoreCredential
<1>3. ASSUME NEW v \in Users, DeleteUser(v) \/ DisableUser(v) PROVE u \in stranded'
  BY <1>3 DEF DeleteUser, DisableUser, Live, UserRow
<1>4. ASSUME NEW r \in Reqs, Promote(r)
      PROVE  u \in stranded' \/ req[r].user = u
  BY <1>4 DEF Promote
<1>5. CASE Restart
  BY <1>5 DEF Restart
<1>6. ASSUME NEW r \in Reqs, Fails(r) \/ StoreRefused(r) PROVE u \in stranded'
  BY <1>6 DEF Fails, StoreRefused
<1> QED
  BY <1>1, <1>2, <1>3, <1>4, <1>5, <1>6
  DEF Next, Arrive, Advance, Administer, Tick, VerifyLinkRead, InitialAdminLogin, OptionsRead,
      VerifyAnswer, ConsumeLink, ConsumeDeletedLink, OpenSession, OpenSessionForDeletedUser,
      SaveChallenge, PromoteDeletedUser, CreateUser, RecreateUser, CreateLink,
      RemoveCredential, LinkExpires, WindowCloses, past, vars

\* VERIFIED keeps meaning registered, or is explained.
LEMMA RegisteredStep ==
    IInv /\ TypeOK' /\ Effects /\ [Next]_vars => UnregisteredExplained'
<1> SUFFICES ASSUME IInv, TypeOK', Effects, [Next]_vars,
                    NEW u \in Users, Live(users', u), users'[u].status = "verified"
             PROVE  u \in registered' \/ StoringFor(u)' \/ u \in stranded'
  BY DEF UnregisteredExplained, Live
<1>1. ASSUME NEW r \in Reqs, Promote(r), req[r].user = u
      PROVE  StoringFor(u)'
  BY <1>1 DEF Promote, Goto, At, StoringFor, IInv, TypeOK
<1>2. ASSUME Live(users, u), users[u].status = "verified"
      PROVE  u \in registered' \/ StoringFor(u)' \/ u \in stranded'
  <2>1. u \in registered \/ StoringFor(u) \/ u \in stranded
    BY <1>2 DEF IInv, UnregisteredExplained
  <2>2. ASSUME NEW r \in Reqs, req[r].pc = "store", req[r].user = u
        PROVE  u \in registered' \/ StoringFor(u)' \/ u \in stranded'
    <3>1. CASE req'[r] = req[r]
      BY <2>2, <3>1 DEF StoringFor
    <3>2. CASE req'[r] # req[r]
      BY <2>2, <3>2, StoringEnds
    <3> QED
      BY <3>1, <3>2
  <2>3. u \in registered => u \in registered'
    BY DEF Effects, RecordKept
  <2>4. u \in stranded => u \in registered' \/ StoringFor(u)' \/ u \in stranded'
    BY <1>1, StrandedStays
  <2> QED
    BY <2>1, <2>2, <2>3, <2>4 DEF StoringFor
<1> QED
  BY <1>1, <1>2, VerifiedByPromote DEF IInv

\* The invariant holds after the first start of the server,
LEMMA IInvInit == Init => IInv
<1> SUFFICES ASSUME Init PROVE IInv
  OBVIOUS
<1>1. TypeOK
  BY TypeInit
<1>2. /\ \A u \in Users : users[u].status = "pending"
      /\ \A l \in Links : links[l] = NoLink
      /\ \A s \in Sessions : sessions[s] = NoSession
      /\ \A ch \in Challenges : asked[ch] = None
      /\ \A c \in Creds : creds[c] = NoCred
      /\ \A r \in Reqs : req[r] = Idle
  BY DEF Init, NoUser
<1> QED
  BY <1>1, <1>2 DEF IInv, LinksRooted, LinksUsed, SessionsRooted, ChallengesRooted, RequestsOK,
     RequestOK, DrawnOnce, NoClash, CredsRooted, NoOrphans, HoldersRegistered, UnregisteredExplained, Live,
     NoLink, NoSession, NoCred, Idle, At

\* and every step keeps it.
LEMMA IInvStep == IInv /\ [Next]_vars => IInv'
<1> SUFFICES ASSUME IInv, [Next]_vars PROVE IInv'
  OBVIOUS
<1>1. TypeOK'
  BY TypeStep DEF IInv
<1>2. Effects
  BY StepEffects DEF IInv
<1> QED
  BY <1>1, <1>2, RootedStep, NoOrphansStep, RequestsStep, RegisteredStays, RegisteredStep
     DEF IInv

\* The inductive invariant: tables, challenges and handlers in flight agree on
\* where every session, challenge and credential comes from.
THEOREM Invariance == Spec => []IInv
BY IInvInit, IInvStep, PTL DEF Spec

\* Every table row, challenge and handler in flight has its type throughout.
THEOREM TypeCorrect == Spec => []TypeOK
<1>1. IInv => TypeOK
  BY DEF IInv
<1> QED
  BY <1>1, Invariance, PTL

\* Whatever is interleaved, deleted, expired or lost in a restart, a stored
\* credential answers a challenge issued to a session of its user, opened by
\* consuming a link of that user or by the initial administrator's login.
THEOREM CredentialsAreTraceable == Spec => []CredentialsTraceable
<1>1. IInv => CredentialsTraceable
  BY NoneAssumption DEF IInv, CredentialsTraceable, Traceable, CredsRooted, SessionsRooted, Invited
<1> QED
  BY <1>1, Invariance, PTL

\* No link, session or credential outlives the user it belongs to.
THEOREM NothingIsOrphaned == Spec => []NoOrphans
<1>1. IInv => NoOrphans
  BY DEF IInv
<1> QED
  BY <1>1, Invariance, PTL

\* A VERIFIED user has registered a credential, or the handler that promoted it
\* is about to store one, or was cut off there by a restart or a lost connection,
\* or was refused it because another user had registered the credential id.
THEOREM UnregisteredAreExplained == Spec => []UnregisteredExplained
<1>1. IInv => UnregisteredExplained
  BY DEF IInv
<1> QED
  BY <1>1, Invariance, PTL

-----------------------------------------------------------------------------
(* Disabled users.                                                          *)

\* No challenge is issued to a user after it was disabled.
NothingNew ==
    \A u \in Users : Live(users, u) /\ users[u].status = "disabled"
        => ChallengesOf(u) \subseteq outstanding[u]

\* A user that is disabled after a step was so before, with the same challenges
\* outstanding, or is disabled by this step.
LEMMA DisabledStays ==
    ASSUME IInv, [Next]_vars, NEW u \in Users, Live(users', u), users'[u].status = "disabled"
    PROVE  \/ DisableUser(u)
           \/ /\ Live(users, u) /\ users[u].status = "disabled"
              /\ outstanding'[u] = outstanding[u]
<1> USE DEF IInv, TypeOK, Live, UserRow
<1> DEFINE Kept == /\ users[u].row = "live" /\ users[u].status = "disabled"
                   /\ outstanding'[u] = outstanding[u]
<1>1. ASSUME NEW r \in Reqs, Promote(r) PROVE Kept
  BY <1>1 DEF Promote, PromotedStatus
<1>2. ASSUME NEW v \in Users, CreateUser(v) PROVE Kept
  BY <1>2 DEF CreateUser, past
<1>3. ASSUME NEW v \in Users, RecreateUser(v) PROVE Kept
  BY <1>3 DEF RecreateUser
<1>4. ASSUME NEW v \in Users, DeleteUser(v) PROVE Kept
  BY <1>4 DEF DeleteUser
<1>5. ASSUME NEW v \in Users, v # u, DisableUser(v) PROVE Kept
  BY <1>5 DEF DisableUser
<1>6. ASSUME NEW v \in Users, WindowCloses(v) PROVE Kept
  BY <1>6 DEF WindowCloses, past
<1>7. CASE Restart
  BY <1>7 DEF Restart, EnsureInitialAdmin
<1>8. CASE UNCHANGED <<users, outstanding>>
  BY <1>8
<1> QED
  BY <1>1, <1>2, <1>3, <1>4, <1>5, <1>6, <1>7, <1>8
  DEF Next, Arrive, Advance, Administer, Tick, VerifyLinkRead, InitialAdminLogin, OptionsRead,
      VerifyAnswer, ConsumeLink, ConsumeDeletedLink, OpenSession, OpenSessionForDeletedUser,
      SaveChallenge, PromoteDeletedUser, StoreCredential, StoreRefused, Fails, CreateLink,
      RemoveCredential, LinkExpires, tables, past, vars

\* A handler comes to save a challenge only for a user that may enrol.
LEMMA SaveEntry ==
    ASSUME IInv, [Next]_vars, NEW r \in Reqs, req'[r].pc = "save", req'[r] # req[r]
    PROVE  /\ MayEnroll(sessions[req'[r].sess].user) /\ req'[r].sess \in Sessions
           /\ sessions' = sessions
<1> USE DEF IInv, TypeOK
<1>1. ASSUME NEW q \in Reqs, NEW x, Goto(q, x), x.pc # "save" PROVE FALSE
  BY <1>1 DEF Goto
<1>2. Idle.pc # "save" /\ \A pc, v, l, s, ch, c : At(pc, v, l, s, ch, c).pc = pc
  BY DEF Idle, At
<1>3. ASSUME NEW q \in Reqs, Arrive(q)
      PROVE  \E s \in Sessions, ch \in Challenges : OptionsRead(q, s, ch)
  BY <1>1, <1>2, <1>3 DEF Arrive, VerifyLinkRead, InitialAdminLogin, VerifyAnswer
<1>4. ASSUME NEW q \in Reqs, Advance(q) \/ Fails(q) PROVE FALSE
  BY <1>1, <1>2, <1>4
  DEF Advance, Fails, ConsumeLink, ConsumeDeletedLink, OpenSession, OpenSessionForDeletedUser,
      SaveChallenge, Promote, PromoteDeletedUser, StoreCredential, StoreRefused, Finish
<1>5. Administer \/ Tick => UNCHANGED req
  BY DEF Administer, Tick, CreateUser, RecreateUser, DeleteUser, DisableUser, CreateLink,
     RemoveCredential, LinkExpires, WindowCloses
<1>6. ~Restart
  BY <1>2 DEF Restart
<1>7. PICK q \in Reqs, s \in Sessions, ch \in Challenges : OptionsRead(q, s, ch)
  BY <1>3, <1>4, <1>5, <1>6 DEF Next, vars
<1>8. q = r /\ req'[r].sess = s
  BY <1>7 DEF OptionsRead, Goto, At
<1> QED
  BY <1>7, <1>8 DEF OptionsRead, tables

\* The challenges of a user only grow by a handler that found it enabled.
LEMMA ChallengesKept ==
    ASSUME IInv, Effects, [Next]_vars, NEW u \in Users, ~MayEnroll(u)
    PROVE  ChallengesOf(u)' \subseteq ChallengesOf(u)
<1> USE NoneAssumption DEF IInv, Effects, Grows
<1>1. ASSUME NEW ch \in Challenges, asked'[ch] # None, sessions'[asked'[ch]].user = u
      PROVE  ch \in ChallengesOf(u)
  <2>1. CASE asked'[ch] = asked[ch]
    <3>1. asked[ch] \in Sessions /\ sessions[asked[ch]].row # "never"
      BY <1>1, <2>1 DEF ChallengesRooted, TypeOK
    <3> QED
      BY <1>1, <2>1, <3>1 DEF ChallengesOf
  <2>2. CASE asked'[ch] # asked[ch]
    <3>1. PICK r \in Reqs : req[r].pc = "save" /\ req[r].chal = ch /\ asked'[ch] = req[r].sess
      BY <2>2 DEF ChallengeBirth
    <3>2. req[r].sess \in Sessions /\ sessions[req[r].sess].row # "never"
      BY <3>1 DEF RequestsOK, RequestOK, SaveOK
    <3> QED
      BY <1>1, <3>1, <3>2 DEF ChallengesOf
  <2> QED
    BY <2>1, <2>2
<1>2. ASSUME NEW r \in Reqs, req'[r].pc = "save", req'[r].chal \in Challenges,
             sessions'[req'[r].sess].user = u
      PROVE  req'[r].chal \in ChallengesOf(u)
  <2>1. CASE req'[r] = req[r]
    <3>1. req[r].sess \in Sessions /\ sessions[req[r].sess].row # "never"
      BY <1>2, <2>1 DEF RequestsOK, RequestOK, SaveOK
    <3> QED
      BY <1>2, <2>1, <3>1 DEF ChallengesOf
  <2>2. CASE req'[r] # req[r]
    BY <1>2, <2>2, SaveEntry
  <2> QED
    BY <2>1, <2>2
<1> QED
  BY <1>1, <1>2 DEF ChallengesOf

\* So a disabled user keeps answering old challenges only.
LEMMA NothingNewStep == IInv /\ NothingNew /\ Effects /\ [Next]_vars => NothingNew'
<1> SUFFICES ASSUME IInv, NothingNew, Effects, [Next]_vars,
                    NEW u \in Users, Live(users', u), users'[u].status = "disabled"
             PROVE  ChallengesOf(u)' \subseteq outstanding'[u]
  BY DEF NothingNew, Live
<1>1. CASE DisableUser(u)
  <2>1. ChallengesOf(u)' = ChallengesOf(u)
    BY <1>1 DEF DisableUser, ChallengesOf
  <2>2. outstanding'[u] = ChallengesOf(u)
    BY <1>1 DEF DisableUser, IInv, TypeOK
  <2> QED
    BY <2>1, <2>2
<1>2. CASE /\ Live(users, u) /\ users[u].status = "disabled"
           /\ outstanding'[u] = outstanding[u]
  <2>1. ChallengesOf(u)' \subseteq ChallengesOf(u)
    BY <1>2, ChallengesKept DEF MayEnroll
  <2> QED
    BY <1>2, <2>1 DEF NothingNew
<1> QED
  BY <1>1, <1>2, DisabledStays

\* register/verify does not look at the status of the user, but register/options
\* does: what is written for a disabled user, its promotion and its credential,
\* answers a challenge from before it was disabled.
THEOREM DisabledAnswersOld == Spec => []DisabledAnswersOldOnly
<1>1. Init => NothingNew
  BY DEF Init, NothingNew, NoUser
<1>2. IInv /\ NothingNew /\ [Next]_vars => NothingNew'
  BY NothingNewStep, StepEffects DEF IInv
<1>3. IInv /\ NothingNew => DisabledAnswersOldOnly
  <2> SUFFICES ASSUME IInv, NothingNew, NEW r \in Reqs, req[r].pc \in {"promote", "store"},
                      Live(users, req[r].user), users[req[r].user].status = "disabled"
               PROVE  req[r].chal \in outstanding[req[r].user]
    BY DEF DisabledAnswersOldOnly
  <2>1. AnswerOK(req[r])
    BY DEF IInv, RequestsOK, RequestOK
  <2>2. req[r].chal \in ChallengesOf(req[r].user)
    BY <2>1, NoneAssumption DEF AnswerOK, ChallengesOf
  <2> QED
    BY <2>1, <2>2 DEF NothingNew, AnswerOK
<1> QED
  BY <1>1, <1>2, <1>3, Invariance, PTL DEF Spec

-----------------------------------------------------------------------------
(* A one-time link is a one-time token: every step of Enrollment is a step  *)
(* of OneTimeToken or leaves its three variables alone.                     *)

\* A step that keeps the rows of links, or only lets them expire, keeps the
\* phases.
LEMMA SamePhases ==
    ASSUME \A l \in Links : links'[l].row = links[l].row /\ links'[l].used = links[l].used
    PROVE  \A l \in Links : Phase(l)' = Phase(l)
BY DEF Phase, Live

\* A step that inserts no session opens nothing.
LEMMA SameOpened ==
    ASSUME Effects, \A r \in Reqs : req[r].pc = "open" => req'[r] # Idle
    PROVE  \A l \in Links : OpenedBy(l)' = OpenedBy(l)
BY DEF Effects, Grows, SessionBirth, OpenedBy

\* What does none of the three is a stutter of the token.
LEMMA TokenStutters ==
    ASSUME \A l \in Links : Phase(l)' = Phase(l),
           \A l \in Links : HeldBy(l)' = HeldBy(l),
           \A l \in Links : OpenedBy(l)' = OpenedBy(l)
    PROVE  UNCHANGED Token!vars
BY DEF Token!vars

\* No handler holds a link, and none was created.
LEMMA TokenInit == Init => Token!Init
<1> SUFFICES ASSUME Init PROVE Token!Init
  OBVIOUS
<1> USE NoneAssumption
<1>1. \A l \in Links : Phase(l) = "new"
  <2>1. \A l \in Links : links[l].row = "never"
    BY DEF Init, NoLink
  <2> QED
    BY <2>1 DEF Phase, Live
<1>2. \A l \in Links : HeldBy(l) = {}
  BY DEF Init, HeldBy, Idle, At
<1>3. \A l \in Links : OpenedBy(l) = {}
  BY DEF Init, OpenedBy, NoSession
<1> QED
  BY <1>1, <1>2, <1>3 DEF Token!Init

\* create_one_time_link issues a link that no handler can know.
LEMMA CreationIssues ==
    ASSUME IInv, NEW u \in Users, NEW kind \in Kinds, NEW l \in Links, CreateLink(u, kind, l)
    PROVE  Token!Issue(l)
<1> USE DEF IInv, TypeOK
<1>1. /\ links[l].row = "never"
      /\ links'[l].row = "live" /\ ~links'[l].used
      /\ \A k \in Links \ {l} : links'[k] = links[k]
  BY DEF CreateLink
<1>2. Phase(l) = "new" /\ Phase(l)' = "open" /\ \A k \in Links \ {l} : Phase(k)' = Phase(k)
  BY <1>1 DEF Phase, Live
<1>3. \A k \in Links : HeldBy(k)' = HeldBy(k) /\ OpenedBy(k)' = OpenedBy(k)
  BY DEF CreateLink, HeldBy, OpenedBy
<1> QED
  BY <1>2, <1>3 DEF Token!Issue

\* one-time-link/verify takes the link that it finds unused.
LEMMA VerifyTakes ==
    ASSUME IInv, NEW r \in Reqs, NEW l \in Links, NEW s \in Sessions, VerifyLinkRead(r, l, s)
    PROVE  Token!Take(l, r)
<1> USE NoneAssumption DEF IInv, TypeOK
<1>1. Phase(l) = "open"
  BY DEF VerifyLinkRead, LinkUsable, Phase, Live
<1>2. req[r].link = None /\ req'[r].link = l /\ \A q \in Reqs \ {r} : req'[q] = req[q]
  BY DEF VerifyLinkRead, Goto, Idle, At
<1>3. \A k \in Links : r \notin HeldBy(k)
  BY <1>2 DEF HeldBy
<1>4. HeldBy(l)' = HeldBy(l) \cup {r} /\ \A k \in Links \ {l} : HeldBy(k)' = HeldBy(k)
  BY <1>2 DEF HeldBy
<1>5. \A k \in Links : Phase(k)' = Phase(k) /\ OpenedBy(k)' = OpenedBy(k)
  BY DEF VerifyLinkRead, tables, Phase, Live, OpenedBy
<1> QED
  BY <1>1, <1>3, <1>4, <1>5 DEF Token!Take

\* The UPDATE of used_at spends the link, unless another handler has.
LEMMA ConsumptionSpends ==
    ASSUME IInv, NEW r \in Reqs, ConsumeLink(r)
    PROVE  (\E S \in SUBSET Links : Token!Spend(S)) \/ UNCHANGED Token!vars
<1> USE DEF IInv, TypeOK
<1>1. PICK l \in Links : /\ l = req[r].link /\ links[l].row = "live"
                         /\ links' = [links EXCEPT ![l].used = TRUE]
  BY DEF ConsumeLink, RequestsOK, RequestOK, ConsumeOK, Live
<1>2. /\ links'[l].row = "live" /\ links'[l].used
      /\ \A k \in Links \ {l} : links'[k] = links[k]
  BY <1>1 DEF LinkRow
<1>3. \A k \in Links : HeldBy(k)' = HeldBy(k)
  <2>1. \A q \in Reqs : req'[q].link = req[q].link
    BY DEF ConsumeLink, Goto, At
  <2> QED
    BY <2>1 DEF HeldBy
<1>4. \A k \in Links : OpenedBy(k)' = OpenedBy(k)
  BY DEF ConsumeLink, OpenedBy
<1>5. Phase(l)' = "spent" /\ \A k \in Links \ {l} : Phase(k)' = Phase(k)
  BY <1>2 DEF Phase, Live
<1>6. CASE ~links[l].used
  <2>1. Phase(l) = "open"
    BY <1>1, <1>6 DEF Phase, Live
  <2>2. Token!Spend({l})
    BY <1>3, <1>4, <1>5, <2>1 DEF Token!Spend
  <2> QED
    BY <2>2
<1>7. CASE links[l].used
  <2>1. Phase(l) = "spent"
    BY <1>1, <1>7 DEF Phase, Live
  <2> QED
    BY <1>3, <1>4, <1>5, <2>1, TokenStutters
<1> QED
  BY <1>6, <1>7

\* delete_user spends the unused links of the user.
LEMMA DeletionSpends ==
    ASSUME IInv, NEW u \in Users, DeleteUser(u)
    PROVE  \E S \in SUBSET Links : Token!Spend(S)
<1> USE DEF IInv, TypeOK
<1> DEFINE S == {l \in Links : links[l].row = "live" /\ ~links[l].used /\ links[l].user = u}
<1>1. \A l \in Links : links'[l] = IF links[l].user = u /\ links[l].row = "live"
                                   THEN [links[l] EXCEPT !.row = "gone"] ELSE links[l]
  BY DEF DeleteUser, Cascade
<1>2. \A l \in S : Phase(l) = "open" /\ Phase(l)' = "spent"
  BY <1>1 DEF Phase, Live, LinkRow
<1>3. \A l \in Links \ S : Phase(l)' = Phase(l)
  BY <1>1 DEF Phase, Live, LinkRow
<1>4. \A l \in Links : HeldBy(l)' = HeldBy(l)
  BY DEF DeleteUser, HeldBy
<1>5. \A l \in Links : OpenedBy(l)' = OpenedBy(l)
  <2>1. \A s \in Sessions : /\ sessions'[s].row # "never" <=> sessions[s].row # "never"
                            /\ sessions'[s].link = sessions[s].link
    BY DEF DeleteUser, Cascade, SessionRow
  <2> QED
    BY <2>1 DEF OpenedBy
<1>6. S \in SUBSET Links
  OBVIOUS
<1> HIDE DEF S
<1>7. Token!Spend(S)
  BY <1>2, <1>3, <1>4, <1>5, <1>6 DEF Token!Spend
<1> QED
  BY <1>6, <1>7

\* generate_token opens a session with the link of its handler, which ends.
LEMMA OpeningOpens ==
    ASSUME IInv, NEW r \in Reqs, req[r].link # None, OpenSession(r)
    PROVE  \E l \in Links, s \in Sessions : Token!Open(l, r, s)
<1> USE NoneAssumption DEF IInv, TypeOK
<1>1. PICK l \in Links : l = req[r].link /\ links[l].used
  BY DEF OpenSession, RequestsOK, RequestOK, OpenOK, Invited, Request
<1>2. PICK s \in Sessions : s = req[r].sess /\ sessions[s].row = "never"
  BY DEF OpenSession, RequestsOK, RequestOK, OpenOK
<1>3. Phase(l) = "spent" /\ \A k \in Links : Phase(k)' = Phase(k)
  BY <1>1 DEF Phase, Live, LinksUsed, OpenSession
<1>4. r \in HeldBy(l)
  BY <1>1 DEF HeldBy
<1>5. HeldBy(l)' = HeldBy(l) \ {r} /\ \A k \in Links \ {l} : HeldBy(k)' = HeldBy(k)
  <2>1. req'[r].link = None /\ \A q \in Reqs \ {r} : req'[q] = req[q]
    BY DEF OpenSession, Finish, Goto, Idle, At
  <2> QED
    BY <1>1, <2>1 DEF HeldBy
<1>6. \A k \in Links : s \notin OpenedBy(k)
  BY <1>2 DEF OpenedBy
<1>7. OpenedBy(l)' = OpenedBy(l) \cup {s} /\ \A k \in Links \ {l} : OpenedBy(k)' = OpenedBy(k)
  <2>1. /\ sessions'[s].row = "live" /\ sessions'[s].link = l
        /\ \A t \in Sessions \ {s} : sessions'[t] = sessions[t]
    BY <1>1, <1>2 DEF OpenSession
  <2> QED
    BY <1>2, <2>1 DEF OpenedBy
<1>8. Token!Open(l, r, s)
  BY <1>3, <1>4, <1>5, <1>6, <1>7 DEF Token!Open
<1> QED
  BY <1>8

\* A handler that goes on without a link, or ends without a session, lets go
\* of its link; so do all in a restart.
LEMMA WithoutLinkReleases ==
    ASSUME NEW S \in SUBSET Reqs,
           \A q \in Reqs : q \in S => req'[q].link = None,
           \A q \in Reqs \ S : req'[q] = req[q],
           \A l \in Links : Phase(l)' = Phase(l),
           \A l \in Links : OpenedBy(l)' = OpenedBy(l)
    PROVE  Token!Release(S)
<1>1. \A l \in Links : HeldBy(l)' = HeldBy(l) \ S
  BY NoneAssumption DEF HeldBy
<1> QED
  BY <1>1 DEF Token!Release

\* The login of the initial administrator opens a session with no link.
LEMMA LoginReleases ==
    ASSUME IInv, NEW r \in Reqs, req[r].link = None, OpenSession(r)
    PROVE  Token!Release({r})
<1> USE NoneAssumption DEF IInv, TypeOK
<1>1. \A s \in Sessions : \/ sessions'[s] = sessions[s]
                          \/ sessions[s].row = "never" /\ sessions'[s].link = None
  BY DEF OpenSession, RequestsOK, RequestOK, OpenOK
<1>2. \A l \in Links : OpenedBy(l)' = OpenedBy(l)
  <2>1. ASSUME NEW s \in Sessions, sessions[s].row = "never" PROVE sessions'[s].link \notin Links
                \/ sessions'[s] = sessions[s]
    BY <1>1
  <2> QED
    BY <1>1, <2>1 DEF OpenedBy
<1>3. req'[r].link = None /\ \A q \in Reqs \ {r} : req'[q] = req[q]
  BY DEF OpenSession, Finish, Goto, Idle, At
<1>4. \A l \in Links : Phase(l)' = Phase(l)
  BY DEF OpenSession, Phase, Live
<1> QED
  BY <1>2, <1>3, <1>4, WithoutLinkReleases

\* Step by step, Enrollment implements OneTimeToken.
LEMMA TokenStep == ASSUME IInv, [Next]_vars PROVE [Token!Next]_(Token!vars)
<1> USE DEF IInv, TypeOK
<1>e. Effects
  BY StepEffects
<1>1. ASSUME NEW r \in Reqs, NEW x, Goto(r, x), x.link = None,
             \A l \in Links : Phase(l)' = Phase(l), \A l \in Links : OpenedBy(l)' = OpenedBy(l)
      PROVE  Token!Next
  <2>1. Token!Release({r})
    BY <1>1, WithoutLinkReleases DEF Goto
  <2> QED
    BY <2>1 DEF Token!Next
<1>2. Idle.link = None /\ \A pc, v, l, s, ch, c : At(pc, v, l, s, ch, c).link = l
  BY DEF Idle, At
<1>3. ASSUME NEW r \in Reqs, Arrive(r) PROVE Token!Next
  <2>1. ASSUME NEW l \in Links, NEW s \in Sessions, VerifyLinkRead(r, l, s) PROVE Token!Next
    BY <2>1, VerifyTakes DEF Token!Next
  <2>2. CASE UNCHANGED tables /\ \E x : Goto(r, x) /\ x.link = None
    BY <1>1, <2>2 DEF tables, Phase, Live, OpenedBy
  <2>3. ASSUME NEW u \in Users, NEW s \in Sessions, InitialAdminLogin(r, u, s) PROVE Token!Next
    BY <1>2, <2>2, <2>3 DEF InitialAdminLogin
  <2>4. ASSUME NEW s \in Sessions, NEW ch \in Challenges, OptionsRead(r, s, ch) PROVE Token!Next
    BY <1>2, <2>2, <2>4 DEF OptionsRead
  <2>5. ASSUME NEW s \in Sessions, NEW ch \in Challenges, NEW c \in Creds,
               NEW promote \in BOOLEAN, VerifyAnswer(r, s, ch, c, promote)
        PROVE  Token!Next
    BY <1>2, <2>2, <2>5 DEF VerifyAnswer
  <2> QED
    BY <1>3, <2>1, <2>3, <2>4, <2>5 DEF Arrive
<1>4. ASSUME NEW r \in Reqs, Advance(r) \/ Fails(r) PROVE [Token!Next]_(Token!vars)
  <2>1. CASE ConsumeLink(r)
    BY <2>1, ConsumptionSpends DEF Token!Next
  <2>2. CASE OpenSession(r)
    BY <2>2, OpeningOpens, LoginReleases DEF Token!Next
  <2>3. CASE SaveChallenge(r)
    <3>1. \A l \in Links : OpenedBy(l)' = OpenedBy(l)
      <4>1. \A s \in Sessions : /\ sessions'[s].row = sessions[s].row
                                /\ sessions'[s].link = sessions[s].link
        BY <2>3 DEF SaveChallenge, SessionRow
      <4> QED
        BY <4>1 DEF OpenedBy
    <3>2. \A l \in Links : Phase(l)' = Phase(l)
      BY <2>3 DEF SaveChallenge, Phase, Live
    <3> QED
      BY <1>1, <1>2, <2>3, <3>1, <3>2 DEF SaveChallenge, Finish
  <2>4. CASE Promote(r)
    BY <1>1, <1>2, <2>4 DEF Promote, Phase, Live, OpenedBy
  <2>5. CASE StoreCredential(r)
    BY <1>1, <1>2, <2>5 DEF StoreCredential, Finish, Phase, Live, OpenedBy
  <2>6. CASE UNCHANGED tables /\ Finish(r)
    BY <1>1, <1>2, <2>6 DEF tables, Finish, Phase, Live, OpenedBy
  <2> QED
    BY <1>4, <2>1, <2>2, <2>3, <2>4, <2>5, <2>6
    DEF Advance, ConsumeDeletedLink, OpenSessionForDeletedUser, PromoteDeletedUser,
        StoreRefused, Fails
<1>5. CASE /\ UNCHANGED <<sessions, req>>
           /\ \A l \in Links : links'[l].row = links[l].row /\ links'[l].used = links[l].used
  BY <1>5, SamePhases, TokenStutters DEF HeldBy, OpenedBy
<1>6. CASE Administer
  <2>1. ASSUME NEW u \in Users, DeleteUser(u) PROVE Token!Next
    BY <2>1, DeletionSpends DEF Token!Next
  <2>2. ASSUME NEW u \in Users, NEW kind \in Kinds, NEW l \in Links, CreateLink(u, kind, l)
        PROVE  Token!Next
    BY <2>2, CreationIssues DEF Token!Next
  <2> QED
    BY <1>5, <1>6, <2>1, <2>2
    DEF Administer, CreateUser, RecreateUser, DisableUser, RemoveCredential
<1>7. CASE Tick
  BY <1>5, <1>7 DEF Tick, LinkExpires, WindowCloses, LinkRow
<1>8. CASE Restart
  <2>1. Token!Release(Reqs)
    BY <1>2, <1>8, WithoutLinkReleases DEF Restart, Phase, Live, OpenedBy
  <2> QED
    BY <2>1 DEF Token!Next
<1>9. CASE UNCHANGED vars
  BY <1>5, <1>9 DEF vars
<1> QED
  BY <1>3, <1>4, <1>6, <1>7, <1>8, <1>9 DEF Next

\* A one-time link is a one-time token: no handler takes it once it is used, no
\* session is opened with it before, and none without a handler that has taken
\* it, whatever requests overlap, users are deleted and the server restarts.
THEOREM LinksAreOneTime == Spec => LinkIsOneTime
<1>1. Init => Token!Init
  BY TokenInit
<1>2. IInv /\ [Next]_vars => [Token!Next]_(Token!vars)
  BY TokenStep
<1> QED
  BY <1>1, <1>2, Invariance, PTL DEF Spec, LinkIsOneTime, Token!Spec

TokenProofs == INSTANCE OneTimeTokenProofs WITH
                  Tokens <- Links, Holders <- Reqs, Things <- Sessions,
                  phase <- [l \in Links |-> Phase(l)],
                  holders <- [l \in Links |-> HeldBy(l)],
                  opened <- [l \in Links |-> OpenedBy(l)]

SessionsBounded ==
    \A l \in Links :
        /\ IsFiniteSet(OpenedBy(l))
        /\ Cardinality(OpenedBy(l)) + Cardinality(HeldBy(l)) <= Cardinality(Reqs)

\* However its uses overlap, a link has opened no more registration sessions
\* than there are worker threads, less those that still hold it.
THEOREM SessionsAreBounded == Spec => []SessionsBounded
<1>1. LinkIsOneTime => TokenProofs!Spec
  BY DEF LinkIsOneTime, Token!Spec, Token!Init, Token!Next, Token!vars, Token!Issue,
         Token!Take, Token!Spend, Token!Open, Token!Release, TokenProofs!Spec, TokenProofs!Init,
         TokenProofs!Next, TokenProofs!vars, TokenProofs!Issue, TokenProofs!Take,
         TokenProofs!Spend, TokenProofs!Open, TokenProofs!Release
<1>2. TokenProofs!IsFiniteSet(Reqs)
  BY NoneAssumption DEF TokenProofs!IsFiniteSet, IsFiniteSet
<1>3. TokenProofs!Spec => []TokenProofs!UsesBounded
  BY <1>2, TokenProofs!UsesAreBounded
<1>4. TokenProofs!UsesBounded => SessionsBounded
  <2>1. \A S : TokenProofs!Cardinality(S) = Cardinality(S)
    BY DEF TokenProofs!Cardinality, Cardinality
  <2>2. \A S : TokenProofs!IsFiniteSet(S) <=> IsFiniteSet(S)
    BY DEF TokenProofs!IsFiniteSet, IsFiniteSet
  <2> QED
    BY <2>1, <2>2 DEF TokenProofs!UsesBounded, SessionsBounded
<1> QED
  BY <1>1, <1>3, <1>4, LinksAreOneTime, PTL
=============================================================================
