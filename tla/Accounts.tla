------------------------------ MODULE Accounts ------------------------------
(***************************************************************************)
(* The users table and its administrators: create_user with its            *)
(* re-creation of EXPIRED and DISABLED users, update_user, delete_user and  *)
(* the first start.  Handlers run in worker threads, and each looks rows    *)
(* up before it writes.                                                     *)
(***************************************************************************)
EXTENDS Naturals

CONSTANTS
    Users,          \* ids of users rows
    Emails,         \* addresses
    InitialEmail,   \* INITIAL_ADMIN_USER_EMAIL
    Threads,        \* worker threads
    None,           \* the null value
    MaxEvents       \* bound: restarts, deadlines that pass and users disabled by hand

ASSUME AccountsAssumption ==
    InitialEmail \in Emails /\ None \notin Users \cup Emails /\ MaxEvents \in Nat

VARIABLES
    users,      \* table users
    req,        \* the handlers in flight
    events      \* those events so far

vars == <<users, req, events>>

-----------------------------------------------------------------------------
Row == {"never", "live", "gone"}
Roles == {"user", "admin"}

\* "late" is PENDING with email_verification_expires_at in the past (nothing
\* reads that column under another status); "disabled" stands for DISABLED and
\* EXPIRED, which the code treats alike.  History: by is the administrator who
\* has made the account, None at a first start; enrolled says that the user
\* has stored a passkey and so may hold a session.
UserRow == [row : Row, email : Emails \cup {None}, role : Roles,
            status : {"pending", "late", "verified", "disabled"},
            by : Users \cup {None}, enrolled : BOOLEAN]
NoUser == [row |-> "never", email |-> None, role |-> "user", status |-> "pending",
           by |-> None, enrolled |-> FALSE]

\* What a handler still needs.  by is its administrator and loaded the row of
\* by as it was authorised, in an update of one's own row or a creation; then
\* loaded is the row of user.  An update has None for what it does not name.
Request == [pc : {"idle", "create", "insert", "recreate", "update", "write", "delete"},
            by : Users \cup {None}, user : Users \cup {None},
            email : Emails \cup {None}, role : Roles \cup {None}, loaded : UserRow]
Idle == [pc |-> "idle", by |-> None, user |-> None, email |-> None, role |-> None,
         loaded |-> NoUser]

TypeOK ==
    /\ users \in [Users -> UserRow]
    /\ req \in [Threads -> Request]
    /\ events \in Nat

-----------------------------------------------------------------------------
Live(u) == users[u].row = "live"

\* read_user: VERIFIED passes, PENDING only before its expiry, the rest fail.
MayAct(u) ==
    /\ Live(u)
    /\ users[u].status \in {"verified", "pending"}

\* Mutant: any user with a session passes.
AnyUser(u) == MayAct(u) /\ users[u].enrolled
\* get_current_admin_user.
Administrator(u) == MayAct(u) /\ users[u].enrolled /\ users[u].role = "admin"

\* Mutant: the constraint is missing.
AddressTaken(u, e) == TRUE
\* The constraint on users.email.
AddressFree(u, e) == \A v \in Users \ {u} : Live(v) => users[v].email # e

\* The row of u as the ORM gives it to a handler: the administrator's own row
\* has been loaded before and is not refreshed by another SELECT.
Found(q, u) == IF u = q.by THEN q.loaded ELSE users[u]

\* Mutant: the name of the enum member is stored instead of its value.
NewUserNamed(e, role, by) ==
    [NoUser EXCEPT !.row = "live", !.email = e, !.role = role, !.status = "PENDING", !.by = by]
NewUser(e, role, by) ==
    [NoUser EXCEPT !.row = "live", !.email = e, !.role = role, !.by = by]

Goto(t, q) == req' = [req EXCEPT ![t] = q]
Finish(t) == Goto(t, Idle)
\* The request q of administrator a is authorised.
Authorise(t, a, q) ==
    /\ req[t] = Idle
    /\ Administrator(a)
    /\ Goto(t, q)
    /\ UNCHANGED <<users, events>>

-----------------------------------------------------------------------------
(* POST /admin/users/: create_user.                                         *)

CallCreate(t, a, e, role) ==
    Authorise(t, a, [pc |-> "create", by |-> a, user |-> None, email |-> e, role |-> role,
                     loaded |-> users[a]])

\* The address is looked up: it is free, or that of an EXPIRED or DISABLED
\* user.  Any other user is a conflict (409).
LookUpAddress(t) ==
    LET q == req[t]
        holders == {u \in Users : Live(u) /\ users[u].email = q.email}
    IN
    /\ q.pc = "create"
    /\ \/ holders = {} /\ Goto(t, [q EXCEPT !.pc = "insert", !.loaded = NoUser])
       \/ \E u \in holders :
            IF Found(q, u).status = "disabled"
            THEN Goto(t, [Idle EXCEPT !.pc = "recreate", !.user = u]) ELSE Finish(t)
    /\ UNCHANGED <<users, events>>

InsertUser(t, u) ==
    LET q == req[t] IN
    /\ q.pc = "insert"
    /\ users[u].row = "never"
    /\ AddressFree(u, q.email)
    /\ users' = [users EXCEPT ![u] = NewUser(q.email, q.role, q.by)]
    /\ Finish(t)
    /\ UNCHANGED events

\* Mutant: a row that is gone is inserted again.
Recreatable(u) == users[u].row # "never"
\* The UPDATE finds its row.
Updatable(u) == Live(u)

\* The row is PENDING again, whatever it is by now; the role of the request
\* is not looked at.
RecreateUser(t) ==
    LET u == req[t].user IN
    /\ req[t].pc = "recreate"
    /\ Updatable(u)
    /\ users' = [users EXCEPT ![u] = [@ EXCEPT !.row = "live", !.status = "pending"]]
    /\ Finish(t)
    /\ UNCHANGED events

-----------------------------------------------------------------------------
(* PUT and DELETE /admin/users/{user_id}: update_user, delete_user.         *)

\* At least one field is named.  (A field that is null is refused by the
\* database: the columns are NOT NULL.)
CallUpdate(t, a, u, e, role) ==
    /\ e # None \/ role # None
    /\ Authorise(t, a, [pc |-> "update", by |-> IF u = a THEN a ELSE None, user |-> u,
                        email |-> e, role |-> role, loaded |-> IF u = a THEN users[a] ELSE NoUser])

LoadUser(t) ==
    LET q == req[t] IN
    /\ q.pc = "update"
    /\ Live(q.user)
    /\ Goto(t, [q EXCEPT !.pc = "write", !.by = None, !.loaded = Found(q, q.user)])
    /\ UNCHANGED <<users, events>>

NewEmail(q) == q.email \notin {None, q.loaded.email}

\* Mutant: the UPDATE writes the whole row that was loaded.
WholeRow(q, now) == [q.loaded EXCEPT !.email = q.email]
\* The row after the UPDATE: only the column that differs from what was loaded
\* is written.
Written(q, now) == [now EXCEPT !.email = q.email]

\* Nothing is sent when the form names the address that was loaded.
WriteUser(t) ==
    LET q == req[t]  u == q.user IN
    /\ q.pc = "write" /\ q.role = None
    /\ IF NewEmail(q)
       THEN /\ Live(u) /\ AddressFree(u, q.email)
            /\ users' = [users EXCEPT ![u] = Written(q, users[u])]
       ELSE UNCHANGED users
    /\ Finish(t)
    /\ UNCHANGED events

\* The role is set to the member of UserRole, not to its value as in
\* create_user, and the driver cannot adapt it: the update is refused as a
\* whole.
RoleRefused(t) ==
    /\ req[t].pc = "write" /\ req[t].role # None
    /\ Finish(t)
    /\ UNCHANGED <<users, events>>

CallDelete(t, a, u) == Authorise(t, a, [Idle EXCEPT !.pc = "delete", !.user = u])

\* A row that is gone by then only warns.  Of a deleted row the history is kept.
DeleteUser(t) ==
    LET u == req[t].user IN
    /\ req[t].pc = "delete"
    /\ Live(u)
    /\ users' = [users EXCEPT ![u] = [@ EXCEPT !.row = "gone", !.email = None, !.status = "pending"]]
    /\ Finish(t)
    /\ UNCHANGED events

\* The user is not found, a constraint refuses the statement, its row is gone,
\* or the connection is lost.
Fails(t) ==
    /\ req[t] # Idle
    /\ Finish(t)
    /\ UNCHANGED <<users, events>>

-----------------------------------------------------------------------------
(* Registration, time, operators and restarts.                              *)

\* update_user_email_verification, of register/verify (Enrollment): the status
\* is not looked at.
Promote(u) ==
    /\ Live(u)
    /\ users' = [users EXCEPT ![u].status = "verified"]
    /\ UNCHANGED <<req, events>>

\* register_credential, of register/verify after the promotion is committed, or of
\* devices/register/verify, which does not promote.
Register(u) ==
    /\ Live(u)
    /\ users' = [users EXCEPT ![u].enrolled = TRUE]
    /\ UNCHANGED <<req, events>>

Event == events < MaxEvents /\ events' = events + 1

\* External: the status is set by hand in the database; no handler sets it.
DisableUser(u) ==
    /\ Event
    /\ Live(u) /\ users[u].status # "disabled"
    /\ users' = [users EXCEPT ![u].status = "disabled"]
    /\ UNCHANGED req

WindowCloses(u) ==
    /\ Event
    /\ Live(u) /\ users[u].status = "pending"
    /\ users' = [users EXCEPT ![u].status = "late"]
    /\ UNCHANGED req

\* _ensure_initial_admin: an empty table gets the initial administrator.
StartInsert ==
    /\ \A u \in Users : ~Live(u)
    /\ \E u \in Users :
        /\ users[u].row = "never"
        /\ users' = [users EXCEPT ![u] = NewUser(InitialEmail, "admin", None)]
\* The table is not empty, or no initial administrator is configured any more.
StartSkip == UNCHANGED users

\* The handlers in flight are lost.
Restart ==
    /\ Event
    /\ StartInsert \/ StartSkip
    /\ req' = [t \in Threads |-> Idle]

-----------------------------------------------------------------------------
\* The first start has inserted the initial administrator.
Init ==
    /\ \E u \in Users :
        users = [v \in Users |-> IF v = u THEN NewUser(InitialEmail, "admin", None) ELSE NoUser]
    /\ req = [t \in Threads |-> Idle]
    /\ events = 0

Call(t) ==
    \E a \in Users :
        \/ \E e \in Emails, role \in Roles : CallCreate(t, a, e, role)
        \/ \E u \in Users :
            \/ \E e \in Emails \cup {None}, role \in Roles \cup {None} : CallUpdate(t, a, u, e, role)
            \/ CallDelete(t, a, u)

Proceed(t) ==
    \/ LookUpAddress(t) \/ \E u \in Users : InsertUser(t, u)
    \/ RecreateUser(t)
    \/ LoadUser(t) \/ WriteUser(t) \/ RoleRefused(t)
    \/ DeleteUser(t)
    \/ Fails(t)

Environment ==
    \/ \E u \in Users : Promote(u) \/ Register(u) \/ DisableUser(u) \/ WindowCloses(u)
    \/ Restart

Next == (\E t \in Threads : Call(t) \/ Proceed(t)) \/ Environment

Spec == Init /\ [][Next]_vars

-----------------------------------------------------------------------------
(* Properties.                                                              *)

\* Whatever handlers had found an address free, it belongs to one user.
AddressesUnique ==
    \A u, v \in Users : Live(u) /\ Live(v) /\ users[u].email = users[v].email => u = v

\* Every account goes back to a first start: it was made by one, or by an
\* administrator who had enrolled a passkey.
AccountsTraceable ==
    \A u \in Users : users[u].row # "never" =>
        \/ users[u].by = None /\ users[u].role = "admin"
        \/ \E a \in Users : users[u].by = a /\ users[a].role = "admin" /\ users[a].enrolled

\* A handler that has loaded a user does not bring it back once deleted.
DeletedStaysDeleted ==
    [][\A u \in Users : users[u].row = "gone" => users'[u].row = "gone"]_vars

\* A user who was disabled is let in again by a promotion, or by a
\* create_user that has found it disabled; an update that had loaded the row
\* before does not bring the old status back.
DisabledStands ==
    [][\A u \in Users :
        Live(u) /\ users[u].status = "disabled" =>
            \/ users'[u].row = "gone" \/ users'[u].status = "disabled"
            \/ users'[u].status = "verified" /\ req' = req
            \/ \E t \in Threads : /\ req[t].pc = "recreate" /\ req[t].user = u
                                  /\ req'[t] = Idle]_vars
=============================================================================
