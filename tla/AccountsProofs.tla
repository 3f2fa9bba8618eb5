--------------------------- MODULE AccountsProofs ---------------------------
(* Proofs about Accounts, for any number of users, addresses and worker    *)
(* threads.                                                                *)
EXTENDS Accounts, TLAPS

\* An administrator who has made an account, or is about to.
Founder(a) == a \in Users /\ users[a].role = "admin" /\ users[a].enrolled

\* What a handler in flight knows: a creation is that of a founder.
RequestOK(t) ==
    LET q == req[t] IN
    /\ q.pc \in {"create", "insert"} => Founder(q.by) /\ q.email \in Emails /\ q.role \in Roles
    /\ q.pc \in {"recreate", "update", "write", "delete"} => q.user \in Users

\* A row that was never inserted has no history.
NeverBlank == \A u \in Users : users[u].row = "never" => ~users[u].enrolled

IInv ==
    /\ TypeOK /\ AddressesUnique /\ AccountsTraceable /\ NeverBlank
    /\ \A t \in Threads : RequestOK(t)

\* What a step may make of the row of u: it keeps its address or gets a free
\* one, keeps its history, and is new only if a founder or a first start makes
\* it.
RowStep(u, row) ==
    /\ users' = [users EXCEPT ![u] = row]
    /\ row.row \in {"live", "gone"}
    /\ row.row = "live" => AddressFree(u, row.email)
    /\ users[u].enrolled => row.enrolled
    /\ \/ users[u].row # "never" /\ row.by = users[u].by /\ row.role = users[u].role
       \/ users[u].row = "never" /\ (Founder(row.by) \/ (row.by = None /\ row.role = "admin"))

-----------------------------------------------------------------------------
LEMMA NoUserType == NoUser \in UserRow
  BY DEF NoUser, UserRow, Row, Roles

LEMMA IdleType == Idle \in Request
  BY NoUserType DEF Idle, Request

\* A new account has the type of a row.
LEMMA NewUserType ==
    ASSUME NEW e \in Emails, NEW role \in Roles, NEW by \in Users \cup {None}
    PROVE /\ NewUser(e, role, by) \in UserRow
          /\ NewUser(e, role, by).row = "live" /\ NewUser(e, role, by).email = e
          /\ NewUser(e, role, by).by = by /\ NewUser(e, role, by).role = role
          /\ NewUser(e, role, by).status = "pending"
  BY DEF NewUser, NoUser, UserRow, Row, Roles

\* A user who is there may keep its address.
LEMMA OwnAddress ==
    ASSUME AddressesUnique, NEW u \in Users, Live(u)
    PROVE AddressFree(u, users[u].email)
  BY DEF AddressesUnique, AddressFree

\* A step of one row keeps what the tables promise, and who is a founder.
LEMMA RowStepTables ==
    ASSUME IInv, NEW u \in Users, NEW row \in UserRow, RowStep(u, row)
    PROVE /\ users' \in [Users -> UserRow]
          /\ AddressesUnique' /\ AccountsTraceable' /\ NeverBlank'
          /\ \A a : Founder(a) => Founder(a)'
  <1> USE DEF IInv, TypeOK
  <1>1. users' \in [Users -> UserRow] BY DEF RowStep
  <1>2. users'[u] = row /\ \A v \in Users \ {u} : users'[v] = users[v] BY DEF RowStep
  <1>3. AddressesUnique'
    BY <1>2 DEF RowStep, AddressesUnique, AddressFree, Live
  <1>4. NeverBlank' BY <1>2 DEF RowStep, NeverBlank
  <1>5. \A a : Founder(a) => Founder(a)'
    BY <1>2 DEF RowStep, Founder, NeverBlank
  <1>6. AccountsTraceable'
    <2> SUFFICES ASSUME NEW v \in Users, users'[v].row # "never", NEW b, b = users'[v].by
                 PROVE (b = None /\ users'[v].role = "admin") \/ Founder(b)'
      BY DEF AccountsTraceable, Founder
    <2>1. CASE v # u
      <3>1. \/ users[v].by = None /\ users[v].role = "admin"
            \/ Founder(users[v].by)
        BY <1>2, <2>1 DEF AccountsTraceable, Founder
      <3> QED BY <3>1, <1>2, <1>5, <2>1
    <2>2. CASE v = u /\ users[u].row # "never"
      <3>1. \/ users[u].by = None /\ users[u].role = "admin"
            \/ Founder(users[u].by)
        BY <2>2 DEF AccountsTraceable, Founder
      <3> QED BY <3>1, <1>2, <1>5, <2>2 DEF RowStep
    <2>3. CASE v = u /\ users[u].row = "never"
      BY <1>2, <1>5, <2>3 DEF RowStep
    <2> QED BY <2>1, <2>2, <2>3
  <1> QED BY <1>1, <1>3, <1>4, <1>5, <1>6

\* What was known of the handlers that do not take the step stays known.
LEMMA HandlersKeep ==
    ASSUME IInv, \A a : Founder(a) => Founder(a)', NEW t \in Threads,
           NEW q \in Request, req' = [req EXCEPT ![t] = q], RequestOK(t)'
    PROVE req' \in [Threads -> Request] /\ \A s \in Threads : RequestOK(s)'
  <1>1. req' \in [Threads -> Request] BY DEF IInv, TypeOK
  <1>2. \A s \in Threads \ {t} : req'[s] = req[s] BY DEF IInv, TypeOK
  <1>3. \A s \in Threads \ {t} : RequestOK(s)'
    BY <1>2 DEF IInv, RequestOK
  <1> QED BY <1>1, <1>3

\* A handler that ends knows nothing any more.
LEMMA EndsOK ==
    ASSUME IInv, \A a : Founder(a) => Founder(a)', NEW t \in Threads, Finish(t)
    PROVE req' \in [Threads -> Request] /\ \A s \in Threads : RequestOK(s)'
  <1>1. req'[t] = Idle BY DEF Finish, Goto, IInv, TypeOK
  <1>2. RequestOK(t)' BY <1>1 DEF RequestOK, Idle
  <1> QED BY <1>2, IdleType, HandlersKeep DEF Finish, Goto

\* A step that leaves the table alone.
LEMMA TableStays ==
    ASSUME IInv, UNCHANGED users
    PROVE /\ users' \in [Users -> UserRow]
          /\ AddressesUnique' /\ AccountsTraceable' /\ NeverBlank'
          /\ \A a : Founder(a) => Founder(a)'
  BY DEF IInv, TypeOK, AddressesUnique, AccountsTraceable, NeverBlank, Live, Founder

-----------------------------------------------------------------------------
\* The statements that only read.
LEMMA ReadStep ==
    ASSUME IInv, NEW t \in Threads, Call(t) \/ LookUpAddress(t) \/ LoadUser(t) \/ RoleRefused(t) \/ Fails(t)
    PROVE IInv'
  <1>1. users' = users /\ events' = events
    BY DEF Call, CallCreate, CallUpdate, CallDelete, Authorise, LookUpAddress, LoadUser, RoleRefused,
           Fails, IInv, TypeOK
  <1>2. users' \in [Users -> UserRow] /\ AddressesUnique' /\ AccountsTraceable' /\ NeverBlank'
        /\ \A a : Founder(a) => Founder(a)'
    BY <1>1, TableStays
  <1>3. req' \in [Threads -> Request] /\ \A s \in Threads : RequestOK(s)'
    <2>1. CASE Call(t)
      <3>1. PICK a \in Users : Administrator(a) /\
              \/ \E e \in Emails, role \in Roles : CallCreate(t, a, e, role)
              \/ \E u \in Users :
                  \/ \E e \in Emails \cup {None}, role \in Roles \cup {None} : CallUpdate(t, a, u, e, role)
                  \/ CallDelete(t, a, u)
        BY <2>1 DEF Call, CallCreate, CallUpdate, CallDelete, Authorise
      <3>2. Founder(a) /\ users[a] \in UserRow
        BY <3>1 DEF Administrator, MayAct, Founder, IInv, TypeOK
      <3>3. CASE \E e \in Emails, role \in Roles : CallCreate(t, a, e, role)
        <4>1. PICK e \in Emails, role \in Roles : CallCreate(t, a, e, role) BY <3>3
        <4> DEFINE q == [pc |-> "create", by |-> a, user |-> None, email |-> e, role |-> role,
                         loaded |-> users[a]]
        <4>2. q \in Request BY <3>2 DEF Request
        <4>3. req' = [req EXCEPT ![t] = q] BY <4>1 DEF CallCreate, Authorise, Goto
        <4>4. req'[t] = q BY <4>3 DEF IInv, TypeOK
        <4>5. RequestOK(t)' BY <4>4, <3>2, <1>2 DEF RequestOK
        <4> QED BY <4>2, <4>3, <4>5, <1>2, HandlersKeep
      <3>4. CASE \E u \in Users : \E e \in Emails \cup {None}, role \in Roles \cup {None} :
                    CallUpdate(t, a, u, e, role)
        <4>1. PICK u \in Users, e \in Emails \cup {None}, role \in Roles \cup {None} :
                    CallUpdate(t, a, u, e, role) BY <3>4
        <4> DEFINE q == [pc |-> "update", by |-> IF u = a THEN a ELSE None, user |-> u,
                         email |-> e, role |-> role, loaded |-> IF u = a THEN users[a] ELSE NoUser]
        <4>2. q \in Request BY <3>2, NoUserType DEF Request
        <4>3. req' = [req EXCEPT ![t] = q] BY <4>1 DEF CallUpdate, Authorise, Goto
        <4>4. req'[t] = q BY <4>3 DEF IInv, TypeOK
        <4>5. RequestOK(t)' BY <4>4 DEF RequestOK
        <4> QED BY <4>2, <4>3, <4>5, <1>2, HandlersKeep
      <3>5. CASE \E u \in Users : CallDelete(t, a, u)
        <4>1. PICK u \in Users : CallDelete(t, a, u) BY <3>5
        <4> DEFINE q == [Idle EXCEPT !.pc = "delete", !.user = u]
        <4>2. q \in Request /\ q.pc = "delete" /\ q.user = u
          BY NoUserType DEF Request, Idle
        <4>3. req' = [req EXCEPT ![t] = q] BY <4>1 DEF CallDelete, Authorise, Goto
        <4>4. req'[t] = q BY <4>3 DEF IInv, TypeOK
        <4>5. RequestOK(t)' BY <4>4, <4>2 DEF RequestOK
        <4> HIDE DEF q
        <4> QED BY <4>2, <4>3, <4>5, <1>2, HandlersKeep
      <3> QED BY <3>1, <3>3, <3>4, <3>5
    <2>2. CASE LookUpAddress(t)
      <3>1. req[t] \in Request /\ req[t].pc = "create" /\ RequestOK(t)
        BY <2>2 DEF LookUpAddress, IInv, TypeOK
      <3>2. CASE Goto(t, [req[t] EXCEPT !.pc = "insert", !.loaded = NoUser])
        <4> DEFINE q == [req[t] EXCEPT !.pc = "insert", !.loaded = NoUser]
        <4>1. /\ q \in Request /\ q.pc = "insert" /\ q.by = req[t].by
              /\ q.email = req[t].email /\ q.role = req[t].role
          BY <3>1, NoUserType DEF Request
        <4>2. req'[t] = q BY <3>2 DEF Goto, IInv, TypeOK
        <4> HIDE DEF q
        <4>3. RequestOK(t)' BY <4>1, <4>2, <3>1, <1>2 DEF RequestOK
        <4> QED BY <4>1, <4>3, <3>2, <1>2, HandlersKeep DEF Goto, q
      <3>3. CASE \E u \in Users : Goto(t, [Idle EXCEPT !.pc = "recreate", !.user = u])
        <4>1. PICK u \in Users : Goto(t, [Idle EXCEPT !.pc = "recreate", !.user = u]) BY <3>3
        <4> DEFINE q == [Idle EXCEPT !.pc = "recreate", !.user = u]
        <4>2. q \in Request /\ q.pc = "recreate" /\ q.user = u
          BY NoUserType DEF Request, Idle
        <4>3. req'[t] = q BY <4>1 DEF Goto, IInv, TypeOK
        <4> HIDE DEF q
        <4>4. RequestOK(t)' BY <4>2, <4>3 DEF RequestOK
        <4> QED BY <4>1, <4>2, <4>4, <1>2, HandlersKeep DEF Goto, q
      <3>4. CASE Finish(t) BY <3>4, <1>2, EndsOK
      <3> QED BY <2>2, <3>2, <3>3, <3>4 DEF LookUpAddress
    <2>3. CASE LoadUser(t)
      <3>1. req[t] \in Request /\ req[t].pc = "update" /\ RequestOK(t) /\ req[t].user \in Users
        BY <2>3 DEF LoadUser, IInv, TypeOK, RequestOK
      <3> DEFINE q == [req[t] EXCEPT !.pc = "write", !.by = None, !.loaded = Found(req[t], req[t].user)]
      <3>2. Found(req[t], req[t].user) \in UserRow
        BY <3>1 DEF Found, Request, IInv, TypeOK
      <3>3. q \in Request /\ q.pc = "write" /\ q.user = req[t].user BY <3>1, <3>2 DEF Request
      <3>4. req'[t] = q BY <2>3 DEF LoadUser, Goto, IInv, TypeOK
      <3> HIDE DEF q
      <3>5. RequestOK(t)' BY <3>1, <3>3, <3>4 DEF RequestOK
      <3> QED BY <2>3, <3>3, <3>5, <1>2, HandlersKeep DEF LoadUser, Goto, q
    <2>4. CASE RoleRefused(t) \/ Fails(t)
      BY <2>4, <1>2, EndsOK DEF RoleRefused, Fails
    <2> QED BY <2>1, <2>2, <2>3, <2>4
  <1> QED BY <1>1, <1>2, <1>3 DEF IInv, TypeOK

\* A step of one row, by a handler that ends with it or by none.
LEMMA WriteStep ==
    ASSUME IInv, NEW u \in Users, NEW row \in UserRow, RowStep(u, row),
           UNCHANGED req \/ \E t \in Threads : Finish(t),
           events' \in Nat
    PROVE IInv'
  <1>1. /\ users' \in [Users -> UserRow]
        /\ AddressesUnique' /\ AccountsTraceable' /\ NeverBlank'
        /\ \A a : Founder(a) => Founder(a)'
    BY RowStepTables
  <1>2. req' \in [Threads -> Request] /\ \A s \in Threads : RequestOK(s)'
    <2>1. CASE \E t \in Threads : Finish(t) BY <2>1, <1>1, EndsOK
    <2>2. CASE UNCHANGED req BY <2>2, <1>1 DEF IInv, TypeOK, RequestOK
    <2> QED BY <2>1, <2>2
  <1> QED BY <1>1, <1>2 DEF IInv, TypeOK

LEMMA InsertUserStep ==
    ASSUME IInv, NEW t \in Threads, NEW u \in Users, InsertUser(t, u)
    PROVE IInv'
  <1> DEFINE row == NewUser(req[t].email, req[t].role, req[t].by)
  <1>1. /\ Founder(req[t].by) /\ req[t].by \in Users
        /\ req[t].email \in Emails /\ req[t].role \in Roles
    BY DEF InsertUser, IInv, RequestOK, Founder
  <1>2. row \in UserRow /\ row.row = "live" /\ row.email = req[t].email /\ row.by = req[t].by
    BY <1>1, NewUserType
  <1> HIDE DEF row
  <1>3. RowStep(u, row)
    <2>1. users' = [users EXCEPT ![u] = row] BY DEF InsertUser, row
    <2>2. AddressFree(u, row.email) BY <1>2 DEF InsertUser
    <2>3. users[u].row = "never" /\ ~users[u].enrolled BY DEF InsertUser, IInv, NeverBlank
    <2> QED BY <1>1, <1>2, <2>1, <2>2, <2>3 DEF RowStep
  <1> QED BY <1>2, <1>3, WriteStep DEF InsertUser, IInv, TypeOK

\* The writes to a row that is there: neither its history nor, unless it is
\* given, its address changes.
LEMMA RowWritten ==
    ASSUME IInv, NEW u \in Users, Live(u), NEW row \in UserRow,
           users' = [users EXCEPT ![u] = row],
           row.by = users[u].by, row.role = users[u].role,
           users[u].enrolled => row.enrolled, row.row \in {"live", "gone"},
           row.row = "live" => row.email = users[u].email \/ AddressFree(u, row.email)
    PROVE RowStep(u, row)
  <1>1. AddressFree(u, users[u].email) BY OwnAddress DEF IInv
  <1> QED BY <1>1 DEF RowStep, Live

LEMMA HandlerWriteStep ==
    ASSUME IInv, NEW t \in Threads, RecreateUser(t) \/ WriteUser(t) \/ DeleteUser(t)
    PROVE IInv'
  <1> DEFINE u == req[t].user  now == users[u]
  <1>1. u \in Users /\ now \in UserRow /\ req[t] \in Request
    BY DEF RecreateUser, WriteUser, DeleteUser, IInv, RequestOK, TypeOK
  <1>2. events' \in Nat /\ Finish(t)
    BY DEF RecreateUser, WriteUser, DeleteUser, IInv, TypeOK
  <1>3. CASE RecreateUser(t)
    <2> DEFINE row == [now EXCEPT !.row = "live", !.status = "pending"]
    <2>1. /\ row \in UserRow /\ row.by = now.by /\ row.role = now.role
          /\ row.enrolled = now.enrolled /\ row.row = "live" /\ row.email = now.email
      BY <1>1 DEF UserRow, Row
    <2>2. Live(u) /\ users' = [users EXCEPT ![u] = row]
      BY <1>3 DEF RecreateUser, Updatable
    <2> HIDE DEF row
    <2>3. RowStep(u, row) BY <1>1, <2>1, <2>2, RowWritten
    <2> QED BY <1>1, <1>2, <2>1, <2>3, WriteStep
  <1>4. CASE WriteUser(t) /\ NewEmail(req[t])
    <2> DEFINE row == Written(req[t], now)
    <2>0. req[t].email \in Emails BY <1>1, <1>4 DEF Request, NewEmail
    <2>1. /\ row \in UserRow /\ row.by = now.by /\ row.role = now.role
          /\ row.enrolled = now.enrolled /\ row.row = now.row /\ row.email = req[t].email
      BY <1>1, <2>0 DEF UserRow, Written
    <2>2. Live(u) /\ AddressFree(u, req[t].email) /\ users' = [users EXCEPT ![u] = row]
      BY <1>4 DEF WriteUser
    <2> HIDE DEF row
    <2>3. RowStep(u, row) BY <1>1, <2>1, <2>2, RowWritten DEF Live
    <2> QED BY <1>1, <1>2, <2>1, <2>3, WriteStep
  <1>5. CASE WriteUser(t) /\ ~NewEmail(req[t])
    <2>1. UNCHANGED users BY <1>5 DEF WriteUser
    <2> QED BY <2>1, <1>2, TableStays, EndsOK DEF IInv, TypeOK
  <1>6. CASE DeleteUser(t)
    <2> DEFINE row == [now EXCEPT !.row = "gone", !.email = None, !.status = "pending"]
    <2>1. /\ row \in UserRow /\ row.by = now.by /\ row.role = now.role
          /\ row.enrolled = now.enrolled /\ row.row = "gone"
      BY <1>1 DEF UserRow, Row
    <2>2. Live(u) /\ users' = [users EXCEPT ![u] = row]
      BY <1>6 DEF DeleteUser
    <2> HIDE DEF row
    <2>3. RowStep(u, row) BY <1>1, <2>1, <2>2, RowWritten
    <2> QED BY <1>1, <1>2, <2>1, <2>3, WriteStep
  <1> QED BY <1>3, <1>4, <1>5, <1>6

LEMMA EnvironmentStep ==
    ASSUME IInv, Environment
    PROVE IInv'
  <1>0. events' \in Nat
    <2>1. events \in Nat BY DEF IInv, TypeOK
    <2>2. events' = events \/ events' = events + 1
      BY DEF Environment, Promote, Register, DisableUser, WindowCloses, Restart, Event
    <2> QED BY <2>1, <2>2
  <1>1. CASE \E u \in Users : Promote(u) \/ Register(u) \/ DisableUser(u) \/ WindowCloses(u)
    <2>1. PICK u \in Users : Promote(u) \/ Register(u) \/ DisableUser(u) \/ WindowCloses(u) BY <1>1
    <2>2. Live(u) /\ users[u] \in UserRow /\ req' = req
      BY <2>1 DEF Promote, Register, DisableUser, WindowCloses, IInv, TypeOK
    <2>3. PICK row \in UserRow :
            /\ users' = [users EXCEPT ![u] = row]
            /\ row.by = users[u].by /\ row.role = users[u].role
            /\ users[u].enrolled => row.enrolled
            /\ row.row = users[u].row /\ row.email = users[u].email
      <3>1. CASE Promote(u)
        <4> DEFINE row == [users[u] EXCEPT !.status = "verified"]
        <4>1. row \in UserRow BY <2>2 DEF UserRow
        <4>2. users' = [users EXCEPT ![u] = row] BY <3>1 DEF Promote
        <4> QED BY <4>1, <4>2, <2>2 DEF UserRow
      <3>4. CASE Register(u)
        <4> DEFINE row == [users[u] EXCEPT !.enrolled = TRUE]
        <4>1. row \in UserRow BY <2>2 DEF UserRow
        <4>2. users' = [users EXCEPT ![u] = row] BY <3>4 DEF Register
        <4> QED BY <4>1, <4>2, <2>2 DEF UserRow
      <3>2. CASE DisableUser(u)
        <4> DEFINE row == [users[u] EXCEPT !.status = "disabled"]
        <4>1. row \in UserRow BY <2>2 DEF UserRow
        <4>2. users' = [users EXCEPT ![u] = row] BY <3>2 DEF DisableUser
        <4> QED BY <4>1, <4>2, <2>2 DEF UserRow
      <3>3. CASE WindowCloses(u)
        <4> DEFINE row == [users[u] EXCEPT !.status = "late"]
        <4>1. row \in UserRow BY <2>2 DEF UserRow
        <4>2. users' = [users EXCEPT ![u] = row] BY <3>3 DEF WindowCloses
        <4> QED BY <4>1, <4>2, <2>2 DEF UserRow
      <3> QED BY <2>1, <3>1, <3>2, <3>3, <3>4
    <2>4. RowStep(u, row) BY <2>2, <2>3, RowWritten DEF Live
    <2> QED BY <1>0, <2>2, <2>4, WriteStep
  <1>2. CASE Restart
    <2>1. req' \in [Threads -> Request] /\ \A s \in Threads : RequestOK(s)'
      BY <1>2, IdleType DEF Restart, RequestOK, Idle
    <2>2. /\ users' \in [Users -> UserRow]
          /\ AddressesUnique' /\ AccountsTraceable' /\ NeverBlank'
      <3>1. CASE StartInsert
        <4>1. PICK u \in Users : users[u].row = "never"
                    /\ users' = [users EXCEPT ![u] = NewUser(InitialEmail, "admin", None)]
          BY <3>1 DEF StartInsert
        <4> DEFINE row == NewUser(InitialEmail, "admin", None)
        <4>2. row \in UserRow /\ row.row = "live" /\ row.by = None /\ row.role = "admin"
          BY NewUserType, AccountsAssumption DEF Roles
        <4> HIDE DEF row
        <4>3. RowStep(u, row)
          BY <3>1, <4>1, <4>2 DEF StartInsert, RowStep, AddressFree, row, IInv, NeverBlank
        <4> QED BY <4>2, <4>3, RowStepTables
      <3>2. CASE StartSkip BY <3>2, TableStays DEF StartSkip
      <3> QED BY <1>2, <3>1, <3>2 DEF Restart
    <2> QED BY <1>0, <1>2, <2>1, <2>2 DEF Restart, IInv, TypeOK
  <1> QED BY <1>1, <1>2 DEF Environment

-----------------------------------------------------------------------------
LEMMA Initially == Init => IInv
  <1> SUFFICES ASSUME Init PROVE IInv OBVIOUS
  <1>1. PICK u \in Users :
          users = [v \in Users |-> IF v = u THEN NewUser(InitialEmail, "admin", None) ELSE NoUser]
    BY DEF Init
  <1> DEFINE first == NewUser(InitialEmail, "admin", None)
  <1>2. first \in UserRow /\ first.row = "live" /\ first.by = None /\ first.role = "admin"
    BY NewUserType, AccountsAssumption DEF Roles
  <1> HIDE DEF first
  <1>3. users[u] = first /\ \A v \in Users \ {u} : users[v] = NoUser BY <1>1 DEF first
  <1>4. TypeOK BY <1>1, <1>2, NoUserType, IdleType DEF Init, TypeOK, first
  <1>5. AddressesUnique /\ AccountsTraceable /\ NeverBlank
    BY <1>2, <1>3 DEF AddressesUnique, AccountsTraceable, NeverBlank, Live, NoUser
  <1>6. \A t \in Threads : RequestOK(t) BY DEF Init, RequestOK, Idle
  <1> QED BY <1>4, <1>5, <1>6 DEF IInv

LEMMA Preserved == IInv /\ [Next]_vars => IInv'
  <1> SUFFICES ASSUME IInv, [Next]_vars PROVE IInv' OBVIOUS
  <1>1. CASE Next
    BY <1>1, ReadStep, InsertUserStep, HandlerWriteStep, EnvironmentStep DEF Next, Proceed
  <1>2. CASE UNCHANGED vars
    BY <1>2, TableStays DEF vars, IInv, TypeOK, RequestOK, Founder
  <1> QED BY <1>1, <1>2

\* The inductive invariant of Accounts: whoever is about to make an account is
\* an administrator who had enrolled.
THEOREM AccountsInvariance == Spec => []IInv
  BY Initially, Preserved, PTL DEF Spec

\* The users table and the handlers keep their types.
THEOREM AccountsTypeCorrect == Spec => []TypeOK
  <1>1. IInv => TypeOK BY DEF IInv
  <1> QED BY <1>1, AccountsInvariance, PTL

\* An address belongs to one user at most, whichever creations and updates
\* overlap.
THEOREM AddressesAreUnique == Spec => []AddressesUnique
  <1>1. IInv => AddressesUnique BY DEF IInv
  <1> QED BY <1>1, AccountsInvariance, PTL

\* Every account goes back to a first start through administrators who had
\* enrolled.
THEOREM AccountsAreTraceable == Spec => []AccountsTraceable
  <1>1. IInv => AccountsTraceable BY DEF IInv
  <1> QED BY <1>1, AccountsInvariance, PTL

-----------------------------------------------------------------------------
\* What a step makes of a row that is there or gone.
LEMMA StepOfRow ==
    ASSUME IInv, Next, NEW u \in Users
    PROVE /\ users[u].row = "gone" => users'[u] = users[u]
          /\ Live(u) /\ users[u].status = "disabled" =>
                \/ users'[u].row = "gone" \/ users'[u].status = "disabled"
                \/ users'[u].status = "verified" /\ req' = req
                \/ \E t \in Threads : /\ req[t].pc = "recreate" /\ req[t].user = u
                                      /\ req'[t] = Idle
  <1>0. users \in [Users -> UserRow] /\ req \in [Threads -> Request] BY DEF IInv, TypeOK
  <1>1. CASE UNCHANGED users BY <1>1
  <1>2. ASSUME NEW t \in Threads, NEW v \in Users, InsertUser(t, v)
        PROVE users[u].row # "never" => users'[u] = users[u]
    BY <1>0, <1>2 DEF InsertUser
  <1>3. ASSUME NEW t \in Threads, RecreateUser(t)
        PROVE /\ Live(req[t].user) /\ req[t].pc = "recreate" /\ req'[t] = Idle
              /\ u # req[t].user => users'[u] = users[u]
    BY <1>0, <1>3 DEF RecreateUser, Updatable, Finish, Goto
  <1>4. ASSUME NEW t \in Threads, WriteUser(t) /\ NewEmail(req[t])
        PROVE /\ users'[u].status = users[u].status
              /\ ~Live(u) => users'[u] = users[u]
    <2>1. users[u] \in UserRow BY <1>0
    <2>2. Live(req[t].user) /\ users' = [users EXCEPT ![req[t].user] = Written(req[t], @)]
      BY <1>4 DEF WriteUser
    <2>3. Written(req[t], users[u]).status = users[u].status BY <2>1 DEF Written, UserRow
    <2> QED BY <1>0, <2>2, <2>3
  <1>5. ASSUME NEW t \in Threads, DeleteUser(t)
        PROVE \/ Live(u) /\ users'[u].row = "gone"
              \/ users'[u] = users[u]
    <2>1. users[u] \in UserRow BY <1>0
    <2> QED BY <1>0, <1>5, <2>1 DEF DeleteUser, UserRow
  <1>6. ASSUME NEW v \in Users, Promote(v) \/ Register(v) \/ DisableUser(v) \/ WindowCloses(v)
        PROVE /\ ~Live(u) => users'[u] = users[u]
              /\ \/ users'[u] = users[u]
                 \/ users'[u].status = "verified" /\ req' = req
                 \/ users[u].status # "disabled"
                 \/ users'[u].status = users[u].status
    <2>1. users[u] \in UserRow /\ users[v] \in UserRow BY <1>0
    <2>2. CASE Promote(v) \/ Register(v) BY <1>0, <2>1, <2>2 DEF Promote, Register, UserRow
    <2>3. CASE DisableUser(v) \/ WindowCloses(v) BY <1>0, <2>3 DEF DisableUser, WindowCloses
    <2> QED BY <1>6, <2>2, <2>3
  <1>7. ASSUME Restart
        PROVE users[u].row # "never" => users'[u] = users[u]
    BY <1>0, <1>7 DEF Restart, StartInsert, StartSkip
  <1>8. ASSUME NEW t \in Threads,
               Call(t) \/ LookUpAddress(t) \/ LoadUser(t) \/ RoleRefused(t) \/ Fails(t)
                 \/ (WriteUser(t) /\ ~NewEmail(req[t]))
        PROVE users' = users
    BY <1>8 DEF Call, CallCreate, CallUpdate, CallDelete, Authorise, LookUpAddress, LoadUser,
                RoleRefused, Fails, WriteUser
  <1> QED
    <2>1. CASE Environment BY <2>1, <1>6, <1>7 DEF Environment, Live
    <2>2. ASSUME NEW t \in Threads, Call(t) \/ Proceed(t)
          PROVE \/ users' = users
                \/ \E v \in Users : InsertUser(t, v)
                \/ RecreateUser(t) \/ DeleteUser(t)
                \/ WriteUser(t) /\ NewEmail(req[t])
      BY <2>2, <1>8 DEF Proceed
    <2>3. CASE \E t \in Threads : Call(t) \/ Proceed(t)
      BY <2>2, <2>3, <1>1, <1>2, <1>3, <1>4, <1>5 DEF Live
    <2> QED BY <2>1, <2>3 DEF Next

\* No handler brings a deleted user back, whatever it had loaded.
THEOREM DeletedUsersStayDeleted == Spec => DeletedStaysDeleted
  <1>1. IInv /\ [Next]_vars => \A u \in Users : users[u].row = "gone" => users'[u].row = "gone"
    <2> SUFFICES ASSUME IInv, [Next]_vars, NEW u \in Users, users[u].row = "gone"
                 PROVE users'[u].row = "gone"
      OBVIOUS
    <2>1. CASE Next BY <2>1, StepOfRow
    <2>2. CASE UNCHANGED vars BY <2>2 DEF vars
    <2> QED BY <2>1, <2>2
  <1> QED BY <1>1, AccountsInvariance, PTL DEF Spec, DeletedStaysDeleted

\* A disabled user stays so until a registration or a creation that has found
\* it disabled.
THEOREM DisabledUsersStand == Spec => DisabledStands
  <1>1. IInv /\ [Next]_vars =>
            \A u \in Users :
                Live(u) /\ users[u].status = "disabled" =>
                    \/ users'[u].row = "gone" \/ users'[u].status = "disabled"
                    \/ users'[u].status = "verified" /\ req' = req
                    \/ \E t \in Threads : /\ req[t].pc = "recreate" /\ req[t].user = u
                                          /\ req'[t] = Idle
    BY StepOfRow DEF vars
  <1> QED BY <1>1, AccountsInvariance, PTL DEF Spec, DisabledStands
=============================================================================
