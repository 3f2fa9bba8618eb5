--------------------------- MODULE OidcAdminProofs ---------------------------
(* Proofs about OidcAdmin, for any number of scopes, clients, mappings and  *)
(* worker threads.                                                          *)
EXTENDS OidcAdmin, TLAPS

\* What a handler in flight with record q may rely on.
DeletesScope(q) ==
    /\ q.scope \notin SystemScopes
    /\ q.since <= ids
    /\ \A m \in Mappings : Live(mappings, m) /\ mappings[m].columns.scope = q.scope =>
            mappings[m].by > q.since

ReplacesScopes(q) ==
    /\ Live(clients, q.client)
    /\ \A row \in q.doomed : row.client = q.client

HandlerOK(q) ==
    /\ q.pc \in {"checkClients", "deleteScope"} => DeletesScope(q)
    /\ q.pc = "deleteScope" =>
            \A row \in clientScopes : row.scope = q.scope => row.by > q.since
    /\ q.pc \in {"replace", "blocked", "commit"} => ReplacesScopes(q)
    /\ q.pc \in {"blocked", "commit"} /\ ~q.stale =>
            \A row \in clientScopes : row.client = q.client => row \in q.doomed

RowsHaveClients == \A row \in clientScopes : clients[row.client].row # "never"

LiveMappings ==
    \A m \in Mappings : Live(mappings, m) => mappings[m].columns \in MappingColumns

OidcAdminInv ==
    /\ OidcAdminTypeOK
    /\ LiveMappings
    /\ ReferencesExist
    /\ ScopesOfLastEdit
    /\ SecretAsTold
    /\ RowsHaveClients
    /\ \A t \in Editors : HandlerOK(edit[t])

-----------------------------------------------------------------------------
\* The point that a handler has reached tells what its record holds.
LEMMA Kinds ==
    ASSUME NEW q \in Edit
    PROVE /\ q.pc = "insertScope" => q \in NewScope
          /\ q.pc \in {"checkClients", "deleteScope"} => q \in OldScope
          /\ q.pc = "insertMapping" => q \in NewMapping
          /\ q.pc = "updateMapping" => q \in OldMapping
          /\ q.pc = "insertClient" => q \in NewClient
          /\ q.pc \in {"replace", "blocked", "commit"} => q \in OldClient
          /\ q.pc = "activate" => q \in Switch
  <1> QED BY DEF Edit, Idle, NewScope, OldScope, NewMapping, OldMapping, NewClient, OldClient, Switch

LEMMA IdleIsFine == Idle \in Edit /\ HandlerOK(Idle) /\ HandlerOK(Idle)'
  BY DEF Edit, Idle, HandlerOK

\* ScopesOfLastEdit, without the set of names that are held.
LEMMA ListOfLastEdit ==
    ScopesOfLastEdit <=>
        \A c \in Clients :
            /\ \A s \in edited[c].names : \E row \in clientScopes : row.client = c /\ row.scope = s
            /\ edited[c].exact =>
                    \A row \in clientScopes : row.client = c => row.scope \in edited[c].names
  BY DEF ScopesOfLastEdit, RowsOf

\* A step that moves one handler on, and leaves the tables alone.
LEMMA HandlerMoves ==
    ASSUME OidcAdminInv, NEW t \in Editors, NEW q \in Edit, HandlerOK(q),
           edit' = [edit EXCEPT ![t] = q],
           UNCHANGED <<scopes, clients, clientScopes, mappings, ids, edited, told>>
    PROVE OidcAdminInv'
  <1>1. OidcAdminTypeOK' BY DEF OidcAdminInv, OidcAdminTypeOK
  <1>2. /\ ReferencesExist' /\ SecretAsTold' /\ RowsHaveClients' /\ LiveMappings'
    BY DEF OidcAdminInv, LiveMappings, ReferencesExist, SecretAsTold, RowsHaveClients, ScopeExists, Live
  <1>3. ScopesOfLastEdit'
    BY DEF OidcAdminInv, ScopesOfLastEdit, RowsOf
  <1>4. \A u \in Editors : edit'[u] = IF u = t THEN q ELSE edit[u]
    BY DEF OidcAdminInv, OidcAdminTypeOK
  <1>5. ASSUME NEW u \in Editors PROVE HandlerOK(edit[u])'
    BY <1>4 DEF OidcAdminInv, HandlerOK, DeletesScope, ReplacesScopes, Live
  <1> QED BY <1>1, <1>2, <1>3, <1>5 DEF OidcAdminInv

-----------------------------------------------------------------------------
(* The first halves of the handlers.                                        *)

LEMMA RequestStep ==
    ASSUME OidcAdminAssumption, OidcAdminInv, NEW t \in Editors, Request(t)
    PROVE OidcAdminInv'
  <1> USE DEF Begin
  <1>1. ASSUME NEW s \in Scopes, CreateScope(t, s) PROVE OidcAdminInv'
    <2>1. [pc |-> "insertScope", scope |-> s] \in Edit BY DEF Edit, NewScope
    <2>2. HandlerOK([pc |-> "insertScope", scope |-> s]) BY DEF HandlerOK
    <2> QED BY <1>1, <2>1, <2>2, HandlerMoves DEF CreateScope
  <1>2. ASSUME NEW s \in Scopes, DeleteScope(t, s) PROVE OidcAdminInv'
    <2> DEFINE q == [pc |-> "checkClients", scope |-> s, id |-> scopes[s], since |-> ids]
    <2>1. q \in Edit BY DEF Edit, OldScope, OidcAdminInv, OidcAdminTypeOK
    <2>2. HandlerOK(q)
      BY <1>2 DEF HandlerOK, DeletesScope, DeleteScope, MappedTo, OidcAdminInv, OidcAdminTypeOK, Ids,
         OidcAdminAssumption
    <2>3. edit' = [edit EXCEPT ![t] = q] BY <1>2 DEF DeleteScope
    <2> HIDE DEF q
    <2> QED BY <1>2, <2>1, <2>2, <2>3, HandlerMoves DEF DeleteScope
  <1>3. ASSUME NEW new \in MappingForms, CreateMapping(t, new) PROVE OidcAdminInv'
    <2> DEFINE q == [pc |-> "insertMapping", new |-> new]
    <2>1. q \in Edit BY DEF Edit, NewMapping, OidcAdminAssumption
    <2>2. HandlerOK(q) BY DEF HandlerOK
    <2> QED BY <1>3, <2>1, <2>2, HandlerMoves DEF CreateMapping
  <1>4. ASSUME NEW new \in MappingForms, NEW m \in Mappings, UpdateMapping(t, m, new) PROVE OidcAdminInv'
    <2> DEFINE q == [pc |-> "updateMapping", mapping |-> m, loaded |-> mappings[m].columns, new |-> new]
    <2>1. mappings[m].columns \in MappingColumns
      BY <1>4 DEF UpdateMapping, OidcAdminInv, LiveMappings
    <2>2. q \in Edit BY <2>1 DEF Edit, OldMapping, OidcAdminAssumption
    <2>3. HandlerOK(q) BY DEF HandlerOK
    <2> QED BY <1>4, <2>2, <2>3, HandlerMoves DEF UpdateMapping
  <1>5. ASSUME NEW c \in Clients, NEW active \in BOOLEAN, NEW names \in SUBSET Scopes,
               CreateClient(t, c, names, active)
        PROVE OidcAdminInv'
    <2> DEFINE q == [pc |-> "insertClient", client |-> c, names |-> names, active |-> active]
    <2>1. q \in Edit BY DEF Edit, NewClient
    <2>2. HandlerOK(q) BY DEF HandlerOK
    <2> QED BY <1>5, <2>1, <2>2, HandlerMoves DEF CreateClient
  <1>6. ASSUME NEW c \in Clients, NEW active \in BOOLEAN, NEW names \in SUBSET Scopes,
               UpdateClient(t, c, names, active)
        PROVE OidcAdminInv'
    <2> DEFINE q == [pc |-> "replace", client |-> c, names |-> names, loaded |-> clients[c].columns,
                     active |-> active, doomed |-> {}, stale |-> FALSE]
    <2>1. clients[c].columns \in ClientColumns BY DEF OidcAdminInv, OidcAdminTypeOK, ClientRow
    <2>2. q \in Edit BY <2>1 DEF Edit, OldClient
    <2>3. HandlerOK(q) BY <1>6 DEF HandlerOK, ReplacesScopes, UpdateClient
    <2>4. edit' = [edit EXCEPT ![t] = q] BY <1>6 DEF UpdateClient
    <2> HIDE DEF q
    <2> QED BY <1>6, <2>2, <2>3, <2>4, HandlerMoves DEF UpdateClient
  <1>7. ASSUME NEW c \in Clients, NEW active \in BOOLEAN, SetClientActive(t, c, active)
        PROVE OidcAdminInv'
    <2> DEFINE q == [pc |-> "activate", client |-> c, loaded |-> clients[c].columns, active |-> active]
    <2>1. clients[c].columns \in ClientColumns BY DEF OidcAdminInv, OidcAdminTypeOK, ClientRow
    <2>2. q \in Edit BY <2>1 DEF Edit, Switch
    <2>3. HandlerOK(q) BY DEF HandlerOK
    <2> QED BY <1>7, <2>2, <2>3, HandlerMoves DEF SetClientActive
  <1> QED BY <1>1, <1>2, <1>3, <1>4, <1>5, <1>6, <1>7 DEF Request

\* A handler that ends without having written anything.
LEMMA EndStep ==
    ASSUME OidcAdminInv, NEW t \in Editors, DropNothing(t) \/ Abort(t)
    PROVE OidcAdminInv'
  BY IdleIsFine, HandlerMoves DEF DropNothing, Abort, End

LEMMA CheckClientsStep ==
    ASSUME OidcAdminInv, NEW t \in Editors, CheckClients(t)
    PROVE OidcAdminInv'
  <1> DEFINE q == edit[t]  go == [q EXCEPT !.pc = "deleteScope"]
  <1>1. q \in OldScope BY Kinds DEF CheckClients, OidcAdminInv, OidcAdminTypeOK
  <1>2. CASE Assigned(q.scope)
    BY <1>2, IdleIsFine, HandlerMoves DEF CheckClients
  <1>3. CASE ~Assigned(q.scope)
    <2>1. /\ go.pc = "deleteScope" /\ go.scope = q.scope /\ go.since = q.since /\ go \in Edit
      BY <1>1 DEF OldScope, Edit
    <2>2. DeletesScope(q) BY DEF CheckClients, OidcAdminInv, HandlerOK
    <2>3. DeletesScope(go) BY <2>1, <2>2 DEF DeletesScope
    <2>4. HandlerOK(go)
      <3> HIDE DEF go
      <3> QED BY <1>3, <2>1, <2>3 DEF HandlerOK, Assigned
    <2>5. edit' = [edit EXCEPT ![t] = go] BY <1>3 DEF CheckClients
    <2> HIDE DEF go
    <2> QED BY <2>1, <2>4, <2>5, HandlerMoves DEF CheckClients
  <1> QED BY <1>2, <1>3

LEMMA ReplaceStep ==
    ASSUME OidcAdminInv, NEW t \in Editors, ReplaceScopes(t)
    PROVE OidcAdminInv'
  <1> DEFINE q == edit[t]
             pc == IF Doomed(q) \cap Locked(t) = {} THEN "commit" ELSE "blocked"
             go == [q EXCEPT !.doomed = Doomed(q), !.pc = pc]
  <1>1. q \in OldClient /\ ReplacesScopes(q)
    BY Kinds DEF ReplaceScopes, OidcAdminInv, OidcAdminTypeOK, HandlerOK
  <1>2. pc \in {"blocked", "commit"} OBVIOUS
  <1>3. Doomed(q) \in SUBSET ClientScopeRow
    BY DEF Doomed, RowsOf, OidcAdminInv, OidcAdminTypeOK
  <1>4. edit' = [edit EXCEPT ![t] = go] BY DEF ReplaceScopes
  <1> HIDE DEF pc
  <1>5. /\ go \in Edit /\ go.pc = pc /\ go.client = q.client /\ go.doomed = Doomed(q)
    BY <1>1, <1>2, <1>3 DEF OldClient, Edit
  <1> HIDE DEF go
  <1>6. HandlerOK(go)
    BY <1>1, <1>2, <1>5 DEF HandlerOK, ReplacesScopes, Doomed, RowsOf
  <1> QED BY <1>4, <1>5, <1>6, HandlerMoves DEF ReplaceScopes

LEMMA UnblockStep ==
    ASSUME OidcAdminInv, NEW t \in Editors, Unblock(t)
    PROVE OidcAdminInv'
  <1> DEFINE q == edit[t]  left == q.doomed \cap clientScopes
             go == [q EXCEPT !.pc = "commit", !.doomed = left]
  <1>1. q \in OldClient /\ ReplacesScopes(q)
    BY Kinds DEF Unblock, OidcAdminInv, OidcAdminTypeOK, HandlerOK
  <1>2. ~q.stale => \A row \in clientScopes : row.client = q.client => row \in q.doomed
    BY DEF Unblock, OidcAdminInv, HandlerOK
  <1>3. edit' = [edit EXCEPT ![t] = go] BY DEF Unblock
  <1>4. /\ go \in Edit /\ go.pc = "commit" /\ go.client = q.client /\ go.doomed = left
        /\ go.stale = q.stale
    BY <1>1 DEF OldClient, Edit
  <1> HIDE DEF go
  <1>5. HandlerOK(go)
    BY <1>1, <1>2, <1>4 DEF HandlerOK, ReplacesScopes
  <1> QED BY <1>3, <1>4, <1>5, HandlerMoves DEF Unblock

-----------------------------------------------------------------------------
(* The steps that write.                                                    *)

\* A request number that has been drawn is a larger one.
LEMMA Drawn ==
    ASSUME OidcAdminAssumption, OidcAdminTypeOK, DrawId
    PROVE ids \in Nat /\ ids' = ids + 1 /\ ids' \in Ids /\ ids + 1 \in Ids /\ ids + 1 # 0
  BY DEF OidcAdminAssumption, OidcAdminTypeOK, DrawId, Ids

\* A handler keeps what it relies on, as long as rows are only taken away, or
\* are younger than all that began before.
LEMMA HandlerKept ==
    ASSUME OidcAdminInv, NEW u \in Editors, edit'[u] \in {edit[u], Idle},
           ids \in Nat, ids' \in Nat, ids <= ids',
           \A c \in Clients : Live(clients, c) => Live(clients', c),
           \A m \in Mappings : Live(mappings', m) =>
                \/ /\ Live(mappings, m) /\ mappings'[m].by = mappings[m].by
                   /\ mappings'[m].columns.scope = mappings[m].columns.scope
                \/ mappings'[m].by = ids + 1,
           \A row \in clientScopes' : row \in clientScopes \/ row.by = ids + 1,
           edit'[u].pc \in {"blocked", "commit"} /\ ~edit[u].stale =>
                \A row \in clientScopes' : row.client = edit[u].client => row \in clientScopes
    PROVE HandlerOK(edit[u])'
  <1>1. CASE edit'[u] = Idle BY <1>1 DEF HandlerOK, Idle
  <1>2. CASE edit'[u] = edit[u]
    <2> DEFINE q == edit[u]
    <2>1. /\ HandlerOK(q)
          /\ q.pc \in {"checkClients", "deleteScope"} => q.since \in Nat
          /\ q.pc \in {"replace", "blocked", "commit"} => q.client \in Clients
      BY Kinds DEF OidcAdminInv, OidcAdminTypeOK, OldScope, OldClient, Ids
    <2>2. q.pc \in {"checkClients", "deleteScope"} => DeletesScope(edit[u])'
      BY <1>2, <2>1 DEF HandlerOK, DeletesScope
    <2>3. ASSUME q.pc = "deleteScope", NEW row \in clientScopes', row.scope = q.scope
          PROVE row.by > q.since
      BY <2>1, <2>3 DEF HandlerOK, DeletesScope
    <2>4. q.pc \in {"replace", "blocked", "commit"} => ReplacesScopes(edit[u])'
      BY <1>2, <2>1 DEF HandlerOK, ReplacesScopes
    <2>5. ASSUME q.pc \in {"blocked", "commit"}, ~q.stale,
                 NEW row \in clientScopes', row.client = q.client
          PROVE row \in q.doomed
      BY <1>2, <2>1, <2>5 DEF HandlerOK
    <2> QED BY <1>2, <2>2, <2>3, <2>4, <2>5 DEF HandlerOK
  <1> QED BY <1>1, <1>2

\* The handlers after one of them has ended.
LEMMA Ended ==
    ASSUME OidcAdminTypeOK, NEW t \in Editors, End(t)
    PROVE /\ edit' \in [Editors -> Edit]
          /\ \A u \in Editors : edit'[u] = IF u = t THEN Idle ELSE edit[u]
  BY IdleIsFine DEF OidcAdminTypeOK, End

LEMMA InsertScopeStep ==
    ASSUME OidcAdminAssumption, OidcAdminInv, NEW t \in Editors, InsertScope(t)
    PROVE OidcAdminInv'
  <1> DEFINE s == edit[t].scope
  <1>1. s \in Scopes /\ scopes' = [scopes EXCEPT ![s] = ids + 1]
    BY Kinds DEF InsertScope, OidcAdminInv, OidcAdminTypeOK, NewScope
  <1>2. /\ ids \in Nat /\ ids' = ids + 1 /\ ids' \in Ids /\ ids + 1 \in Ids /\ ids + 1 # 0
        /\ edit' \in [Editors -> Edit]
        /\ \A u \in Editors : edit'[u] = IF u = t THEN Idle ELSE edit[u]
    BY Drawn, Ended DEF InsertScope, OidcAdminInv
  <1>3. UNCHANGED <<clients, clientScopes, mappings, edited, told>> BY DEF InsertScope
  <1> HIDE DEF s
  <1>4. OidcAdminTypeOK' /\ LiveMappings'
    BY <1>1, <1>2, <1>3 DEF OidcAdminInv, OidcAdminTypeOK, LiveMappings
  <1>5. \A r \in Scopes : ScopeExists(r) => ScopeExists(r)'
    BY <1>1, <1>2 DEF ScopeExists, OidcAdminInv, OidcAdminTypeOK
  <1>6. ReferencesExist'
    BY <1>3, <1>5 DEF OidcAdminInv, OidcAdminTypeOK, ReferencesExist, LiveMappings, ClientScopeRow,
       MappingColumns, Live
  <1>7. SecretAsTold' /\ RowsHaveClients' /\ ScopesOfLastEdit'
    BY <1>3 DEF OidcAdminInv, SecretAsTold, RowsHaveClients, ScopesOfLastEdit, RowsOf, Live
  <1>8. ASSUME NEW u \in Editors PROVE HandlerOK(edit[u])'
    BY <1>2, <1>3, HandlerKept
  <1> QED BY <1>4, <1>6, <1>7, <1>8 DEF OidcAdminInv

LEMMA DropScopeStep ==
    ASSUME OidcAdminAssumption, OidcAdminInv, NEW t \in Editors, DropScope(t)
    PROVE OidcAdminInv'
  <1> DEFINE s == edit[t].scope
             table == [m \in Mappings |-> IF Live(mappings, m) /\ mappings[m].columns.scope = s
                            THEN [mappings[m] EXCEPT !.row = "gone"] ELSE mappings[m]]
             lists == [c \in Clients |-> [edited[c] EXCEPT !.names = @ \ {s}]]
  <1> USE DEF OidcAdminInv
  <1>1. /\ s \in Scopes /\ scopes' = [scopes EXCEPT ![s] = 0]
        /\ clientScopes' = {row \in clientScopes : row.scope # s}
        /\ mappings' = table /\ edited' = lists
        /\ UNCHANGED <<clients, ids, told>>
    BY Kinds DEF DropScope, OidcAdminTypeOK, OldScope
  <1>2. /\ edit' \in [Editors -> Edit]
        /\ \A u \in Editors : edit'[u] = IF u = t THEN Idle ELSE edit[u]
    BY Ended DEF DropScope
  <1> HIDE DEF s
  <1>3. /\ \A m \in Mappings : table[m] \in MappingRow
        /\ \A m \in Mappings : table[m].row = "live" =>
                Live(mappings, m) /\ table[m] = mappings[m] /\ table[m].columns.scope # s
    <2>1. ASSUME NEW m \in Mappings
          PROVE /\ [mappings[m] EXCEPT !.row = "gone"] \in MappingRow
                /\ [mappings[m] EXCEPT !.row = "gone"].row = "gone"
      BY DEF OidcAdminTypeOK, MappingRow, Row
    <2> QED BY <2>1 DEF OidcAdminTypeOK, Live
  <1>4. \A c \in Clients : /\ lists[c] \in Edited
                           /\ lists[c].names = edited[c].names \ {s}
                           /\ lists[c].exact = edited[c].exact
    BY DEF OidcAdminTypeOK, Edited
  <1>5. table \in [Mappings -> MappingRow] /\ lists \in [Clients -> Edited]
    BY <1>3, <1>4
  <1> HIDE DEF table, lists
  <1>6. scopes' \in [Scopes -> Ids] /\ \A r \in Scopes : r # s /\ ScopeExists(r) => ScopeExists(r)'
    BY <1>1 DEF OidcAdminTypeOK, ScopeExists, Ids, OidcAdminAssumption
  <1>7. OidcAdminTypeOK' /\ LiveMappings'
    BY <1>1, <1>2, <1>3, <1>5, <1>6 DEF OidcAdminTypeOK, LiveMappings, Live
  <1>8. ReferencesExist'
    BY <1>1, <1>3, <1>6 DEF OidcAdminTypeOK, ReferencesExist, LiveMappings, ClientScopeRow,
       MappingColumns, Live
  <1>9. SecretAsTold' /\ RowsHaveClients'
    BY <1>1 DEF SecretAsTold, RowsHaveClients, Live
  <1>10. ScopesOfLastEdit'
    BY <1>1, <1>4 DEF ScopesOfLastEdit, RowsOf
  <1>11. ASSUME NEW u \in Editors PROVE HandlerOK(edit[u])'
    <2>1. ids \in Nat BY DEF OidcAdminTypeOK, Ids
    <2>2. \A m \in Mappings : Live(mappings', m) => Live(mappings, m) /\ mappings'[m] = mappings[m]
      BY <1>1, <1>3 DEF Live
    <2>3. \A c \in Clients : Live(clients, c) => Live(clients', c) BY <1>1
    <2> QED BY <1>1, <1>2, <2>1, <2>2, <2>3, HandlerKept
  <1> QED BY <1>7, <1>8, <1>9, <1>10, <1>11

\* What a mapping gets from a request that was checked against the scopes.
LEMMA MappingWritten ==
    ASSUME OidcAdminAssumption, OidcAdminInv, NEW m \in Mappings, NEW columns \in MappingColumns,
           NEW by \in Ids, NEW t \in Editors, DrawId, End(t),
           mappings' = [mappings EXCEPT ![m] = [row |-> "live", columns |-> columns, by |-> by]],
           ScopeExists(columns.scope),
           \/ by = ids + 1
           \/ Live(mappings, m) /\ by = mappings[m].by /\ columns.scope = mappings[m].columns.scope,
           UNCHANGED <<scopes, clients, clientScopes, edited, told>>
    PROVE OidcAdminInv'
  <1> USE DEF OidcAdminInv
  <1>1. /\ ids \in Nat /\ ids' = ids + 1 /\ ids' \in Ids
        /\ edit' \in [Editors -> Edit]
        /\ \A u \in Editors : edit'[u] = IF u = t THEN Idle ELSE edit[u]
    BY Drawn, Ended
  <1>2. [row |-> "live", columns |-> columns, by |-> by] \in MappingRow
    BY DEF MappingRow, Row
  <1>3. \A n \in Mappings :
            mappings'[n] = IF n = m THEN [row |-> "live", columns |-> columns, by |-> by] ELSE mappings[n]
    BY DEF OidcAdminTypeOK
  <1>4. OidcAdminTypeOK' BY <1>1, <1>2 DEF OidcAdminTypeOK
  <1>5. LiveMappings' BY <1>3 DEF LiveMappings, Live
  <1>6. ReferencesExist' BY <1>3 DEF ReferencesExist, ScopeExists, Live
  <1>7. SecretAsTold' /\ RowsHaveClients' /\ ScopesOfLastEdit'
    BY DEF SecretAsTold, RowsHaveClients, ScopesOfLastEdit, RowsOf, Live
  <1>8. \A n \in Mappings : Live(mappings', n) =>
            \/ /\ Live(mappings, n) /\ mappings'[n].by = mappings[n].by
               /\ mappings'[n].columns.scope = mappings[n].columns.scope
            \/ mappings'[n].by = ids + 1
    BY <1>3 DEF Live
  <1> HIDE DEF OidcAdminInv
  <1>9. ASSUME NEW u \in Editors PROVE HandlerOK(edit[u])'
    <2>1. /\ ids \in Nat /\ ids' \in Nat /\ ids <= ids'
          /\ edit'[u] \in {edit[u], Idle}
      BY <1>1
    <2>2. \A c \in Clients : Live(clients, c) => Live(clients', c) OBVIOUS
    <2>3. \A row \in clientScopes' : row \in clientScopes OBVIOUS
    <2> QED BY <1>8, <2>1, <2>2, <2>3, HandlerKept
  <1> QED BY <1>4, <1>5, <1>6, <1>7, <1>9 DEF OidcAdminInv

LEMMA InsertMappingStep ==
    ASSUME OidcAdminAssumption, OidcAdminInv, NEW t \in Editors, NEW m \in Mappings, InsertMapping(t, m)
    PROVE OidcAdminInv'
  <1>1. edit[t].new \in MappingColumns
    BY Kinds DEF InsertMapping, OidcAdminInv, OidcAdminTypeOK, NewMapping
  <1>2. ids + 1 \in Ids BY Drawn DEF InsertMapping, OidcAdminInv
  <1> QED BY <1>1, <1>2, MappingWritten DEF InsertMapping, MayRefer

LEMMA WriteMappingStep ==
    ASSUME OidcAdminAssumption, OidcAdminInv, NEW t \in Editors, WriteMapping(t)
    PROVE OidcAdminInv'
  <1> DEFINE q == edit[t]  now == mappings[q.mapping]
             Col(f) == Column(now.columns[f], q.loaded[f], q.new[f])
             columns == [scope |-> Col("scope"), claim |-> Col("claim"), source |-> Col("source"),
                         key |-> Col("key"), static |-> Col("static")]
             moved == q.new.scope # q.loaded.scope
             by == IF moved THEN ids + 1 ELSE now.by
  <1>1. q \in OldMapping /\ q.mapping \in Mappings
    BY Kinds DEF WriteMapping, OidcAdminInv, OidcAdminTypeOK, OldMapping
  <1>2. Live(mappings, q.mapping) /\ now \in MappingRow /\ now.columns \in MappingColumns
    BY <1>1 DEF WriteMapping, OidcAdminInv, OidcAdminTypeOK, LiveMappings
  <1>3. /\ columns \in MappingColumns
        /\ columns.scope = IF moved THEN q.new.scope ELSE now.columns.scope
    BY <1>1, <1>2 DEF MappingColumns, OldMapping, Column
  <1>4. ids + 1 \in Ids /\ DrawId /\ End(t) BY Drawn DEF WriteMapping, OidcAdminInv
  <1>5. by \in Ids BY <1>2, <1>4 DEF MappingRow
  <1>6. ScopeExists(columns.scope)
    <2>1. moved => ScopeExists(q.new.scope) BY DEF WriteMapping, MayRefer
    <2>2. ScopeExists(now.columns.scope) BY <1>1, <1>2 DEF OidcAdminInv, ReferencesExist
    <2> QED BY <1>3, <2>1, <2>2
  <1>7. mappings' = [mappings EXCEPT ![q.mapping] = [row |-> "live", columns |-> columns, by |-> by]]
    BY DEF WriteMapping
  <1>8. \/ by = ids + 1
        \/ by = now.by /\ columns.scope = now.columns.scope
    BY <1>3
  <1>9. UNCHANGED <<scopes, clients, clientScopes, edited, told>> BY DEF WriteMapping
  <1> HIDE DEF q, columns, by
  <1> QED BY <1>1, <1>2, <1>3, <1>4, <1>5, <1>6, <1>7, <1>8, <1>9, MappingWritten

LEMMA DeleteMappingStep ==
    ASSUME OidcAdminAssumption, OidcAdminInv, NEW m \in Mappings, DeleteMapping(m)
    PROVE OidcAdminInv'
  <1> USE DEF OidcAdminInv
  <1>1. /\ mappings' = [mappings EXCEPT ![m] = [mappings[m] EXCEPT !.row = "gone"]]
        /\ UNCHANGED <<scopes, clients, clientScopes, ids, edited, told, edit>>
    BY DEF DeleteMapping
  <1>2. /\ [mappings[m] EXCEPT !.row = "gone"] \in MappingRow
        /\ [mappings[m] EXCEPT !.row = "gone"].row = "gone"
    BY DEF OidcAdminTypeOK, MappingRow, Row
  <1>3. \A n \in Mappings : Live(mappings', n) => Live(mappings, n) /\ mappings'[n] = mappings[n]
    BY <1>1, <1>2 DEF Live, OidcAdminTypeOK
  <1>4. OidcAdminTypeOK' BY <1>1, <1>2 DEF OidcAdminTypeOK
  <1>5. LiveMappings' BY <1>3 DEF LiveMappings
  <1>6. ReferencesExist' BY <1>1, <1>3 DEF ReferencesExist, ScopeExists
  <1>7. SecretAsTold' /\ RowsHaveClients' /\ ScopesOfLastEdit'
    BY <1>1 DEF SecretAsTold, RowsHaveClients, ScopesOfLastEdit, RowsOf, Live
  <1>8. ASSUME NEW u \in Editors PROVE HandlerOK(edit[u])'
    <2>1. ids \in Nat BY DEF OidcAdminTypeOK, Ids
    <2>2. /\ edit'[u] \in {edit[u], Idle} /\ ids' = ids
          /\ clients' = clients /\ clientScopes' = clientScopes
      BY <1>1
    <2> HIDE DEF OidcAdminInv
    <2> QED BY <1>3, <2>1, <2>2, HandlerKept
  <1> QED BY <1>4, <1>5, <1>6, <1>7, <1>8

\* The rows that a list of scopes gives.
LEMMA NewRowsAre ==
    ASSUME ids + 1 \in Ids, NEW c \in Clients, NEW names \in SUBSET Scopes
    PROVE /\ \A r \in NewRows(c, names) : /\ r \in ClientScopeRow
                                          /\ r.client = c /\ r.scope \in names /\ r.by = ids + 1
          /\ \A s \in names : \E r \in NewRows(c, names) : r.client = c /\ r.scope = s
  <1>1. ASSUME NEW r \in NewRows(c, names)
        PROVE r \in ClientScopeRow /\ r.client = c /\ r.scope \in names /\ r.by = ids + 1
    <2>1. PICK s \in names : r = [client |-> c, scope |-> s, by |-> ids + 1] BY DEF NewRows
    <2> QED BY <2>1 DEF ClientScopeRow
  <1>2. ASSUME NEW s \in names
        PROVE \E r \in NewRows(c, names) : r.client = c /\ r.scope = s
    <2> DEFINE r == [client |-> c, scope |-> s, by |-> ids + 1]
    <2>1. r \in NewRows(c, names) BY DEF NewRows
    <2>2. r.client = c /\ r.scope = s OBVIOUS
    <2> HIDE DEF r
    <2> QED BY <2>1, <2>2
  <1> QED BY <1>1, <1>2

LEMMA InsertClientStep ==
    ASSUME OidcAdminAssumption, OidcAdminInv, NEW t \in Editors, InsertClient(t)
    PROVE OidcAdminInv'
  <1> DEFINE c == edit[t].client  names == edit[t].names  active == edit[t].active
             columns == [active |-> active, secret |-> 1]
             row == [row |-> "live", columns |-> columns]
             list == [names |-> names, exact |-> TRUE]
  <1> USE DEF OidcAdminInv
  <1>1. c \in Clients /\ names \in SUBSET Scopes /\ active \in BOOLEAN
    BY Kinds DEF InsertClient, OidcAdminTypeOK, NewClient
  <1>2. /\ clients[c].row = "never" /\ \A s \in names : ScopeExists(s)
        /\ clients' = [clients EXCEPT ![c] = row]
        /\ clientScopes' = clientScopes \cup NewRows(c, names)
        /\ edited' = [edited EXCEPT ![c] = list]
        /\ told' = [told EXCEPT ![c] = 1]
        /\ UNCHANGED <<scopes, mappings>>
    BY DEF InsertClient, MayRefer
  <1>3. /\ ids \in Nat /\ ids' = ids + 1 /\ ids' \in Ids /\ ids + 1 \in Ids
        /\ edit' \in [Editors -> Edit]
        /\ \A u \in Editors : edit'[u] = IF u = t THEN Idle ELSE edit[u]
    BY Drawn, Ended DEF InsertClient
  <1>4. 1 \in Secrets BY DEF Secrets, OidcAdminAssumption
  <1>5. row \in ClientRow /\ row.row = "live" /\ row.columns.secret = 1
    BY <1>1, <1>4 DEF ClientRow, ClientColumns, Row
  <1>6. list \in Edited /\ list.names = names /\ list.exact BY <1>1 DEF Edited
  <1>8. \A r \in NewRows(c, names) : /\ r \in ClientScopeRow
                                     /\ r.client = c /\ r.scope \in names /\ r.by = ids + 1
    BY <1>1, <1>3, NewRowsAre
  <1>9. \A s \in names : \E r \in NewRows(c, names) : r.client = c /\ r.scope = s
    BY <1>1, <1>3, NewRowsAre
  <1> HIDE DEF c, names, active, columns, row, list
  <1>10. \A d \in Clients : /\ clients'[d] = IF d = c THEN row ELSE clients[d]
                            /\ edited'[d] = IF d = c THEN list ELSE edited[d]
                            /\ told'[d] = IF d = c THEN 1 ELSE told[d]
    BY <1>2 DEF OidcAdminTypeOK
  <1>11. OidcAdminTypeOK' /\ LiveMappings'
    BY <1>1, <1>2, <1>3, <1>4, <1>5, <1>6, <1>8 DEF OidcAdminTypeOK, LiveMappings
  <1>12. ReferencesExist'
    BY <1>2, <1>8 DEF ReferencesExist, ScopeExists
  <1>13. SecretAsTold'
    BY <1>5, <1>10 DEF SecretAsTold, Live
  <1>14. RowsHaveClients'
    BY <1>1, <1>2, <1>5, <1>8, <1>10 DEF RowsHaveClients, OidcAdminTypeOK, ClientScopeRow
  <1>15. ScopesOfLastEdit'
    <2>1. \A r \in clientScopes : r.client # c BY <1>2 DEF RowsHaveClients
    <2>2. ASSUME NEW d \in Clients, NEW s \in edited'[d].names
          PROVE \E r \in clientScopes' : r.client = d /\ r.scope = s
      BY <1>2, <1>6, <1>9, <1>10, <2>2, ListOfLastEdit
    <2>3. ASSUME NEW d \in Clients, edited'[d].exact, NEW r \in clientScopes', r.client = d
          PROVE r.scope \in edited'[d].names
      BY <1>2, <1>6, <1>8, <1>10, <2>1, <2>3, ListOfLastEdit
    <2> QED BY <2>2, <2>3 DEF ScopesOfLastEdit, RowsOf
  <1> HIDE DEF OidcAdminInv
  <1>16. ASSUME NEW u \in Editors PROVE HandlerOK(edit[u])'
    <2>1. /\ ids' \in Nat /\ ids <= ids' /\ edit'[u] \in {edit[u], Idle}
      BY <1>3
    <2>2. \A d \in Clients : Live(clients, d) => Live(clients', d) BY <1>5, <1>10 DEF Live
    <2>3. \A r \in clientScopes' : r \in clientScopes \/ r.by = ids + 1 BY <1>2, <1>8
    <2>4. ASSUME edit'[u].pc \in {"blocked", "commit"}, NEW r \in clientScopes', r.client = edit[u].client
          PROVE r \in clientScopes
      <3>1. edit'[u] = edit[u] BY <1>3, <2>4 DEF Idle
      <3>2. Live(clients, edit[u].client)
        BY <2>4, <3>1 DEF OidcAdminInv, HandlerOK, ReplacesScopes
      <3> QED BY <1>2, <1>8, <2>4, <3>2 DEF Live
    <2> QED BY <1>2, <1>3, <2>1, <2>2, <2>3, <2>4, HandlerKept
  <1> QED BY <1>11, <1>12, <1>13, <1>14, <1>15, <1>16 DEF OidcAdminInv

LEMMA CommitClientStep ==
    ASSUME OidcAdminAssumption, OidcAdminInv, NEW t \in Editors, CommitClient(t)
    PROVE OidcAdminInv'
  <1> DEFINE q == edit[t]  c == q.client  names == q.names  now == clients[c].columns
             columns == [active |-> Column(now.active, q.loaded.active, q.active),
                         secret |-> Column(now.secret, q.loaded.secret, q.loaded.secret)]
             row == [clients[c] EXCEPT !.columns = columns]
             list == [names |-> names, exact |-> ~q.stale]
             Meets(u) == edit[u].pc \in {"blocked", "commit"} /\ edit[u].client = c
  <1> USE DEF OidcAdminInv
  <1>1. q \in OldClient /\ c \in Clients /\ names \in SUBSET Scopes
    BY Kinds DEF CommitClient, OidcAdminTypeOK, OldClient
  <1>2. /\ \A s \in names : ScopeExists(s)
        /\ clients' = [clients EXCEPT ![c] = row]
        /\ clientScopes' = (clientScopes \ q.doomed) \cup NewRows(c, names)
        /\ edited' = [edited EXCEPT ![c] = list]
        /\ UNCHANGED <<scopes, mappings, told>>
    BY DEF CommitClient, MayRefer
  <1>3. /\ ids \in Nat /\ ids' = ids + 1 /\ ids' \in Ids /\ ids + 1 \in Ids
    BY Drawn DEF CommitClient
  <1>4. /\ Live(clients, c)
        /\ \A r \in q.doomed : r.client = c
        /\ ~q.stale => \A r \in clientScopes : r.client = c => r \in q.doomed
    BY DEF CommitClient, HandlerOK, ReplacesScopes
  <1>5. clients[c] \in ClientRow /\ columns \in ClientColumns /\ columns.secret = now.secret
    BY <1>1 DEF OidcAdminTypeOK, OldClient, ClientRow, ClientColumns, Column
  <1>6. row \in ClientRow /\ row.row = "live" /\ row.columns.secret = now.secret
    <2> HIDE DEF columns
    <2> QED BY <1>4, <1>5 DEF ClientRow, Live
  <1>7. list \in Edited /\ list.names = names /\ list.exact = ~q.stale
    BY <1>1 DEF Edited, OldClient
  <1>8. \A r \in NewRows(c, names) : /\ r \in ClientScopeRow
                                     /\ r.client = c /\ r.scope \in names /\ r.by = ids + 1
    BY <1>1, <1>3, NewRowsAre
  <1>9. \A s \in names : \E r \in NewRows(c, names) : r.client = c /\ r.scope = s
    BY <1>1, <1>3, NewRowsAre
  <1>10. edit' = [u \in Editors |-> IF u = t THEN Idle
                                    ELSE IF Meets(u) THEN [edit[u] EXCEPT !.stale = TRUE] ELSE edit[u]]
    BY DEF CommitClient
  <1>11. \A u \in Editors : edit'[u] = IF u = t THEN Idle
                                       ELSE IF Meets(u) THEN [edit[u] EXCEPT !.stale = TRUE] ELSE edit[u]
    BY <1>10
  <1>12. ASSUME NEW u \in Editors, Meets(u)
         PROVE LET go == [edit[u] EXCEPT !.stale = TRUE] IN
               /\ go \in Edit /\ go.pc = edit[u].pc /\ go.client = edit[u].client
               /\ go.doomed = edit[u].doomed /\ go.stale
    <2>1. edit[u] \in OldClient BY <1>12, Kinds DEF OidcAdminTypeOK
    <2> QED BY <2>1 DEF OldClient, Edit
  <1>13. edit' \in [Editors -> Edit]
    BY <1>10, <1>12, IdleIsFine DEF OidcAdminTypeOK
  <1> HIDE DEF q, c, names, columns, row, list
  <1>14. \A d \in Clients : /\ clients'[d] = IF d = c THEN row ELSE clients[d]
                            /\ edited'[d] = IF d = c THEN list ELSE edited[d]
    BY <1>2 DEF OidcAdminTypeOK
  <1>15. OidcAdminTypeOK' /\ LiveMappings'
    BY <1>1, <1>2, <1>3, <1>6, <1>7, <1>8, <1>13 DEF OidcAdminTypeOK, LiveMappings
  <1>16. ReferencesExist'
    BY <1>2, <1>8 DEF ReferencesExist, ScopeExists
  <1>17. SecretAsTold'
    BY <1>2, <1>4, <1>6, <1>14 DEF SecretAsTold, Live, now
  <1>18. RowsHaveClients'
    BY <1>1, <1>2, <1>6, <1>8, <1>14 DEF RowsHaveClients, OidcAdminTypeOK, ClientScopeRow
  <1>19. ScopesOfLastEdit'
    <2>1. ASSUME NEW d \in Clients, NEW s \in edited'[d].names
          PROVE \E r \in clientScopes' : r.client = d /\ r.scope = s
      <3>1. CASE d = c BY <1>2, <1>7, <1>9, <1>14, <2>1, <3>1
      <3>2. CASE d # c
        <4>1. PICK r \in clientScopes : r.client = d /\ r.scope = s
          BY <1>14, <2>1, <3>2, ListOfLastEdit
        <4> QED BY <1>2, <1>4, <3>2, <4>1
      <3> QED BY <3>1, <3>2
    <2>2. ASSUME NEW d \in Clients, edited'[d].exact, NEW r \in clientScopes', r.client = d
          PROVE r.scope \in edited'[d].names
      <3>1. CASE d = c BY <1>2, <1>4, <1>7, <1>8, <1>14, <2>2, <3>1
      <3>2. CASE d # c BY <1>2, <1>8, <1>14, <2>2, <3>2, ListOfLastEdit
      <3> QED BY <3>1, <3>2
    <2> QED BY <2>1, <2>2 DEF ScopesOfLastEdit, RowsOf
  <1> HIDE DEF OidcAdminInv
  <1>20. /\ \A d \in Clients : Live(clients, d) => Live(clients', d)
         /\ \A r \in clientScopes' : r \in clientScopes \/ r.by = ids + 1
    BY <1>2, <1>6, <1>8, <1>14 DEF Live
  <1>21. ASSUME NEW u \in Editors PROVE HandlerOK(edit[u])'
    <2>1. CASE u # t /\ Meets(u)
      <3>1. /\ edit'[u].pc = edit[u].pc /\ edit'[u].client = edit[u].client
            /\ edit'[u].doomed = edit[u].doomed /\ edit'[u].stale
        BY <1>11, <1>12, <2>1
      <3>2. ReplacesScopes(edit[u]) /\ edit[u].client \in Clients
        BY <1>1, <2>1 DEF OidcAdminInv, HandlerOK
      <3>3. ReplacesScopes(edit[u])' BY <1>20, <3>1, <3>2 DEF ReplacesScopes
      <3> QED BY <2>1, <3>1, <3>3 DEF HandlerOK
    <2>2. CASE ~(u # t /\ Meets(u))
      <3>1. edit'[u] \in {edit[u], Idle} BY <1>11, <2>2
      <3>2. ASSUME edit'[u].pc \in {"blocked", "commit"}, NEW r \in clientScopes', r.client = edit[u].client
            PROVE r \in clientScopes
        <4>1. edit'[u].pc # "idle" BY <3>2
        <4>2. edit'[u] # Idle BY <4>1 DEF Idle
        <4>3. edit'[u] = edit[u] /\ u # t BY <1>11, <3>1, <4>2
        <4>4. edit[u].client # c BY <2>2, <3>2, <4>3
        <4> QED BY <1>2, <1>8, <3>2, <4>4
      <3>3. ids' \in Nat /\ ids <= ids' BY <1>3
      <3> QED BY <1>2, <1>3, <1>20, <3>1, <3>2, <3>3, HandlerKept
    <2> QED BY <2>1, <2>2
  <1> QED BY <1>15, <1>16, <1>17, <1>18, <1>19, <1>21 DEF OidcAdminInv

LEMMA RotateStep ==
    ASSUME OidcAdminAssumption, OidcAdminInv, NEW c \in Clients, RotateSecret(c)
    PROVE OidcAdminInv'
  <1> USE DEF OidcAdminInv
  <1> DEFINE columns == [clients[c].columns EXCEPT !.secret = told[c] + 1]
             row == [clients[c] EXCEPT !.columns = columns]
  <1>1. told[c] + 1 \in Secrets /\ told' = [told EXCEPT ![c] = told[c] + 1]
    BY DEF RotateSecret, OidcAdminTypeOK, Secrets, OidcAdminAssumption
  <1>2. /\ Live(clients, c) /\ clients' = [clients EXCEPT ![c] = row]
        /\ UNCHANGED <<scopes, clientScopes, mappings, ids, edited, edit>>
    BY DEF RotateSecret
  <1>3. clients[c] \in ClientRow /\ columns \in ClientColumns /\ columns.secret = told[c] + 1
    BY <1>1 DEF OidcAdminTypeOK, ClientRow, ClientColumns
  <1>4. row \in ClientRow /\ row.row = "live" /\ row.columns.secret = told[c] + 1
    <2> HIDE DEF columns
    <2> QED BY <1>2, <1>3 DEF ClientRow, Live
  <1> HIDE DEF columns, row
  <1>5. \A d \in Clients : /\ clients'[d] = IF d = c THEN row ELSE clients[d]
                           /\ told'[d] = IF d = c THEN told[c] + 1 ELSE told[d]
    BY <1>1, <1>2 DEF OidcAdminTypeOK
  <1>6. OidcAdminTypeOK' /\ LiveMappings'
    BY <1>1, <1>2, <1>4 DEF OidcAdminTypeOK, LiveMappings
  <1>7. ReferencesExist' /\ ScopesOfLastEdit'
    BY <1>2 DEF ReferencesExist, ScopeExists, ScopesOfLastEdit, RowsOf
  <1>8. SecretAsTold' BY <1>4, <1>5 DEF SecretAsTold, Live
  <1>9. RowsHaveClients'
    BY <1>2, <1>4, <1>5 DEF RowsHaveClients, OidcAdminTypeOK, ClientScopeRow
  <1> HIDE DEF OidcAdminInv
  <1>10. ASSUME NEW u \in Editors PROVE HandlerOK(edit[u])'
    <2>1. \A d \in Clients : Live(clients, d) => Live(clients', d) BY <1>4, <1>5 DEF Live
    <2>2. ids \in Nat BY DEF OidcAdminInv, OidcAdminTypeOK, Ids
    <2>3. /\ edit'[u] \in {edit[u], Idle} /\ ids' = ids
          /\ clientScopes' = clientScopes /\ mappings' = mappings
      BY <1>2
    <2> QED BY <2>1, <2>2, <2>3, HandlerKept
  <1> QED BY <1>6, <1>7, <1>8, <1>9, <1>10 DEF OidcAdminInv

LEMMA CommitActiveStep ==
    ASSUME OidcAdminAssumption, OidcAdminInv, NEW t \in Editors, CommitActive(t)
    PROVE OidcAdminInv'
  <1> USE DEF OidcAdminInv
  <1> DEFINE q == edit[t]  c == q.client  now == clients[c].columns
             columns == [active |-> Column(now.active, q.loaded.active, q.active),
                         secret |-> Column(now.secret, q.loaded.secret, q.loaded.secret)]
             row == [clients[c] EXCEPT !.columns = columns]
  <1>1. q \in Switch /\ c \in Clients
    BY Kinds DEF CommitActive, OidcAdminTypeOK, Switch
  <1>2. /\ clients' = [clients EXCEPT ![c] = row]
        /\ UNCHANGED <<scopes, clientScopes, mappings, ids, edited, told>>
    BY DEF CommitActive
  <1>3. clients[c] \in ClientRow /\ columns \in ClientColumns /\ columns.secret = now.secret
    BY <1>1 DEF OidcAdminTypeOK, Switch, ClientRow, ClientColumns, Column
  <1>4. row \in ClientRow /\ row.row = clients[c].row /\ row.columns.secret = now.secret
    <2> HIDE DEF columns
    <2> QED BY <1>3 DEF ClientRow
  <1>5. /\ edit' \in [Editors -> Edit]
        /\ \A u \in Editors : edit'[u] = IF u = t THEN Idle ELSE edit[u]
    BY Ended DEF CommitActive
  <1> HIDE DEF q, c, columns, row
  <1>6. \A d \in Clients : clients'[d] = IF d = c THEN row ELSE clients[d]
    BY <1>2 DEF OidcAdminTypeOK
  <1>7. OidcAdminTypeOK' /\ LiveMappings'
    BY <1>2, <1>4, <1>5 DEF OidcAdminTypeOK, LiveMappings
  <1>8. ReferencesExist' /\ ScopesOfLastEdit'
    BY <1>2 DEF ReferencesExist, ScopeExists, ScopesOfLastEdit, RowsOf
  <1>9. SecretAsTold' BY <1>1, <1>2, <1>4, <1>6 DEF SecretAsTold, Live, now
  <1>10. RowsHaveClients'
    BY <1>2, <1>4, <1>6 DEF RowsHaveClients, OidcAdminTypeOK, ClientScopeRow
  <1> HIDE DEF OidcAdminInv
  <1>11. ASSUME NEW u \in Editors PROVE HandlerOK(edit[u])'
    <2>1. \A d \in Clients : Live(clients, d) => Live(clients', d) BY <1>4, <1>6 DEF Live
    <2>2. ids \in Nat BY DEF OidcAdminInv, OidcAdminTypeOK, Ids
    <2>3. /\ edit'[u] \in {edit[u], Idle} /\ ids' = ids
          /\ clientScopes' = clientScopes /\ mappings' = mappings
      BY <1>2, <1>5
    <2> QED BY <2>1, <2>2, <2>3, HandlerKept
  <1> QED BY <1>7, <1>8, <1>9, <1>10, <1>11 DEF OidcAdminInv

-----------------------------------------------------------------------------
LEMMA OidcAdminInitially ==
    ASSUME OidcAdminAssumption, OidcAdminInit
    PROVE OidcAdminInv
  <1> USE DEF OidcAdminInit
  <1>1. 1 \in Ids /\ 0 \in Ids /\ 0 \in Secrets BY DEF Ids, Secrets, OidcAdminAssumption
  <1>2. /\ [row |-> "never", columns |-> [active |-> FALSE, secret |-> 0]] \in ClientRow
        /\ [row |-> "never", columns |-> None, by |-> 0] \in MappingRow
        /\ [names |-> {}, exact |-> TRUE] \in Edited
    BY <1>1 DEF ClientRow, ClientColumns, MappingRow, Row, Edited
  <1>3. scopes \in [Scopes -> Ids] BY <1>1
  <1>4. OidcAdminTypeOK BY <1>1, <1>2, <1>3, IdleIsFine DEF OidcAdminTypeOK
  <1>5. LiveMappings /\ ReferencesExist /\ SecretAsTold /\ RowsHaveClients
    BY DEF LiveMappings, ReferencesExist, SecretAsTold, RowsHaveClients, Live
  <1>6. ScopesOfLastEdit BY DEF ScopesOfLastEdit, RowsOf
  <1>7. \A t \in Editors : HandlerOK(edit[t]) BY IdleIsFine
  <1> QED BY <1>4, <1>5, <1>6, <1>7 DEF OidcAdminInv

LEMMA OidcAdminStep ==
    ASSUME OidcAdminAssumption, OidcAdminInv, [OidcAdminNext]_oidcVars
    PROVE OidcAdminInv'
  <1>1. CASE UNCHANGED oidcVars
    BY <1>1 DEF oidcVars, OidcAdminInv, OidcAdminTypeOK, LiveMappings, ReferencesExist, ScopeExists,
       ScopesOfLastEdit, RowsOf, SecretAsTold, RowsHaveClients, HandlerOK, DeletesScope,
       ReplacesScopes, Live
  <1>2. ASSUME NEW t \in Editors, Request(t) PROVE OidcAdminInv'
    BY <1>2, RequestStep
  <1>3. ASSUME NEW t \in Editors, Proceed(t) PROVE OidcAdminInv'
    BY <1>3, InsertScopeStep, CheckClientsStep, DropScopeStep, EndStep, InsertMappingStep,
       WriteMappingStep, InsertClientStep, ReplaceStep, UnblockStep, CommitClientStep,
       CommitActiveStep DEF Proceed
  <1>4. ASSUME NEW m \in Mappings, DeleteMapping(m) PROVE OidcAdminInv'
    BY <1>4, DeleteMappingStep
  <1>5. ASSUME NEW c \in Clients, RotateSecret(c) PROVE OidcAdminInv'
    BY <1>5, RotateStep
  <1> QED BY <1>1, <1>2, <1>3, <1>4, <1>5 DEF OidcAdminNext

\* The inductive invariant: lists of scopes, secrets and references are as the
\* properties say, and each handler in flight knows which rows it has found
\* and which are younger than its look.
THEOREM OidcAdminInvariance == OidcAdminSpec => []OidcAdminInv
  <1>1. OidcAdminInit => OidcAdminInv BY OidcAdminInitially, OidcAdminAssumption
  <1>2. OidcAdminInv /\ [OidcAdminNext]_oidcVars => OidcAdminInv'
    BY OidcAdminStep, OidcAdminAssumption
  <1> QED BY <1>1, <1>2, PTL DEF OidcAdminSpec

\* The tables of scopes, clients and claim mappings and the handlers in
\* flight keep their types.
THEOREM OidcAdminTypeCorrect == OidcAdminSpec => []OidcAdminTypeOK
  <1>1. OidcAdminInv => OidcAdminTypeOK BY DEF OidcAdminInv
  <1> QED BY <1>1, OidcAdminInvariance, PTL

\* Clients and mappings only refer to scopes that exist, for any number of
\* handlers between their check and their write.
THEOREM AdminReferencesExist == OidcAdminSpec => []ReferencesExist
  <1>1. OidcAdminInv => ReferencesExist BY DEF OidcAdminInv
  <1> QED BY <1>1, OidcAdminInvariance, PTL

\* The scopes of a client are those of the last list it was given.
THEOREM ScopesAreOfLastEdit == OidcAdminSpec => []ScopesOfLastEdit
  <1>1. OidcAdminInv => ScopesOfLastEdit BY DEF OidcAdminInv
  <1> QED BY <1>1, OidcAdminInvariance, PTL

\* A rotated secret is not undone by an edit that was loaded before.
THEOREM SecretIsAsTold == OidcAdminSpec => []SecretAsTold
  <1>1. OidcAdminInv => SecretAsTold BY DEF OidcAdminInv
  <1> QED BY <1>1, OidcAdminInvariance, PTL

-----------------------------------------------------------------------------
(* What a step may not do.                                                  *)

\* The steps that touch a client's row, or the row of a scope.
LEMMA OnlyThese ==
    ASSUME OidcAdminInv, [OidcAdminNext]_oidcVars
    PROVE /\ clients' # clients =>
                \/ \E t \in Editors : InsertClient(t) \/ CommitClient(t) \/ CommitActive(t)
                \/ \E c \in Clients : RotateSecret(c)
          /\ scopes' # scopes =>
                \E t \in Editors : InsertScope(t) \/ DropScope(t)
  <1>1. ASSUME NEW t \in Editors, Request(t)
        PROVE clients' = clients /\ scopes' = scopes
    BY <1>1 DEF Request, CreateScope, DeleteScope, CreateMapping, UpdateMapping, CreateClient,
       UpdateClient, SetClientActive
  <1>2. ASSUME NEW t \in Editors, Proceed(t)
        PROVE /\ clients' = clients \/ InsertClient(t) \/ CommitClient(t) \/ CommitActive(t)
              /\ scopes' = scopes \/ InsertScope(t) \/ DropScope(t)
    BY <1>2 DEF Proceed, InsertScope, CheckClients, DropScope, DropNothing, InsertMapping,
       WriteMapping, InsertClient, ReplaceScopes, Unblock, CommitClient, CommitActive, Abort
  <1>3. ASSUME NEW m \in Mappings, DeleteMapping(m) PROVE clients' = clients /\ scopes' = scopes
    BY <1>3 DEF DeleteMapping
  <1>4. ASSUME NEW c \in Clients, RotateSecret(c) PROVE scopes' = scopes
    BY <1>4 DEF RotateSecret
  <1>5. CASE UNCHANGED oidcVars BY <1>5 DEF oidcVars
  <1> QED BY <1>1, <1>2, <1>3, <1>4, <1>5 DEF OidcAdminNext

\* An UPDATE of the active column turns it on only for a handler that has
\* loaded the client as inactive.
LEMMA SwitchedOn ==
    ASSUME OidcAdminInv, NEW t \in Editors, CommitClient(t) \/ CommitActive(t), NEW c \in Clients,
           ~clients[c].columns.active, clients'[c].columns.active
    PROVE /\ edit[t].pc \in {"commit", "activate"} /\ edit[t].client = c
          /\ ~edit[t].loaded.active /\ edit[t].active
          /\ edit'[t] = Idle
  <1> DEFINE q == edit[t]  now == clients[q.client].columns
             columns == [active |-> Column(now.active, q.loaded.active, q.active),
                         secret |-> Column(now.secret, q.loaded.secret, q.loaded.secret)]
             row == [clients[q.client] EXCEPT !.columns = columns]
  <1>1. /\ q.pc \in {"commit", "activate"} /\ q.client \in Clients
        /\ q.loaded.active \in BOOLEAN /\ q.active \in BOOLEAN
    BY Kinds DEF OidcAdminInv, OidcAdminTypeOK, CommitClient, CommitActive, OldClient, Switch, ClientColumns
  <1>2. clients' = [clients EXCEPT ![q.client] = row] BY DEF CommitClient, CommitActive
  <1>3. edit'[t] = Idle
    BY DEF CommitClient, CommitActive, End, OidcAdminInv, OidcAdminTypeOK
  <1>4. clients \in [Clients -> ClientRow] /\ row.columns = columns
    BY <1>1 DEF OidcAdminInv, OidcAdminTypeOK, ClientRow
  <1>5. columns.active = Column(now.active, q.loaded.active, q.active) OBVIOUS
  <1> HIDE DEF q, columns, row
  <1>6. c = q.client /\ columns.active
    BY <1>2, <1>4
  <1>7. ~(q.active = q.loaded.active) /\ q.active
    BY <1>5, <1>6 DEF Column, now
  <1> QED BY <1>1, <1>3, <1>6, <1>7 DEF q

\* A client that is off is switched on only by a request for that which had
\* loaded it off, whatever other edits are in flight.
THEOREM AlwaysSwitchedOnKnowingly == OidcAdminSpec => SwitchedOnKnowingly
  <1>1. ASSUME OidcAdminInv, [OidcAdminNext]_oidcVars, NEW c \in Clients,
               Live(clients, c), ~clients[c].columns.active, clients'[c].columns.active
        PROVE \E t \in Editors :
                /\ edit[t].pc \in {"commit", "activate"} /\ edit[t].client = c
                /\ ~edit[t].loaded.active /\ edit[t].active
                /\ edit'[t] = Idle
    <2>1. CASE \E t \in Editors : CommitClient(t) \/ CommitActive(t)
      <3>1. PICK t \in Editors : CommitClient(t) \/ CommitActive(t) BY <2>1
      <3> QED BY <1>1, <3>1, SwitchedOn
    <2>2. CASE \E t \in Editors : InsertClient(t)
      <3>1. PICK t \in Editors : InsertClient(t) BY <2>2
      <3>2. clients[edit[t].client].row = "never" BY <3>1 DEF InsertClient
      <3>3. c # edit[t].client BY <1>1, <3>2 DEF Live
      <3>4. edit[t].client \in Clients /\ clients \in [Clients -> ClientRow]
        BY <1>1, <3>1, Kinds DEF InsertClient, OidcAdminInv, OidcAdminTypeOK, NewClient
      <3>5. clients'[c] = clients[c] BY <3>1, <3>3, <3>4 DEF InsertClient
      <3> QED BY <1>1, <3>5
    <2>3. CASE \E d \in Clients : RotateSecret(d)
      <3>1. PICK d \in Clients : RotateSecret(d) BY <2>3
      <3>2. clients[d] \in ClientRow /\ clients \in [Clients -> ClientRow]
        BY <1>1 DEF OidcAdminInv, OidcAdminTypeOK
      <3>3. clients' = [clients EXCEPT ![d].columns.secret = told[d] + 1]
        BY <3>1 DEF RotateSecret
      <3>4. clients'[c].columns.active = clients[c].columns.active
        BY <3>2, <3>3 DEF OidcAdminInv, OidcAdminTypeOK, ClientRow, ClientColumns
      <3> QED BY <1>1, <3>4
    <2>4. CASE clients' = clients BY <1>1, <2>4
    <2> QED BY <1>1, <2>1, <2>2, <2>3, <2>4, OnlyThese
  <1>2. OidcAdminInv /\ [OidcAdminNext]_oidcVars =>
            [\A c \in Clients :
                Live(clients, c) /\ ~clients[c].columns.active /\ clients'[c].columns.active =>
                    \E t \in Editors :
                        /\ edit[t].pc \in {"commit", "activate"} /\ edit[t].client = c
                        /\ ~edit[t].loaded.active /\ edit[t].active
                        /\ edit'[t] = Idle]_oidcVars
    BY <1>1
  <1> QED BY <1>2, OidcAdminInvariance, PTL DEF OidcAdminSpec, SwitchedOnKnowingly

\* A scope is deleted with nothing that referred to it when the handler looked.
THEOREM ScopeInUseAlwaysStays == OidcAdminSpec => ScopeInUseStays
  <1>1. ASSUME OidcAdminInv, [OidcAdminNext]_oidcVars, NEW s \in Scopes,
               ScopeExists(s), scopes'[s] = 0
        PROVE /\ s \notin SystemScopes
              /\ \E t \in Editors :
                    /\ edit[t].pc = "deleteScope" /\ edit[t].scope = s
                    /\ \A row \in clientScopes : row.scope = s => row.by > edit[t].since
                    /\ \A m \in Mappings : Live(mappings, m) /\ mappings[m].columns.scope = s =>
                            mappings[m].by > edit[t].since
    <2>1. PICK t \in Editors : InsertScope(t) \/ DropScope(t)
      BY <1>1, OnlyThese DEF ScopeExists
    <2>2. CASE InsertScope(t)
      <3>1. edit[t].scope \in Scopes /\ scopes \in [Scopes -> Ids] /\ ids \in Nat
        BY <1>1, <2>2, Kinds DEF InsertScope, OidcAdminInv, OidcAdminTypeOK, NewScope, Ids
      <3>2. scopes' = [scopes EXCEPT ![edit[t].scope] = ids + 1] /\ ids + 1 # 0
        BY <2>2, <3>1 DEF InsertScope
      <3> QED BY <1>1, <3>1, <3>2 DEF ScopeExists
    <2>3. CASE DropScope(t)
      <3>1. edit[t].pc = "deleteScope" /\ scopes' = [scopes EXCEPT ![edit[t].scope] = 0]
        BY <2>3 DEF DropScope
      <3>2. edit[t].scope = s
        BY <1>1, <3>1 DEF ScopeExists, OidcAdminInv, OidcAdminTypeOK
      <3>3. HandlerOK(edit[t]) BY <1>1 DEF OidcAdminInv
      <3> QED BY <3>1, <3>2, <3>3 DEF HandlerOK, DeletesScope
    <2> QED BY <2>1, <2>2, <2>3
  <1>2. OidcAdminInv /\ [OidcAdminNext]_oidcVars =>
            [\A s \in Scopes :
                ScopeExists(s) /\ scopes'[s] = 0 =>
                    /\ s \notin SystemScopes
                    /\ \E t \in Editors :
                        /\ edit[t].pc = "deleteScope" /\ edit[t].scope = s
                        /\ \A row \in clientScopes : row.scope = s => row.by > edit[t].since
                        /\ \A m \in Mappings : Live(mappings, m) /\ mappings[m].columns.scope = s =>
                                mappings[m].by > edit[t].since]_oidcVars
    BY <1>1
  <1> QED BY <1>2, OidcAdminInvariance, PTL DEF OidcAdminSpec, ScopeInUseStays
=============================================================================
