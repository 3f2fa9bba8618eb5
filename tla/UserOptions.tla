---------------------------- MODULE UserOptions ----------------------------
(***************************************************************************)
(* User options: values per user and key, each stored in one of two        *)
(* columns, in plain text or encrypted, as the attribute of the key says   *)
(* when it is written.  The attribute says again how to read it, and may   *)
(* have changed by then.  Handlers run in worker threads.                  *)
(***************************************************************************)
EXTENDS Tables

CONSTANTS
    Users,
    Attributes,   \* ids of user_option_attributes; their key is not unique
    Savers        \* worker threads

ASSUME OptionsAssumption == None \notin Users \cup Attributes

VARIABLES
    users,        \* table users: who is live or gone
    attributes,   \* table user_option_attributes
    options,      \* table user_option, unique in user and key
    saved,        \* history: the last update of each option
    save          \* the bulk updates in flight

optionsVars == <<users, attributes, options, saved, save>>

-----------------------------------------------------------------------------
Text == Texts \cup {None}

AttributeRow == [row : Row, key : Keys \cup {None}, encrypted : BOOLEAN]
\* cipher is the text that encrypted_value decrypts to; Empty stays empty.
OptionRow == [row : Row, value : Text, cipher : Text]
\* exact: no other update of the option was committed while this one, which
\* had loaded the row, was under way.
Saved == [text : Text, exact : BOOLEAN]

\* items holds None for the keys that the request does not name; loaded is
\* what the SELECT of each key in seen found, others the keys that another
\* handler has committed since.
Save == [pc : {"idle", "select", "commit"}, user : Users \cup {None}, items : [Keys -> Text],
         flags : [Keys -> BOOLEAN], loaded : [Keys -> OptionRow],
         seen : SUBSET Keys, others : SUBSET Keys]

NoOption == [row |-> "never", value |-> None, cipher |-> None]
NoSave == [pc |-> "idle", user |-> None, items |-> [k \in Keys |-> None],
           flags |-> [k \in Keys |-> FALSE], loaded |-> [k \in Keys |-> NoOption],
           seen |-> {}, others |-> {}]

OptionsTypeOK ==
    /\ users \in [Users -> Row]
    /\ attributes \in [Attributes -> AttributeRow]
    /\ options \in [Users -> [Keys -> OptionRow]]
    /\ saved \in [Users -> [Keys -> Saved]]
    /\ save \in [Savers -> Save]

-----------------------------------------------------------------------------
\* What attributes_map may say of a key: the rows come in no particular order,
\* and the last one of a key stays.
Flags(k) ==
    LET flags == {attributes[a].encrypted :
                    a \in {b \in Attributes : Live(attributes, b) /\ attributes[b].key = k}}
    IN IF flags = {} THEN {FALSE} ELSE flags

\* The text that a row yields under a flag, None if it yields none.
FinalValue(opt, flag) ==
    IF flag /\ opt.cipher \notin {None, Empty} THEN opt.cipher ELSE opt.value

\* What reading the option may yield now.
Readings(u, k) == {FinalValue(options[u][k], flag) : flag \in Flags(k)}

Named(q) == {k \in Keys : q.items[k] # None}

-----------------------------------------------------------------------------
(* PATCH /admin/user-options/{user_id}/options: bulk_update_user_options.   *)

\* All attributes are read first.  Nothing checks that the user exists.
ReadAttributes(t, u, items, flags) ==
    /\ save[t].pc = "idle"
    /\ \A k \in Keys : flags[k] \in Flags(k)
    /\ save' = [save EXCEPT ![t] = [NoSave EXCEPT !.pc = "select", !.user = u,
                                                  !.items = items, !.flags = flags]]
    /\ UNCHANGED <<users, attributes, options, saved>>

\* One SELECT for each option that the request names.
SelectOption(t, k) ==
    LET q == save[t]  seen == q.seen \cup {k} IN
    /\ q.pc = "select"
    /\ k \in Named(q) \ q.seen
    /\ save' = [save EXCEPT ![t] =
            [q EXCEPT !.pc = IF seen = Named(q) THEN "commit" ELSE "select",
                      !.loaded[k] = options[q.user][k], !.seen = seen]]
    /\ UNCHANGED <<users, attributes, options, saved>>

\* Mutant: the column that is not used any more keeps its value.
AssignedValueKept(q, k) == IF q.flags[k] THEN q.loaded[k].value ELSE q.items[k]
\* What is assigned to the column value.
AssignedValue(q, k) == IF q.flags[k] THEN None ELSE q.items[k]
\* What is assigned to the column encrypted_value.
AssignedCipher(q, k) == IF q.flags[k] THEN q.items[k] ELSE None

\* The row of key k after the UPDATE or INSERT.  Encrypting the same text
\* again gives another ciphertext, which is always written.
Written(q, k) ==
    LET now == options[q.user][k]  was == q.loaded[k] IN
    [row |-> "live",
     value |-> Column(now.value, was.value, AssignedValue(q, k)),
     cipher |-> IF AssignedCipher(q, k) \notin {None, Empty} THEN AssignedCipher(q, k)
                ELSE Column(now.cipher, was.cipher, AssignedCipher(q, k))]

\* No column differs from what was loaded: no UPDATE is sent.
Untouched(q, k) ==
    /\ Live(q.loaded, k)
    /\ AssignedValue(q, k) = q.loaded[k].value
    /\ AssignedCipher(q, k) = q.loaded[k].cipher /\ AssignedCipher(q, k) \in {None, Empty}

\* Mutant: the foreign key on users is missing.
CanWriteForAnyone(q, k) ==
    IF Live(q.loaded, k) THEN Live(options[q.user], k) ELSE ~Live(options[q.user], k)
\* An UPDATE finds its row, an INSERT passes the foreign key and the
\* constraint on (user_id, key).
CanWrite(q, k) ==
    IF Live(q.loaded, k) THEN Untouched(q, k) \/ Live(options[q.user], k)
    ELSE users[q.user] = "live" /\ ~Live(options[q.user], k)

SaveOptions(t) ==
    LET q == save[t]
        written == {k \in Named(q) : ~Untouched(q, k)}
    IN
    /\ q.pc = "commit"
    /\ \A k \in Named(q) : CanWrite(q, k)
    /\ options' = [options EXCEPT ![q.user] =
            [k \in Keys |-> IF k \in written THEN Written(q, k) ELSE @[k]]]
    /\ saved' = [saved EXCEPT ![q.user] =
            [k \in Keys |-> IF k \in Named(q)
                            THEN [text |-> q.items[k], exact |-> k \notin q.others] ELSE @[k]]]
    /\ save' = [s \in Savers |->
            IF s = t THEN NoSave
            ELSE IF save[s].user = q.user
            THEN [save[s] EXCEPT !.others = @ \cup (written \cap save[s].seen)] ELSE save[s]]
    /\ UNCHANGED <<users, attributes>>

\* The transaction is refused as a whole, or lost: a missing row, a
\* constraint, a deadlock of two updates, a lost connection, a restart.
SaveFails(t) ==
    /\ save[t].pc # "idle"
    /\ save' = [save EXCEPT ![t] = NoSave]
    /\ UNCHANGED <<users, attributes, options, saved>>

-----------------------------------------------------------------------------
(* Attributes, /admin/user-options/attributes, and users.                   *)

\* create_attribute does not ask whether the key has an attribute already.
CreateAttribute(a, k, flag) ==
    /\ attributes[a].row = "never"
    /\ attributes' = [attributes EXCEPT ![a] = [row |-> "live", key |-> k, encrypted |-> flag]]
    /\ UNCHANGED <<users, options, saved, save>>

\* update_attribute: the values stored so far stay as they are.
UpdateAttribute(a, k, flag) ==
    /\ Live(attributes, a)
    /\ attributes' = [attributes EXCEPT ![a] = [row |-> "live", key |-> k, encrypted |-> flag]]
    /\ UNCHANGED <<users, options, saved, save>>

DeleteAttribute(a) ==
    /\ Live(attributes, a)
    /\ attributes' = [attributes EXCEPT ![a].row = "gone"]
    /\ UNCHANGED <<users, options, saved, save>>

\* delete_user cascades to the options.
DeleteUser(u) ==
    /\ users[u] = "live"
    /\ users' = [users EXCEPT ![u] = "gone"]
    /\ options' = [options EXCEPT ![u] =
            [k \in Keys |-> IF @[k].row = "live" THEN [@[k] EXCEPT !.row = "gone"] ELSE @[k]]]
    /\ UNCHANGED <<attributes, saved, save>>

-----------------------------------------------------------------------------
OptionsInit ==
    /\ users = [u \in Users |-> "live"]
    /\ attributes = [a \in Attributes |-> [row |-> "never", key |-> None, encrypted |-> FALSE]]
    /\ options = [u \in Users |-> [k \in Keys |-> NoOption]]
    /\ saved = [u \in Users |-> [k \in Keys |-> [text |-> None, exact |-> FALSE]]]
    /\ save = [t \in Savers |-> NoSave]

\* The requests name at least one key.
OptionsNext ==
    \/ \E t \in Savers :
        \/ \E u \in Users, items \in [Keys -> Text], flags \in [Keys -> BOOLEAN] :
               items # NoSave.items /\ ReadAttributes(t, u, items, flags)
        \/ \E k \in Keys : SelectOption(t, k)
        \/ SaveOptions(t) \/ SaveFails(t)
    \/ \E a \in Attributes :
        \/ \E k \in Keys, flag \in BOOLEAN : CreateAttribute(a, k, flag) \/ UpdateAttribute(a, k, flag)
        \/ DeleteAttribute(a)
    \/ \E u \in Users : DeleteUser(u)

OptionsSpec == OptionsInit /\ [][OptionsNext]_optionsVars

-----------------------------------------------------------------------------
(* Properties.                                                              *)

\* No option outlives its user, whatever update was under way when the user
\* was deleted.
NoOrphanOptions ==
    \A u \in Users, k \in Keys : Live(options[u], k) => users[u] = "live"

\* However the attribute of its key has changed since, and however many
\* attributes the key has, an option never yields an older text: it yields
\* that of its last update or none, unless that update overlapped with another.
NoStaleReading ==
    \A u \in Users, k \in Keys :
        Live(options[u], k) /\ saved[u][k].exact => Readings(u, k) \subseteq {saved[u][k].text, None}

\* get_user_options: "fetches all values of the user and converts them to the
\* schema": every option that is stored can be read, so that the list of the
\* user's options can be answered.
EveryOptionReadsBack ==
    \A u \in Users, k \in Keys : Live(options[u], k) => None \notin Readings(u, k)
=============================================================================
