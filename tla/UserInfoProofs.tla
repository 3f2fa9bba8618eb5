---------------------------- MODULE UserInfoProofs ----------------------------
(***************************************************************************)
(* Proofs about UserOptions, and about UserInfo on top of them: what       *)
(* /userinfo answers while users and administrators write the tables that  *)
(* it reads, for any number of readers and writers.                        *)
(***************************************************************************)
EXTENDS UserInfo, OidcAdminProofs

(* User options: bulk updates of any number of users, keys and texts in any *)
(* number of worker threads.                                                *)

\* What a bulk update in flight knows.  A row that it has loaded, and that no
\* other update has been committed to since, has kept both of its columns.
SaverOK(t) ==
    LET q == save[t] IN
    /\ q.pc = "idle" => q.seen = {}
    /\ q.pc # "idle" => q.user \in Users
    /\ q.pc = "commit" => q.seen = Named(q)
    /\ \A k \in q.seen \ q.others :
        /\ q.loaded[k].value = options[q.user][k].value
        /\ q.loaded[k].cipher = options[q.user][k].cipher

\* After an update without overlap both columns hold its text or none.
ExactRow(u, k) ==
    Live(options[u], k) /\ saved[u][k].exact =>
        /\ options[u][k].value \in {saved[u][k].text, None}
        /\ options[u][k].cipher \in {saved[u][k].text, None, Empty}

OptionsInv ==
    /\ OptionsTypeOK
    /\ NoOrphanOptions
    /\ \A t \in Savers : SaverOK(t)
    /\ \A u \in Users, k \in Keys : ExactRow(u, k)

-----------------------------------------------------------------------------
\* A column after an UPDATE holds the old, or the assigned value.
LEMMA ColumnType ==
    ASSUME NEW S, NEW current \in S, NEW loaded \in S, NEW new \in S
    PROVE Column(current, loaded, new) \in S
  BY DEF Column

\* Handlers keep their type when one field is set.
LEMMA SaveFields ==
    ASSUME NEW q \in Save
    PROVE /\ \A o \in SUBSET Keys : [q EXCEPT !.others = o] \in Save
          /\ \A pc \in {"idle", "select", "commit"}, f \in [Keys -> OptionRow], s \in SUBSET Keys :
                [q EXCEPT !.pc = pc, !.loaded = f, !.seen = s] \in Save
  BY DEF Save

LEMMA RowTypes ==
    /\ NoOption \in OptionRow
    /\ NoSave \in Save
  <1>1. NoOption \in OptionRow BY DEF NoOption, OptionRow, Row, Text
  <1> QED BY <1>1 DEF NoSave, Save, Text

\* What an update writes to a row is a row.
LEMMA WrittenType ==
    ASSUME OptionsTypeOK, NEW q \in Save, q.user \in Users, NEW k \in Keys
    PROVE Written(q, k) \in OptionRow
  <1> DEFINE now == options[q.user][k]  was == q.loaded[k]
  <1>1. now \in OptionRow /\ was \in OptionRow BY DEF OptionsTypeOK, Save
  <1>2. AssignedValue(q, k) \in Text /\ AssignedCipher(q, k) \in Text
    BY DEF AssignedValue, AssignedCipher, Save, Text
  <1>3. now.value \in Text /\ was.value \in Text /\ now.cipher \in Text /\ was.cipher \in Text
    BY <1>1 DEF OptionRow
  <1>4. Column(now.value, was.value, AssignedValue(q, k)) \in Text
        /\ Column(now.cipher, was.cipher, AssignedCipher(q, k)) \in Text
    BY <1>2, <1>3 DEF Column
  <1> QED BY <1>2, <1>4 DEF Written, OptionRow, Row

-----------------------------------------------------------------------------
\* Type correctness is kept by every step.
LEMMA TypeStep ==
    ASSUME OptionsInv, [OptionsNext]_optionsVars
    PROVE OptionsTypeOK'
  <1> USE DEF OptionsInv
  <1>1. ASSUME NEW t \in Savers, NEW u \in Users, NEW items \in [Keys -> Text],
               NEW flags \in [Keys -> BOOLEAN], ReadAttributes(t, u, items, flags)
        PROVE OptionsTypeOK'
    <2>1. [NoSave EXCEPT !.pc = "select", !.user = u, !.items = items, !.flags = flags] \in Save
      BY RowTypes DEF Save
    <2> QED BY <1>1, <2>1 DEF ReadAttributes, OptionsTypeOK
  <1>2. ASSUME NEW t \in Savers, NEW k \in Keys, SelectOption(t, k)
        PROVE OptionsTypeOK'
    <2> DEFINE q == save[t]  seen == q.seen \cup {k}
               pc == IF seen = Named(q) THEN "commit" ELSE "select"
               f == [q.loaded EXCEPT ![k] = options[q.user][k]]
    <2>1. q \in Save /\ q.user \in Users
      BY <1>2 DEF OptionsTypeOK, SelectOption, SaverOK
    <2>2. f \in [Keys -> OptionRow] /\ seen \in SUBSET Keys /\ pc \in {"idle", "select", "commit"}
      BY <2>1 DEF OptionsTypeOK, Save
    <2>3. [q EXCEPT !.pc = pc, !.loaded = f, !.seen = seen] \in Save
      BY <2>1, <2>2, SaveFields
    <2>4. save' = [save EXCEPT ![t] = [q EXCEPT !.pc = pc, !.loaded = f, !.seen = seen]]
      BY <1>2 DEF SelectOption
    <2> HIDE DEF q, seen, pc, f
    <2> QED BY <1>2, <2>3, <2>4 DEF SelectOption, OptionsTypeOK
  <1>3. ASSUME NEW t \in Savers, SaveOptions(t)
        PROVE OptionsTypeOK'
    <2> DEFINE q == save[t]  written == {k \in Named(q) : ~Untouched(q, k)}
               rows == [k \in Keys |-> IF k \in written THEN Written(q, k) ELSE options[q.user][k]]
               texts == [k \in Keys |-> IF k \in Named(q)
                                        THEN [text |-> q.items[k], exact |-> k \notin q.others]
                                        ELSE saved[q.user][k]]
    <2>1. q \in Save /\ q.user \in Users
      BY <1>3 DEF OptionsTypeOK, SaveOptions, SaverOK
    <2>2. rows \in [Keys -> OptionRow]
      BY <2>1, WrittenType DEF OptionsTypeOK
    <2>3. texts \in [Keys -> Saved]
      BY <2>1 DEF OptionsTypeOK, Saved, Save
    <2>4. options' = [options EXCEPT ![q.user] = rows] /\ saved' = [saved EXCEPT ![q.user] = texts]
      BY <1>3 DEF SaveOptions
    <2>5. options' \in [Users -> [Keys -> OptionRow]] /\ saved' \in [Users -> [Keys -> Saved]]
      <3> HIDE DEF rows, texts, q
      <3> QED BY <2>1, <2>2, <2>3, <2>4 DEF OptionsTypeOK
    <2>6. save' \in [Savers -> Save]
      <3>1. ASSUME NEW s \in Savers
            PROVE [save[s] EXCEPT !.others = @ \cup (written \cap save[s].seen)] \in Save
        <4>1. save[s] \in Save /\ save[s].others \cup (written \cap save[s].seen) \in SUBSET Keys
          BY DEF OptionsTypeOK, Save
        <4> HIDE DEF written
        <4> QED BY <4>1, SaveFields
      <3>2. save' = [s \in Savers |->
                IF s = t THEN NoSave
                ELSE IF save[s].user = q.user
                THEN [save[s] EXCEPT !.others = @ \cup (written \cap save[s].seen)] ELSE save[s]]
        BY <1>3 DEF SaveOptions
      <3> HIDE DEF written, q
      <3> QED BY <3>1, <3>2, RowTypes DEF OptionsTypeOK
    <2> QED BY <1>3, <2>5, <2>6 DEF SaveOptions, OptionsTypeOK
  <1>4. ASSUME NEW t \in Savers, SaveFails(t)
        PROVE OptionsTypeOK'
    BY <1>4, RowTypes DEF SaveFails, OptionsTypeOK
  <1>5. ASSUME NEW a \in Attributes, NEW k \in Keys, NEW flag \in BOOLEAN,
               CreateAttribute(a, k, flag) \/ UpdateAttribute(a, k, flag)
        PROVE OptionsTypeOK'
    <2>1. [row |-> "live", key |-> k, encrypted |-> flag] \in AttributeRow BY DEF AttributeRow, Row
    <2> QED BY <1>5, <2>1 DEF CreateAttribute, UpdateAttribute, OptionsTypeOK
  <1>6. ASSUME NEW a \in Attributes, DeleteAttribute(a)
        PROVE OptionsTypeOK'
    <2>1. [attributes[a] EXCEPT !.row = "gone"] \in AttributeRow BY DEF AttributeRow, Row, OptionsTypeOK
    <2> QED BY <1>6, <2>1 DEF DeleteAttribute, OptionsTypeOK
  <1>7. ASSUME NEW u \in Users, DeleteUser(u)
        PROVE OptionsTypeOK'
    <2>1. \A k \in Keys : [options[u][k] EXCEPT !.row = "gone"] \in OptionRow
      BY DEF OptionRow, Row, OptionsTypeOK
    <2> DEFINE rows == [k \in Keys |-> IF options[u][k].row = "live"
                                       THEN [options[u][k] EXCEPT !.row = "gone"] ELSE options[u][k]]
    <2>2. rows \in [Keys -> OptionRow] BY <2>1 DEF OptionsTypeOK
    <2>3. options' = [options EXCEPT ![u] = rows] BY <1>7 DEF DeleteUser
    <2> HIDE DEF rows
    <2> QED BY <1>7, <2>2, <2>3 DEF DeleteUser, OptionsTypeOK, Row
  <1>8. CASE UNCHANGED optionsVars
    BY <1>8 DEF optionsVars, OptionsTypeOK
  <1> QED BY <1>1, <1>2, <1>3, <1>4, <1>5, <1>6, <1>7, <1>8 DEF OptionsNext

-----------------------------------------------------------------------------
\* The tables after SaveOptions.
LEMMA SaveEffect ==
    ASSUME OptionsInv, NEW t \in Savers, SaveOptions(t)
    PROVE LET q == save[t]  written == {k \in Named(q) : ~Untouched(q, k)} IN
          /\ q \in Save /\ q.user \in Users /\ q.seen = Named(q)
          /\ \A k \in Named(q) : CanWrite(q, k)
          /\ \A u \in Users, k \in Keys :
                options'[u][k] = IF u = q.user /\ k \in written THEN Written(q, k) ELSE options[u][k]
          /\ \A u \in Users, k \in Keys :
                saved'[u][k] = IF u = q.user /\ k \in Named(q)
                               THEN [text |-> q.items[k], exact |-> k \notin q.others] ELSE saved[u][k]
          /\ \A s \in Savers :
                save'[s] = IF s = t THEN NoSave
                           ELSE IF save[s].user = q.user
                           THEN [save[s] EXCEPT !.others = @ \cup (written \cap save[s].seen)] ELSE save[s]
  <1> USE DEF OptionsInv
  <1> DEFINE q == save[t]  written == {k \in Named(q) : ~Untouched(q, k)}
             rows == [k \in Keys |-> IF k \in written THEN Written(q, k) ELSE options[q.user][k]]
             texts == [k \in Keys |-> IF k \in Named(q)
                                      THEN [text |-> q.items[k], exact |-> k \notin q.others]
                                      ELSE saved[q.user][k]]
  <1>1. q \in Save /\ q.user \in Users /\ q.seen = Named(q)
    BY DEF OptionsTypeOK, SaveOptions, SaverOK
  <1>2. /\ options' = [options EXCEPT ![q.user] = rows]
        /\ saved' = [saved EXCEPT ![q.user] = texts]
        /\ \A k \in Named(q) : CanWrite(q, k)
    BY DEF SaveOptions
  <1>3. save' = [s \in Savers |->
            IF s = t THEN NoSave
            ELSE IF save[s].user = q.user
            THEN [save[s] EXCEPT !.others = @ \cup (written \cap save[s].seen)] ELSE save[s]]
    BY DEF SaveOptions
  <1>4. \A k \in Keys : rows[k] = IF k \in written THEN Written(q, k) ELSE options[q.user][k]
    OBVIOUS
  <1>5. \A k \in Keys : texts[k] = IF k \in Named(q)
                THEN [text |-> q.items[k], exact |-> k \notin q.others] ELSE saved[q.user][k]
    OBVIOUS
  <1>6. \A u \in Users : options'[u] = IF u = q.user THEN rows ELSE options[u]
    <2> HIDE DEF rows, q
    <2> QED BY <1>2 DEF OptionsTypeOK
  <1>7. \A u \in Users : saved'[u] = IF u = q.user THEN texts ELSE saved[u]
    <2> HIDE DEF texts, q
    <2> QED BY <1>2 DEF OptionsTypeOK
  <1> HIDE DEF rows, texts, written, q
  <1>8. \A s \in Savers :
            save'[s] = IF s = t THEN NoSave
                       ELSE IF save[s].user = q.user
                       THEN [save[s] EXCEPT !.others = @ \cup (written \cap save[s].seen)] ELSE save[s]
    BY <1>3
  <1> QED BY <1>1, <1>2, <1>4, <1>5, <1>6, <1>7, <1>8 DEF q, written

\* The tables after DeleteUser.
LEMMA DeleteEffect ==
    ASSUME OptionsInv, NEW v \in Users, DeleteUser(v)
    PROVE /\ \A u \in Users : users'[u] = IF u = v THEN "gone" ELSE users[u]
          /\ \A u \in Users, k \in Keys :
                /\ options'[u][k].value = options[u][k].value
                /\ options'[u][k].cipher = options[u][k].cipher
                /\ Live(options'[u], k) => u # v /\ Live(options[u], k)
          /\ saved' = saved /\ save' = save
  <1> DEFINE rows == [k \in Keys |-> IF options[v][k].row = "live"
                                     THEN [options[v][k] EXCEPT !.row = "gone"] ELSE options[v][k]]
  <1>1. users' = [users EXCEPT ![v] = "gone"] /\ options' = [options EXCEPT ![v] = rows]
        /\ saved' = saved /\ save' = save
    BY DEF DeleteUser
  <1>2. \A k \in Keys : /\ rows[k].value = options[v][k].value
                        /\ rows[k].cipher = options[v][k].cipher
                        /\ rows[k].row # "live"
    <2>1. \A k \in Keys : options[v][k] \in OptionRow BY DEF OptionsInv, OptionsTypeOK
    <2> QED BY <2>1 DEF OptionRow
  <1> HIDE DEF rows
  <1>3. \A u \in Users : options'[u] = IF u = v THEN rows ELSE options[u]
    BY <1>1 DEF OptionsInv, OptionsTypeOK
  <1>4. \A u \in Users : users'[u] = IF u = v THEN "gone" ELSE users[u]
    BY <1>1 DEF OptionsInv, OptionsTypeOK
  <1>5. ASSUME NEW u \in Users, NEW k \in Keys
        PROVE /\ options'[u][k].value = options[u][k].value
              /\ options'[u][k].cipher = options[u][k].cipher
              /\ Live(options'[u], k) => u # v /\ Live(options[u], k)
    <2>1. CASE u = v BY <1>2, <1>3, <2>1 DEF Live
    <2>2. CASE u # v BY <1>3, <2>2
    <2> QED BY <2>1, <2>2
  <1> QED BY <1>1, <1>4, <1>5

\* What neither users nor options change keeps the rows as they are.
Quiet == users' = users /\ options' = options /\ saved' = saved

LEMMA QuietSteps ==
    ASSUME [OptionsNext]_optionsVars
    PROVE \/ Quiet
          \/ \E t \in Savers : SaveOptions(t)
          \/ \E u \in Users : DeleteUser(u)
  BY DEF OptionsNext, optionsVars, Quiet, ReadAttributes, SelectOption, SaveFails, CreateAttribute,
         UpdateAttribute, DeleteAttribute

\* No step leaves an option behind without its user.
LEMMA OrphanStep ==
    ASSUME OptionsInv, [OptionsNext]_optionsVars
    PROVE NoOrphanOptions'
  <1> SUFFICES ASSUME NEW u \in Users, NEW k \in Keys, Live(options'[u], k)
               PROVE users'[u] = "live"
    BY DEF NoOrphanOptions
  <1>0. Live(options[u], k) => users[u] = "live" BY DEF OptionsInv, NoOrphanOptions
  <1>1. CASE Quiet BY <1>0, <1>1 DEF Quiet
  <1>2. ASSUME NEW t \in Savers, SaveOptions(t) PROVE users'[u] = "live"
    <2> DEFINE q == save[t]
    <2>1. users' = users BY <1>2 DEF SaveOptions
    <2>2. CASE options'[u][k] = options[u][k] BY <1>0, <2>1, <2>2 DEF Live
    <2>3. CASE options'[u][k] # options[u][k]
      <3>1. u = q.user /\ k \in Named(q) /\ ~Untouched(q, k) /\ CanWrite(q, k)
        BY <1>2, <2>3, SaveEffect
      <3>2. Live(options[u], k) \/ users[u] = "live" BY <3>1 DEF CanWrite
      <3> QED BY <1>0, <2>1, <3>2
    <2> QED BY <2>2, <2>3
  <1>3. ASSUME NEW v \in Users, DeleteUser(v) PROVE users'[u] = "live"
    <2>1. u # v /\ Live(options[u], k) /\ users'[u] = users[u] BY <1>3, DeleteEffect
    <2> QED BY <1>0, <2>1
  <1> QED BY <1>1, <1>2, <1>3, QuietSteps

\* What a bulk update knows stays true, whatever another handler does.
LEMMA HandlerStep ==
    ASSUME OptionsInv, [OptionsNext]_optionsVars
    PROVE (\A t \in Savers : SaverOK(t))'
  <1> SUFFICES ASSUME NEW s \in Savers PROVE SaverOK(s)' OBVIOUS
  <1>0. SaverOK(s) /\ save[s] \in Save /\ save \in [Savers -> Save] BY DEF OptionsInv, OptionsTypeOK
  <1>1. CASE save'[s] = save[s] /\ options' = options
    BY <1>0, <1>1 DEF SaverOK, Named
  <1>2. CASE save'[s] = NoSave
    BY <1>2 DEF SaverOK, NoSave, Named
  <1>3. ASSUME NEW t \in Savers, NEW u \in Users, NEW items \in [Keys -> Text],
               NEW flags \in [Keys -> BOOLEAN], ReadAttributes(t, u, items, flags)
        PROVE SaverOK(s)'
    <2>1. CASE s = t
      <3> DEFINE new == [NoSave EXCEPT !.pc = "select", !.user = u, !.items = items, !.flags = flags]
      <3>1. save'[s] = new BY <1>0, <1>3, <2>1 DEF ReadAttributes
      <3>2. new.pc = "select" /\ new.user = u /\ new.seen = {} /\ new.others = {}
        BY DEF NoSave
      <3> HIDE DEF new
      <3> QED BY <3>1, <3>2 DEF SaverOK
    <2>2. CASE s # t BY <1>0, <1>1, <1>3, <2>2 DEF ReadAttributes
    <2> QED BY <2>1, <2>2
  <1>4. ASSUME NEW t \in Savers, NEW k \in Keys, SelectOption(t, k)
        PROVE SaverOK(s)'
    <2>1. CASE s = t
      <3> DEFINE q == save[s]  seen == q.seen \cup {k}
                 pc == IF seen = Named(q) THEN "commit" ELSE "select"
                 f == [q.loaded EXCEPT ![k] = options[q.user][k]]
                 new == [q EXCEPT !.pc = pc, !.loaded = f, !.seen = seen]
      <3>1. save'[s] = new /\ options' = options /\ q.pc = "select" BY <1>0, <1>4, <2>1 DEF SelectOption
      <3>2. /\ new.pc = pc /\ new.user = q.user /\ new.items = q.items
            /\ new.loaded = f /\ new.seen = seen /\ new.others = q.others
        <4> HIDE DEF pc, f, seen
        <4> QED BY <1>0 DEF Save
      <3>3. \A x \in Keys : f[x] = IF x = k THEN options[q.user][k] ELSE q.loaded[x]
        BY <1>0 DEF Save
      <3>4. q.user \in Users /\ seen \subseteq Keys BY <1>0, <3>1 DEF SaverOK, Save
      <3>5. pc = "commit" => seen = Named(q) OBVIOUS
      <3>6. pc # "idle" OBVIOUS
      <3>7. ASSUME NEW x \in seen \ q.others
            PROVE f[x].value = options[q.user][x].value /\ f[x].cipher = options[q.user][x].cipher
        <4>1. CASE x = k BY <3>3, <4>1
        <4>2. CASE x # k
          <5>1. x \in q.seen \ q.others /\ x \in Keys BY <3>4, <4>2
          <5> QED BY <1>0, <3>3, <4>2, <5>1 DEF SaverOK
        <4> QED BY <4>1, <4>2
      <3>8. Named(new) = Named(q) BY <3>2 DEF Named
      <3> HIDE DEF q, seen, pc, f, new
      <3> QED BY <3>1, <3>2, <3>4, <3>5, <3>6, <3>7, <3>8 DEF SaverOK
    <2>2. CASE s # t BY <1>0, <1>1, <1>4, <2>2 DEF SelectOption
    <2> QED BY <2>1, <2>2
  <1>5. ASSUME NEW t \in Savers, SaveOptions(t)
        PROVE SaverOK(s)'
    <2> DEFINE p == save[t]  written == {k \in Named(p) : ~Untouched(p, k)}  q == save[s]
               others == q.others \cup (written \cap q.seen)
               new == [q EXCEPT !.others = others]
    <2>1. /\ p.user \in Users
          /\ \A u \in Users, k \in Keys : u # p.user \/ k \notin written => options'[u][k] = options[u][k]
          /\ save'[s] = IF s = t THEN NoSave ELSE IF q.user = p.user THEN new ELSE q
      BY <1>5, SaveEffect
    <2>2. CASE s = t BY <1>2, <2>1, <2>2
    <2>3. CASE s # t /\ q.user # p.user
      <3>1. save'[s] = q BY <2>1, <2>3
      <3>2. \A k \in q.seen \ q.others : q.user \in Users /\ k \in Keys
        BY <1>0 DEF SaverOK, Save
      <3>3. \A k \in q.seen \ q.others : options'[q.user][k] = options[q.user][k]
        BY <2>1, <2>3, <3>2
      <3> QED BY <1>0, <3>1, <3>3 DEF SaverOK, Named
    <2>4. CASE s # t /\ q.user = p.user
      <3>1. save'[s] = new BY <2>1, <2>4
      <3>2. /\ new.pc = q.pc /\ new.user = q.user /\ new.items = q.items
            /\ new.loaded = q.loaded /\ new.seen = q.seen /\ new.others = others
        <4> HIDE DEF others
        <4> QED BY <1>0 DEF Save
      <3>3. ASSUME NEW k \in q.seen \ others
            PROVE options'[q.user][k] = options[q.user][k] /\ k \in q.seen \ q.others
        <4>1. k \notin written /\ k \in Keys BY <1>0 DEF Save
        <4> QED BY <2>1, <2>4, <4>1
      <3>4. Named(new) = Named(q) BY <3>2 DEF Named
      <3> HIDE DEF others, new, written, p
      <3> QED BY <1>0, <3>1, <3>2, <3>3, <3>4 DEF SaverOK
    <2> QED BY <2>2, <2>3, <2>4
  <1>6. ASSUME NEW t \in Savers, SaveFails(t)
        PROVE SaverOK(s)'
    BY <1>0, <1>1, <1>2, <1>6 DEF SaveFails
  <1>7. ASSUME NEW u \in Users, DeleteUser(u)
        PROVE SaverOK(s)'
    <2>1. \A k \in save[s].seen : save[s].user \in Users /\ k \in Keys
      BY <1>0 DEF SaverOK, Save
    <2>2. /\ save' = save
          /\ \A k \in save[s].seen : /\ options'[save[s].user][k].value = options[save[s].user][k].value
                                     /\ options'[save[s].user][k].cipher = options[save[s].user][k].cipher
      BY <1>7, <2>1, DeleteEffect
    <2> QED BY <1>0, <2>2 DEF SaverOK, Named
  <1>8. ASSUME \/ \E a \in Attributes : \/ \E k \in Keys, flag \in BOOLEAN :
                                              CreateAttribute(a, k, flag) \/ UpdateAttribute(a, k, flag)
                                        \/ DeleteAttribute(a)
               \/ UNCHANGED optionsVars
        PROVE SaverOK(s)'
    BY <1>1, <1>8 DEF CreateAttribute, UpdateAttribute, DeleteAttribute, optionsVars
  <1> QED BY <1>3, <1>4, <1>5, <1>6, <1>7, <1>8 DEF OptionsNext

\* An update that did not overlap leaves nothing of older texts in the row.
LEMMA ExactStep ==
    ASSUME OptionsInv, [OptionsNext]_optionsVars
    PROVE (\A u \in Users, k \in Keys : ExactRow(u, k))'
  <1> SUFFICES ASSUME NEW u \in Users, NEW k \in Keys PROVE ExactRow(u, k)' OBVIOUS
  <1>0. ExactRow(u, k) BY DEF OptionsInv
  <1>1. CASE Quiet BY <1>0, <1>1 DEF Quiet, ExactRow
  <1>2. ASSUME NEW t \in Savers, SaveOptions(t) PROVE ExactRow(u, k)'
    <2> DEFINE q == save[t]  written == {x \in Named(q) : ~Untouched(q, x)}
               now == options[u][k]  was == q.loaded[k]
    <2>1. /\ q \in Save /\ q.seen = Named(q)
          /\ options'[u][k] = IF u = q.user /\ k \in written THEN Written(q, k) ELSE now
          /\ saved'[u][k] = IF u = q.user /\ k \in Named(q)
                            THEN [text |-> q.items[k], exact |-> k \notin q.others] ELSE saved[u][k]
      BY <1>2, SaveEffect
    <2>2. CASE ~(u = q.user /\ k \in Named(q))
      BY <1>0, <2>1, <2>2 DEF ExactRow, Live
    <2>3. CASE u = q.user /\ k \in Named(q) /\ k \in q.others
      <3>1. saved'[u][k] = [text |-> q.items[k], exact |-> FALSE]
        <4>1. (k \notin q.others) = FALSE BY <2>3
        <4>2. saved'[u][k] = [text |-> q.items[k], exact |-> k \notin q.others] BY <2>1, <2>3
        <4> QED BY <4>1, <4>2
      <3>2. ~saved'[u][k].exact BY <3>1
      <3> QED BY <3>2 DEF ExactRow
    <2>4. CASE u = q.user /\ k \in Named(q) /\ k \notin q.others
      <3>1. was.value = now.value /\ was.cipher = now.cipher
        BY <2>1, <2>4 DEF OptionsInv, SaverOK
      <3>2. saved'[u][k].text = q.items[k] BY <2>1, <2>4
      <3>3. AssignedValue(q, k) \in {q.items[k], None} /\ AssignedCipher(q, k) \in {q.items[k], None}
        BY DEF AssignedValue, AssignedCipher
      <3>4. CASE Untouched(q, k)
        BY <2>1, <3>1, <3>2, <3>3, <3>4 DEF Untouched, ExactRow
      <3>5. CASE ~Untouched(q, k)
        <4>1. options'[u][k] = Written(q, k) BY <2>1, <2>4, <3>5
        <4>2. Written(q, k).value = Column(now.value, was.value, AssignedValue(q, k))
          BY <2>4 DEF Written
        <4>3. Written(q, k).cipher = IF AssignedCipher(q, k) \notin {None, Empty} THEN AssignedCipher(q, k)
                                     ELSE Column(now.cipher, was.cipher, AssignedCipher(q, k))
          BY <2>4 DEF Written
        <4>4. /\ options'[u][k].value \in {saved'[u][k].text, None}
              /\ options'[u][k].cipher \in {saved'[u][k].text, None, Empty}
          BY <3>1, <3>2, <3>3, <4>1, <4>2, <4>3 DEF Column
        <4> QED BY <4>4 DEF ExactRow
      <3> QED BY <3>4, <3>5
    <2> QED BY <2>2, <2>3, <2>4
  <1>3. ASSUME NEW v \in Users, DeleteUser(v) PROVE ExactRow(u, k)'
    BY <1>0, <1>3, DeleteEffect DEF ExactRow
  <1> QED BY <1>1, <1>2, <1>3, QuietSteps

-----------------------------------------------------------------------------
LEMMA OptionsInitially ==
    ASSUME OptionsInit
    PROVE OptionsInv
  <1>1. OptionsTypeOK
    <2>1. [text |-> None, exact |-> FALSE] \in Saved BY DEF Saved, Text
    <2>2. [row |-> "never", key |-> None, encrypted |-> FALSE] \in AttributeRow
      BY DEF AttributeRow, Row
    <2> QED BY <2>1, <2>2, RowTypes DEF OptionsInit, OptionsTypeOK, Row
  <1>2. NoOrphanOptions /\ \A u \in Users, k \in Keys : ExactRow(u, k)
    BY DEF OptionsInit, NoOrphanOptions, ExactRow, Live, NoOption
  <1>3. \A t \in Savers : SaverOK(t)
    BY DEF OptionsInit, SaverOK, NoSave
  <1> QED BY <1>1, <1>2, <1>3 DEF OptionsInv

\* The inductive invariant of UserOptions: what a bulk update has loaded stays
\* as it is until another is committed to the same option, and the columns of
\* an option updated without overlap hold its last text or nothing.
THEOREM OptionsInvariance == OptionsSpec => []OptionsInv
  <1>1. OptionsInit => OptionsInv BY OptionsInitially
  <1>2. OptionsInv /\ [OptionsNext]_optionsVars => OptionsInv'
    BY TypeStep, OrphanStep, HandlerStep, ExactStep DEF OptionsInv
  <1> QED BY <1>1, <1>2, PTL DEF OptionsSpec

\* Attributes, options and bulk updates keep their types.
THEOREM OptionsTypeCorrect == OptionsSpec => []OptionsTypeOK
  <1>1. OptionsInv => OptionsTypeOK BY DEF OptionsInv
  <1> QED BY <1>1, OptionsInvariance, PTL

\* No option outlives its user, whichever bulk updates overlap with delete_user.
THEOREM NoOptionIsOrphaned == OptionsSpec => []NoOrphanOptions
  <1>1. OptionsInv => NoOrphanOptions BY DEF OptionsInv
  <1> QED BY <1>1, OptionsInvariance, PTL

\* An option yields the text of its last update or none, however its
\* attributes have changed.
THEOREM NoReadingIsStale == OptionsSpec => []NoStaleReading
  <1>1. OptionsInv => NoStaleReading
    <2> SUFFICES ASSUME OptionsInv, NEW u \in Users, NEW k \in Keys,
                        Live(options[u], k), saved[u][k].exact, NEW r \in Readings(u, k)
                 PROVE r \in {saved[u][k].text, None}
      BY DEF NoStaleReading
    <2>1. PICK flag \in Flags(k) : r = FinalValue(options[u][k], flag) BY DEF Readings
    <2>2. /\ options[u][k].value \in {saved[u][k].text, None}
          /\ options[u][k].cipher \in {saved[u][k].text, None, Empty}
      BY DEF OptionsInv, ExactRow
    <2>3. CASE flag /\ options[u][k].cipher \notin {None, Empty}
      BY <2>1, <2>2, <2>3 DEF FinalValue
    <2>4. CASE ~(flag /\ options[u][k].cipher \notin {None, Empty})
      BY <2>1, <2>2, <2>4 DEF FinalValue
    <2> QED BY <2>3, <2>4
  <1> QED BY <1>1, OptionsInvariance, PTL

-----------------------------------------------------------------------------
(* UserInfo.                                                                *)

\* The texts that option k of user u may yield, under either flag, are kept.
TextsKept(u, k) ==
    LET opt == options[u][k] IN
    /\ opt.value # None => [user |-> u, key |-> k, text |-> opt.value] \in kept
    /\ opt.cipher \notin {None, Empty} => [user |-> u, key |-> k, text |-> opt.cipher] \in kept

\* The mappings that can be read are known, and so are the saved texts.
HistoryOK ==
    /\ \A m \in Mappings : Live(mappings, m) => mappings[m].columns \in mapped
    /\ \A u \in Users, k \in Keys :
            /\ TextsKept(u, k)
            /\ saved[u][k].text # None =>
                    [user |-> u, key |-> k, text |-> saved[u][k].text] \in kept

\* What a handler has read so far belongs to the scopes of its token.
ReadsOf(q) ==
    /\ q.pc \notin {"idle", "answered"} => q.user \in Users
    /\ q.pc = "scopes" => q.claims = NoClaims
    /\ q.pc \in {"mappings", "attributes", "options"} => q.valid \subseteq q.wanted
    /\ q.pc \in {"attributes", "options"} =>
            \A row \in q.rows : row \in mapped /\ row.scope \in q.wanted

Traceable(q) ==
    \A n \in Texts :
        q.claims[n] # None =>
            \E row \in mapped :
                /\ row.claim = n /\ row.scope \in q.wanted
                /\ \/ row.source = "static" /\ q.claims[n] \in {row.static, Empty}
                   \/ /\ row.source = "user_attribute"
                      /\ [user |-> q.user, key |-> row.key, text |-> q.claims[n]] \in kept

UserInfoInv ==
    /\ OidcAdminInv /\ OptionsInv
    /\ InfoTypeOK
    /\ HistoryOK
    /\ \A r \in Readers : ReadsOf(info[r]) /\ (info[r].pc = "answered" => Traceable(info[r]))

userInfoVars == <<oidcVars, optionsVars, infoVars>>

-----------------------------------------------------------------------------
\* Seen from either set of tables, a step is one of its own, or none.
LEMMA StepsOfParts ==
    ASSUME [UserInfoNext]_userInfoVars
    PROVE [OidcAdminNext]_oidcVars /\ [OptionsNext]_optionsVars
  <1>1. CASE UNCHANGED userInfoVars BY <1>1 DEF userInfoVars
  <1>2. CASE UserInfoNext BY <1>2 DEF UserInfoNext
  <1> QED BY <1>1, <1>2

LEMMA TablesStep ==
    ASSUME OidcAdminAssumption, OidcAdminInv, OptionsInv, [UserInfoNext]_userInfoVars
    PROVE OidcAdminInv' /\ OptionsInv'
  <1>1. OidcAdminInv' BY StepsOfParts, OidcAdminStep
  <1>2. OptionsInv' BY StepsOfParts, TypeStep, OrphanStep, HandlerStep, ExactStep DEF OptionsInv
  <1> QED BY <1>1, <1>2

\* History only grows, and after a step it knows what the tables hold.
LEMMA Remembered ==
    ASSUME UserInfoInv, [UserInfoNext]_userInfoVars
    PROVE /\ mapped \subseteq mapped' /\ kept \subseteq kept'
          /\ \A m \in Mappings : Live(mappings', m) => mappings'[m].columns \in mapped'
          /\ \A u \in Users, k \in Keys :
                saved'[u][k].text # None =>
                    [user |-> u, key |-> k, text |-> saved'[u][k].text] \in kept'
  <1>1. CASE UNCHANGED userInfoVars
    <2>1. /\ mapped' = mapped /\ kept' = kept /\ mappings' = mappings /\ saved' = saved
      BY <1>1 DEF userInfoVars, oidcVars, optionsVars, infoVars
    <2> QED BY <2>1 DEF UserInfoInv, HistoryOK, Live
  <1>2. CASE UserInfoNext
    <2>1. /\ mapped' = mapped \cup {mappings'[m].columns : m \in {n \in Mappings : mappings'[n].row = "live"}}
          /\ kept' = kept \cup
                {x \in {[user |-> u, key |-> k, text |-> saved'[u][k].text] : u \in Users, k \in Keys} :
                    x.text # None}
      BY <1>2 DEF UserInfoNext, Remember
    <2>2. ASSUME NEW u \in Users, NEW k \in Keys, saved'[u][k].text # None
          PROVE [user |-> u, key |-> k, text |-> saved'[u][k].text] \in kept'
      <3> DEFINE x == [user |-> u, key |-> k, text |-> saved'[u][k].text]
      <3>1. x \in {[user |-> v, key |-> l, text |-> saved'[v][l].text] : v \in Users, l \in Keys}
        OBVIOUS
      <3>2. x.text # None BY <2>2
      <3> HIDE DEF x
      <3>3. x \in kept' BY <2>1, <3>1, <3>2
      <3> QED BY <3>3 DEF x
    <2>3. \A m \in Mappings : Live(mappings', m) => mappings'[m].columns \in mapped'
      <3>1. mapped' = mapped \cup {mappings'[m].columns : m \in {n \in Mappings : mappings'[n].row = "live"}}
        BY <2>1
      <3> QED BY <3>1 DEF Live
    <2>4. mapped \subseteq mapped' /\ kept \subseteq kept' BY <2>1
    <2> QED BY <2>2, <2>3, <2>4
  <1> QED BY <1>1, <1>2

\* What history holds has the types of the tables.
LEMMA HistoryType ==
    ASSUME UserInfoInv, OidcAdminInv', OptionsInv', [UserInfoNext]_userInfoVars
    PROVE mapped' \subseteq MappingColumns /\ kept' \subseteq Kept
  <1>1. CASE UNCHANGED userInfoVars
    BY <1>1 DEF userInfoVars, infoVars, UserInfoInv, InfoTypeOK
  <1>2. CASE UserInfoNext
    <2>1. ASSUME NEW x \in mapped' PROVE x \in MappingColumns
      <3>1. x \in mapped \/ \E m \in Mappings : Live(mappings', m) /\ x = mappings'[m].columns
        BY <1>2, <2>1 DEF UserInfoNext, Remember, Live
      <3> QED BY <3>1 DEF OidcAdminInv, LiveMappings, UserInfoInv, InfoTypeOK
    <2>2. ASSUME NEW x \in kept' PROVE x \in Kept
      <3>1. x \in kept \/ \E u \in Users, k \in Keys :
                saved'[u][k].text # None /\ x = [user |-> u, key |-> k, text |-> saved'[u][k].text]
        BY <1>2, <2>2 DEF UserInfoNext, Remember
      <3>2. \A u \in Users, k \in Keys : saved'[u][k].text \in Text
        BY DEF OptionsInv, OptionsTypeOK, Saved
      <3> QED BY <3>1, <3>2 DEF Kept, Text, UserInfoInv, InfoTypeOK
    <2> QED BY <2>1, <2>2
  <1> QED BY <1>1, <1>2

\* An update writes texts that are kept, and leaves those that were.
LEMMA HistoryStep ==
    ASSUME UserInfoInv, OidcAdminInv', OptionsInv', [UserInfoNext]_userInfoVars
    PROVE HistoryOK'
  <1>1. \A m \in Mappings : Live(mappings', m) => mappings'[m].columns \in mapped' BY Remembered
  <1>2. ASSUME NEW u \in Users, NEW k \in Keys PROVE TextsKept(u, k)'
    <2>1. OptionsInv /\ TextsKept(u, k) /\ kept \subseteq kept'
      BY Remembered DEF UserInfoInv, HistoryOK
    <2>2. CASE /\ options'[u][k].value = options[u][k].value
               /\ options'[u][k].cipher = options[u][k].cipher
      BY <2>1, <2>2 DEF TextsKept
    <2>3. ASSUME NEW t \in Savers, SaveOptions(t) PROVE TextsKept(u, k)'
      <3> DEFINE q == save[t]  written == {l \in Named(q) : ~Untouched(q, l)}
      <3>1. /\ options'[u][k] = IF u = q.user /\ k \in written THEN Written(q, k) ELSE options[u][k]
            /\ saved'[u][k] = IF u = q.user /\ k \in Named(q)
                              THEN [text |-> q.items[k], exact |-> k \notin q.others] ELSE saved[u][k]
        BY <2>1, <2>3, SaveEffect
      <3>2. CASE options'[u][k] = options[u][k] BY <2>2, <3>2
      <3>3. CASE options'[u][k] # options[u][k]
        <4>1. /\ u = q.user /\ k \in Named(q) /\ options'[u][k] = Written(q, k)
              /\ saved'[u][k].text = q.items[k]
          BY <3>1, <3>3
        <4>2. q.items[k] # None BY <4>1 DEF Named
        <4>3. [user |-> u, key |-> k, text |-> q.items[k]] \in kept' BY <4>1, <4>2, Remembered
        <4> QED BY <2>1, <4>1, <4>2, <4>3 DEF TextsKept, Written, Column, AssignedValue, AssignedCipher
      <3> QED BY <3>2, <3>3
    <2>4. ASSUME NEW v \in Users, DeleteUser(v) PROVE TextsKept(u, k)'
      BY <2>1, <2>2, <2>4, DeleteEffect
    <2>5. CASE Quiet BY <2>2, <2>5 DEF Quiet
    <2> QED BY <2>3, <2>4, <2>5, StepsOfParts, QuietSteps
  <1> QED BY <1>1, <1>2, Remembered DEF HistoryOK

-----------------------------------------------------------------------------
(* The reader.                                                              *)

LEMMA NoInfoType == NoInfo \in Info
  <1>1. NoClaims \in [Texts -> Text] BY DEF NoClaims, Text
  <1> QED BY <1>1 DEF NoInfo, Info

\* The text that an option yields is kept.
LEMMA OptionTextKept ==
    ASSUME HistoryOK, NEW u \in Users, NEW k \in Keys, NEW flags \in [Keys -> BOOLEAN],
           OptionValue(u, k, flags) # None
    PROVE [user |-> u, key |-> k, text |-> OptionValue(u, k, flags)] \in kept
  <1>1. OptionValue(u, k, flags) = FinalValue(options[u][k], flags[k])
    BY DEF OptionValue
  <1>2. TextsKept(u, k) BY DEF HistoryOK
  <1> QED BY <1>1, <1>2 DEF FinalValue, TextsKept

\* Whatever order the mappings come in, the claims can be traced.
LEMMA ResolvedTraceable ==
    ASSUME HistoryOK, NEW q \in Info, q.user \in Users, mapped \subseteq MappingColumns,
           \A row \in q.rows : row \in mapped /\ row.scope \in q.wanted,
           NEW claims \in Resolvable(q), NEW n \in Texts, claims[n] # None
    PROVE \E row \in mapped :
            /\ row.claim = n /\ row.scope \in q.wanted
            /\ \/ row.source = "static" /\ claims[n] \in {row.static, Empty}
               \/ /\ row.source = "user_attribute"
                  /\ [user |-> q.user, key |-> row.key, text |-> claims[n]] \in kept
  <1>1. PICK row \in Setting(q.rows, n) : claims[n] = ClaimValue(row, q.user, q.flags)
    BY DEF Resolvable
  <1>2. row \in mapped /\ row.scope \in q.wanted /\ row.claim = n /\ Sets(row) /\ row \in MappingColumns
    BY <1>1 DEF Setting
  <1>3. CASE row.source = "static"
    <2>1. claims[n] \in {row.static, Empty} BY <1>1, <1>3 DEF ClaimValue
    <2> QED BY <1>2, <1>3, <2>1
  <1>4. CASE row.source = "user_attribute" /\ row.key # None
    <2>1. claims[n] = OptionValue(q.user, row.key, q.flags) BY <1>1, <1>4 DEF ClaimValue
    <2>2. row.key \in Keys /\ q.flags \in [Keys -> BOOLEAN]
      BY <1>2, <1>4 DEF MappingColumns, Info
    <2>3. [user |-> q.user, key |-> row.key, text |-> claims[n]] \in kept
      BY <2>1, <2>2, OptionTextKept
    <2> QED BY <1>2, <1>4, <2>3
  <1> QED BY <1>2, <1>3, <1>4 DEF Sets

\* What a handler reads is typed, and belongs to its scopes.
LEMMA ReaderStep ==
    ASSUME OidcAdminAssumption, UserInfoInv, NEW r \in Readers, UNCHANGED <<oidcVars, optionsVars>>,
           \/ \E u \in Users, wanted \in SUBSET Scopes : Ask(r, u, wanted)
           \/ ReadScopes(r) \/ ReadMappings(r)
           \/ \E flags \in [Keys -> BOOLEAN] : ReadFlags(r, flags)
           \/ Answer(r)
    PROVE \E go \in Info : /\ info' = [info EXCEPT ![r] = go]
                           /\ ReadsOf(go)
                           /\ (go.pc = "answered" => Traceable(go))
  <1> DEFINE q == info[r]
  <1>1. /\ q \in Info /\ ReadsOf(q) /\ HistoryOK
        /\ mapped \subseteq MappingColumns
        /\ \A m \in Mappings : Live(mappings, m) => mappings[m].columns \in MappingColumns
    BY DEF UserInfoInv, InfoTypeOK, OidcAdminInv, LiveMappings
  <1>2. ASSUME NEW u \in Users, NEW wanted \in SUBSET Scopes, Ask(r, u, wanted)
        PROVE \E go \in Info : /\ info' = [info EXCEPT ![r] = go]
                               /\ ReadsOf(go) /\ (go.pc = "answered" => Traceable(go))
    <2> DEFINE go == [[NoInfo EXCEPT !.user = u, !.wanted = wanted] EXCEPT !.pc = "scopes"]
    <2>1. go \in Info /\ go.pc = "scopes" /\ go.user = u /\ go.claims = NoClaims
      BY NoInfoType DEF Info, NoInfo
    <2>2. info' = [info EXCEPT ![r] = go] BY <1>2 DEF Ask, Go
    <2> HIDE DEF go
    <2> QED BY <2>1, <2>2 DEF ReadsOf
  <1>3. ASSUME ReadScopes(r)
        PROVE \E go \in Info : /\ info' = [info EXCEPT ![r] = go]
                               /\ ReadsOf(go) /\ (go.pc = "answered" => Traceable(go))
    <2> DEFINE valid == {s \in q.wanted : ScopeExists(s)}
               pc == IF valid = {} THEN "answered" ELSE "mappings"
               go == [[q EXCEPT !.valid = valid] EXCEPT !.pc = pc]
    <2>1. valid \in SUBSET Scopes /\ pc \in {"answered", "mappings"} BY <1>1 DEF Info
    <2>2. info' = [info EXCEPT ![r] = go] /\ q.pc = "scopes" BY <1>3 DEF ReadScopes, Go
    <2>3. valid \subseteq q.wanted OBVIOUS
    <2> HIDE DEF valid, pc
    <2>4. go \in Info BY <1>1, <2>1 DEF Info
    <2>5. /\ go.pc = pc /\ go.valid = valid /\ go.user = q.user /\ go.wanted = q.wanted
          /\ go.claims = NoClaims
      BY <1>1, <2>2 DEF Info, ReadsOf
    <2> HIDE DEF go
    <2>6. q.user \in Users BY <1>1, <2>2 DEF ReadsOf
    <2>7. ReadsOf(go) BY <2>1, <2>3, <2>5, <2>6 DEF ReadsOf
    <2>8. Traceable(go) BY <2>5 DEF Traceable, NoClaims
    <2> QED BY <2>2, <2>4, <2>7, <2>8
  <1>4. ASSUME ReadMappings(r)
        PROVE \E go \in Info : /\ info' = [info EXCEPT ![r] = go]
                               /\ ReadsOf(go) /\ (go.pc = "answered" => Traceable(go))
    <2> DEFINE rows == MappingsOf(q.valid)
               go == [[q EXCEPT !.rows = rows] EXCEPT !.pc = "attributes"]
    <2>1. \A row \in rows : /\ row \in MappingColumns /\ row \in mapped
                            /\ row.scope \in q.valid
      BY <1>1 DEF MappingsOf, HistoryOK
    <2>2. info' = [info EXCEPT ![r] = go] /\ q.pc = "mappings" BY <1>4 DEF ReadMappings, Go
    <2> HIDE DEF rows
    <2>3. go \in Info BY <1>1, <2>1 DEF Info
    <2>4. /\ go.pc = "attributes" /\ go.valid = q.valid /\ go.user = q.user /\ go.wanted = q.wanted
          /\ go.rows = rows
      BY <1>1 DEF Info
    <2> HIDE DEF go
    <2>5. q.user \in Users /\ q.valid \subseteq q.wanted BY <1>1, <2>2 DEF ReadsOf
    <2>6. ReadsOf(go) BY <2>1, <2>4, <2>5 DEF ReadsOf
    <2> QED BY <2>2, <2>3, <2>4, <2>6
  <1>5. ASSUME NEW flags \in [Keys -> BOOLEAN], ReadFlags(r, flags)
        PROVE \E go \in Info : /\ info' = [info EXCEPT ![r] = go]
                               /\ ReadsOf(go) /\ (go.pc = "answered" => Traceable(go))
    <2> DEFINE go == [[q EXCEPT !.flags = flags] EXCEPT !.pc = "options"]
    <2>1. info' = [info EXCEPT ![r] = go] /\ q.pc = "attributes" BY <1>5 DEF ReadFlags, Go
    <2>2. go \in Info BY <1>1 DEF Info
    <2>3. /\ go.pc = "options" /\ go.valid = q.valid /\ go.user = q.user /\ go.wanted = q.wanted
          /\ go.rows = q.rows
      BY <1>1 DEF Info
    <2> HIDE DEF go
    <2>4. ReadsOf(go) BY <1>1, <2>1, <2>3 DEF ReadsOf
    <2> QED BY <2>1, <2>2, <2>3, <2>4
  <1>6. ASSUME Answer(r)
        PROVE \E go \in Info : /\ info' = [info EXCEPT ![r] = go]
                               /\ ReadsOf(go) /\ (go.pc = "answered" => Traceable(go))
    <2>1. PICK claims \in Resolvable(q) :
              info' = [info EXCEPT ![r] = [[q EXCEPT !.claims = claims] EXCEPT !.pc = "answered"]]
      BY <1>6 DEF Answer, Go
    <2> DEFINE go == [[q EXCEPT !.claims = claims] EXCEPT !.pc = "answered"]
    <2>2. claims \in [Texts -> Text] BY DEF Resolvable
    <2>3. go \in Info BY <1>1, <2>2 DEF Info
    <2>4. /\ go.pc = "answered" /\ go.user = q.user /\ go.wanted = q.wanted /\ go.claims = claims
      BY <1>1 DEF Info
    <2>5. /\ q.user \in Users
          /\ \A row \in q.rows : row \in mapped /\ row.scope \in q.wanted
      BY <1>1, <1>6 DEF ReadsOf, Answer
    <2>6. info' = [info EXCEPT ![r] = go] BY <2>1
    <2> HIDE DEF go, q
    <2>7. Traceable(go)
      BY <1>1, <2>4, <2>5, ResolvedTraceable DEF Traceable
    <2>8. ReadsOf(go) BY <2>4 DEF ReadsOf
    <2> QED BY <2>3, <2>6, <2>7, <2>8
  <1> QED BY <1>2, <1>3, <1>4, <1>5, <1>6

-----------------------------------------------------------------------------
LEMMA InfoInitially ==
    ASSUME OidcAdminAssumption, UserInfoInit
    PROVE UserInfoInv
  <1>1. OidcAdminInv BY OidcAdminInitially DEF UserInfoInit
  <1>2. OptionsInv BY OptionsInitially DEF UserInfoInit
  <1>3. InfoTypeOK
    BY <1>1, <1>2, NoInfoType DEF InfoTypeOK, UserInfoInit, InfoInit, OidcAdminInv, OptionsInv
  <1>4. HistoryOK
    BY DEF HistoryOK, TextsKept, UserInfoInit, OidcAdminInit, OptionsInit, NoOption, Live
  <1>5. ASSUME NEW r \in Readers
        PROVE ReadsOf(info[r]) /\ (info[r].pc = "answered" => Traceable(info[r]))
    <2>1. info[r].pc = "idle" BY DEF UserInfoInit, InfoInit, NoInfo
    <2> QED BY <2>1 DEF ReadsOf
  <1> QED BY <1>1, <1>2, <1>3, <1>4, <1>5 DEF UserInfoInv

\* What a handler has read stays explained while history grows.
LEMMA ReadsKept ==
    ASSUME NEW q \in Info, NEW r \in Readers, mapped \subseteq mapped', kept \subseteq kept',
           info'[r] = q
    PROVE /\ ReadsOf(q) => ReadsOf(info[r])'
          /\ Traceable(q) => Traceable(info[r])'
  <1>1. ReadsOf(q) => ReadsOf(info[r])' BY DEF ReadsOf
  <1>2. ASSUME Traceable(q), NEW n \in Texts, q.claims[n] # None
        PROVE \E row \in mapped' :
                /\ row.claim = n /\ row.scope \in q.wanted
                /\ \/ row.source = "static" /\ q.claims[n] \in {row.static, Empty}
                   \/ /\ row.source = "user_attribute"
                      /\ [user |-> q.user, key |-> row.key, text |-> q.claims[n]] \in kept'
    BY <1>2 DEF Traceable
  <1> QED BY <1>1, <1>2 DEF Traceable

LEMMA UserInfoStep ==
    ASSUME OidcAdminAssumption, UserInfoInv, [UserInfoNext]_userInfoVars
    PROVE UserInfoInv'
  <1>1. OidcAdminInv' /\ OptionsInv' BY TablesStep DEF UserInfoInv
  <1>2. HistoryOK' BY <1>1, HistoryStep
  <1>3. mapped \subseteq mapped' /\ kept \subseteq kept' BY Remembered
  <1>4. mapped' \subseteq MappingColumns /\ kept' \subseteq Kept BY <1>1, HistoryType
  <1>5. info \in [Readers -> Info] BY DEF UserInfoInv, InfoTypeOK
  <1>6. ASSUME NEW r \in Readers, NEW go \in Info, info' = [info EXCEPT ![r] = go],
               ReadsOf(go), go.pc = "answered" => Traceable(go)
        PROVE UserInfoInv'
    <2>1. info' \in [Readers -> Info] BY <1>5, <1>6
    <2>2. ASSUME NEW s \in Readers
          PROVE (ReadsOf(info[s]) /\ (info[s].pc = "answered" => Traceable(info[s])))'
      <3>1. /\ info[s] \in Info /\ ReadsOf(info[s])
            /\ info[s].pc = "answered" => Traceable(info[s])
        BY DEF UserInfoInv, InfoTypeOK
      <3>2. info'[s] = IF s = r THEN go ELSE info[s] BY <1>5, <1>6
      <3>3. CASE s = r BY <1>3, <1>6, <3>2, <3>3, ReadsKept
      <3>4. CASE s # r
        <4>1. info'[s] = info[s] BY <3>2, <3>4
        <4> QED BY <1>3, <3>1, <4>1, ReadsKept
      <3> QED BY <3>3, <3>4
    <2> QED BY <1>1, <1>2, <1>4, <2>1, <2>2 DEF UserInfoInv, InfoTypeOK, OidcAdminInv, OptionsInv
  <1>7. CASE info' = info
    <2>1. ASSUME NEW s \in Readers
          PROVE (ReadsOf(info[s]) /\ (info[s].pc = "answered" => Traceable(info[s])))'
      <3>1. /\ info[s] \in Info /\ ReadsOf(info[s])
            /\ info[s].pc = "answered" => Traceable(info[s])
        BY DEF UserInfoInv, InfoTypeOK
      <3>2. info'[s] = info[s] BY <1>7
      <3> QED BY <1>3, <3>1, <3>2, ReadsKept
    <2> QED BY <1>1, <1>2, <1>4, <1>5, <1>7, <2>1
        DEF UserInfoInv, InfoTypeOK, OidcAdminInv, OptionsInv
  <1>8. CASE InfoStep /\ UNCHANGED <<oidcVars, optionsVars>>
    <2>1. PICK r \in Readers :
            \/ \E u \in Users, wanted \in SUBSET Scopes : Ask(r, u, wanted)
            \/ ReadScopes(r) \/ ReadMappings(r)
            \/ \E flags \in [Keys -> BOOLEAN] : ReadFlags(r, flags)
            \/ Answer(r)
      BY <1>8 DEF InfoStep
    <2>2. PICK go \in Info : /\ info' = [info EXCEPT ![r] = go]
                             /\ ReadsOf(go)
                             /\ (go.pc = "answered" => Traceable(go))
      BY <1>8, <2>1, ReaderStep
    <2> QED BY <1>6, <2>2
  <1>9. info' = info \/ (InfoStep /\ UNCHANGED <<oidcVars, optionsVars>>)
    BY DEF UserInfoNext, userInfoVars, infoVars
  <1> QED BY <1>7, <1>8, <1>9

\* The inductive invariant: those of the two administrations, and that what a
\* reader holds is in the history of what could be read.
THEOREM UserInfoInvariance == UserInfoSpec => []UserInfoInv
  <1>1. UserInfoInit => UserInfoInv BY InfoInitially, OidcAdminAssumption
  <1>2. UserInfoInv /\ [UserInfoNext]_userInfoVars => UserInfoInv'
    BY UserInfoStep, OidcAdminAssumption
  <1> QED BY <1>1, <1>2, PTL DEF UserInfoSpec, userInfoVars

\* The tables, the readers in flight and the history keep their types.
THEOREM UserInfoTypeCorrect == UserInfoSpec => []InfoTypeOK
  <1>1. UserInfoInv => InfoTypeOK BY DEF UserInfoInv
  <1> QED BY <1>1, UserInfoInvariance, PTL

\* Every claim of an answer goes back to a mapping of a scope of the token and
\* to a text of its user, whatever is written between the reads.
THEOREM ClaimsAreTraceable == UserInfoSpec => []ClaimsTraceable
  <1>1. UserInfoInv => ClaimsTraceable BY DEF UserInfoInv, ClaimsTraceable, Traceable
  <1> QED BY <1>1, UserInfoInvariance, PTL
=============================================================================
