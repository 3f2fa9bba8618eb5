------------------------ MODULE DashboardLinksProofs ------------------------
(* Proofs about DashboardLinks, for any number of links, icons and worker  *)
(* threads.                                                                *)
EXTENDS DashboardLinks, TLAPS

Here(t) == upload[t].pc # "idle"
\* Handlers that have still to save the icon that they have drawn.
Unsaved(t) == upload[t].pc \in {"unlink", "save"}
Updating(t) == upload[t].pc \in {"unlink", "save", "update"}
\* Handlers that have deleted the icon they loaded.
Deleted(t) == upload[t].pc \in {"save", "update"}

\* What a handler in flight holds.  The icon that it has drawn is its own: no
\* link has it, and no other handler has drawn it.
UploadOK(t) ==
    LET q == upload[t] IN
    /\ ~Here(t) => q = NoUpload
    /\ Here(t) => q.new \in Icons
    /\ Updating(t) => q.link \in Links
    /\ Unsaved(t) => files[q.new] = "never"
    /\ q.pc \in {"insert", "update"} => files[q.new] = "live"
    /\ q.old # None => files[q.old] # "never"
    /\ Deleted(t) /\ q.old # None => files[q.old] = "gone" \/ q.old \in left
    /\ \A s \in Uploaders \ {t} : Here(t) => upload[s].new # q.new
    /\ \A l \in Links : Here(t) => links[l].icon # q.new
    /\ \A s \in Uploaders : Here(t) => upload[s].old # q.new

\* The icon that a link names has been saved once; it is that of no other link,
\* and was loaded from no other.
IconOK(l) ==
    links[l].icon # None =>
        /\ files[links[l].icon] # "never"
        /\ \A k \in Links \ {l} : links[k].icon # links[l].icon
        /\ \A t \in Uploaders : upload[t].old = links[l].icon => upload[t].link = l
        /\ links[l].row # "never"

LinksInv ==
    /\ LinksTypeOK
    /\ MissingIconExplained
    /\ LeftFileExplained
    /\ \A t \in Uploaders : UploadOK(t)
    /\ \A l \in Links : IconOK(l)

-----------------------------------------------------------------------------
\* The fields that the invariant speaks of, typed.
LEMMA Fields ==
    ASSUME LinksTypeOK
    PROVE /\ \A t \in Uploaders :
                /\ upload[t].pc \in {"idle", "insert", "unlink", "save", "update"}
                /\ upload[t].link \in Links \cup {None}
                /\ upload[t].old \in Icons \cup {None} /\ upload[t].new \in Icons \cup {None}
                /\ upload[t] = [pc |-> upload[t].pc, link |-> upload[t].link,
                                old |-> upload[t].old, new |-> upload[t].new]
          /\ \A l \in Links : /\ links[l].icon \in Icons \cup {None}
                              /\ links[l].row \in Row
                              /\ links[l] = [row |-> links[l].row, icon |-> links[l].icon]
          /\ \A i \in Icons : files[i] \in Row
  BY DEF LinksTypeOK, Upload, LinkRow, Files

\* A step in which one handler goes on, and its file and its link may change:
\* what the handlers and tables are afterwards.
Handler(pc, link, old, new) == [pc |-> pc, link |-> link, old |-> old, new |-> new]

LEMMA HandlerType ==
    ASSUME NEW pc \in {"idle", "insert", "unlink", "save", "update"}, NEW link \in Links \cup {None},
           NEW old \in Icons \cup {None}, NEW new \in Icons \cup {None}
    PROVE Handler(pc, link, old, new) \in Upload
  BY DEF Handler, Upload

LEMMA NextPc ==
    ASSUME LinksTypeOK, NEW t \in Uploaders, NEW pc \in {"save", "update"},
           upload' = [upload EXCEPT ![t].pc = pc]
    PROVE /\ upload' = [upload EXCEPT ![t] = Handler(pc, upload[t].link, upload[t].old, upload[t].new)]
          /\ upload' \in [Uploaders -> Upload]
  <1>1. [upload[t] EXCEPT !.pc = pc] = Handler(pc, upload[t].link, upload[t].old, upload[t].new)
    BY DEF LinksTypeOK, Upload, Handler
  <1>2. Handler(pc, upload[t].link, upload[t].old, upload[t].new) \in Upload
    BY Fields, HandlerType
  <1> QED BY <1>1, <1>2 DEF LinksTypeOK

LEMMA NoUploadType == NoUpload \in Upload /\ NoUpload = Handler("idle", None, None, None)
  BY DEF NoUpload, Upload, Handler

-----------------------------------------------------------------------------
\* POST: the file is saved.
LEMMA CreateSaveStep ==
    ASSUME LinksInv, NEW t \in Uploaders, NEW i \in Icons, CreateSave(t, i)
    PROVE LinksInv'
  <1> DEFINE new == Handler("insert", None, None, i)
  <1>1. /\ upload' = [upload EXCEPT ![t] = new] /\ files' = [files EXCEPT ![i] = "live"]
        /\ links' = links /\ cuts' = cuts /\ cutIcons' = cutIcons /\ left' = left
        /\ upload[t].pc = "idle" /\ files[i] = "never" /\ \A s \in Uploaders : upload[s].new # i
    BY DEF CreateSave, FreshIcon, Handler
  <1>2. new.pc = "insert" /\ new.link = None /\ new.old = None /\ new.new = i /\ new \in Upload
    BY HandlerType DEF Handler
  <1> HIDE DEF new
  <1>3. LinksTypeOK' BY <1>1, <1>2 DEF LinksInv, LinksTypeOK, Files, Row
  <1>4. ASSUME NEW s \in Uploaders PROVE UploadOK(s)'
    <2>1. CASE s = t
      BY <1>1, <1>2, <2>1, Fields, LinksAssumption
      DEF LinksInv, LinksTypeOK, Files, UploadOK, IconOK, Here, Unsaved, Updating, Deleted
    <2>2. CASE s # t
      BY <1>1, <1>2, <2>2, Fields, LinksAssumption
      DEF LinksInv, LinksTypeOK, Files, UploadOK, IconOK, Here, Unsaved, Updating, Deleted
    <2> QED BY <2>1, <2>2
  <1>5. ASSUME NEW l \in Links PROVE IconOK(l)'
    BY <1>1, <1>2, Fields, LinksAssumption DEF LinksInv, LinksTypeOK, Files, IconOK
  <1>6. MissingIconExplained'
    BY <1>1, <1>2, Fields DEF LinksInv, LinksTypeOK, Files, MissingIconExplained, IconLost, Live
  <1>7. upload[t].new = None BY <1>1 DEF LinksInv, UploadOK, Here, NoUpload
  <1>8. LeftFileExplained'
    <2> SUFFICES ASSUME NEW j \in Icons, files'[j] = "live"
                 PROVE \/ \E l \in Links : links'[l].icon = j
                       \/ \E s \in Uploaders : upload'[s].new = j
                       \/ j \in left'
      BY DEF LeftFileExplained
    <2>1. CASE j = i
      BY <1>1, <1>2, <2>1 DEF LinksInv, LinksTypeOK
    <2>2. CASE j # i
      BY <1>1, <1>2, <1>7, <2>2, LinksAssumption DEF LinksInv, LinksTypeOK, Files, LeftFileExplained
    <2> QED BY <2>1, <2>2
  <1> QED BY <1>3, <1>4, <1>5, <1>6, <1>8 DEF LinksInv
\* POST: the row is inserted.
LEMMA InsertLinkStep ==
    ASSUME LinksInv, NEW t \in Uploaders, NEW k \in Links, InsertLink(t, k)
    PROVE LinksInv'
  <1>1. /\ upload' = [upload EXCEPT ![t] = NoUpload] /\ upload[t].pc = "insert"
        /\ links' = [links EXCEPT ![k] = [row |-> "live", icon |-> upload[t].new]]
        /\ files' = files /\ cuts' = cuts /\ cutIcons' = cutIcons /\ left' = left /\ links[k].row = "never"
    BY DEF InsertLink
  <1>2. /\ NoUpload.pc = "idle" /\ NoUpload.link = None /\ NoUpload.old = None /\ NoUpload.new = None
        /\ NoUpload \in Upload
    BY NoUploadType DEF NoUpload
  <1>0. upload[t].new \in Icons BY <1>1 DEF LinksInv, UploadOK, Here
  <1>3. LinksTypeOK'
    <2>1. [row |-> "live", icon |-> upload[t].new] \in LinkRow BY <1>0 DEF LinkRow, Row
    <2> QED BY <1>1, <1>2, <2>1 DEF LinksInv, LinksTypeOK
  <1>4. ASSUME NEW s \in Uploaders PROVE UploadOK(s)'
    <2>1. CASE s = t
      BY <1>0, <1>1, <1>2, <2>1, Fields, LinksAssumption
      DEF LinksInv, LinksTypeOK, Files, UploadOK, IconOK, Here, Unsaved, Updating, Deleted
    <2>2. CASE s # t
      BY <1>0, <1>1, <1>2, <2>2, Fields, LinksAssumption
      DEF LinksInv, LinksTypeOK, Files, UploadOK, IconOK, Here, Unsaved, Updating, Deleted
    <2> QED BY <2>1, <2>2
  <1>5. ASSUME NEW l \in Links PROVE IconOK(l)'
    BY <1>0, <1>1, <1>2, Fields, LinksAssumption DEF LinksInv, LinksTypeOK, Files, UploadOK, IconOK, Here, Unsaved, Updating, Deleted
  <1>6. MissingIconExplained'
    <2> SUFFICES ASSUME NEW l \in Links, IconLost(l)'
                 PROVE \/ links'[l].icon \in cutIcons'
                       \/ \E s \in Uploaders : /\ upload'[s].pc \in {"save", "update"}
                                               /\ upload'[s].link = l /\ upload'[s].old = links'[l].icon
      BY DEF MissingIconExplained
    <2> QED
      BY <1>0, <1>1, <1>2, Fields, LinksAssumption
      DEF LinksInv, LinksTypeOK, Files, UploadOK, IconOK, Here, Unsaved, Updating, Deleted, MissingIconExplained, IconLost, Live
  <1>7. links[k].icon = None BY <1>1 DEF LinksInv, IconOK
  <1>8. LeftFileExplained'
    <2> SUFFICES ASSUME NEW j \in Icons, files[j] = "live"
                 PROVE \/ \E l \in Links : links'[l].icon = j
                       \/ \E s \in Uploaders : upload'[s].new = j
                       \/ j \in left'
      BY <1>1 DEF LeftFileExplained
    <2>1. CASE j = upload[t].new
      BY <1>1, <2>1 DEF LinksInv, LinksTypeOK
    <2>2. CASE j # upload[t].new
      <3>1. \A l \in Links \ {k} : links'[l] = links[l]
        BY <1>1 DEF LinksInv, LinksTypeOK
      <3>2. \A s \in Uploaders \ {t} : upload'[s] = upload[s]
        BY <1>1 DEF LinksInv, LinksTypeOK
      <3> QED
        BY <1>1, <1>7, <2>2, <3>1, <3>2, LinksAssumption DEF LinksInv, LeftFileExplained
    <2> QED BY <2>1, <2>2
  <1> QED BY <1>3, <1>4, <1>5, <1>6, <1>8 DEF LinksInv

\* PUT: the row is loaded.
LEMMA UpdateReadStep ==
    ASSUME LinksInv, NEW t \in Uploaders, NEW k \in Links, NEW i \in Icons, UpdateRead(t, k, i)
    PROVE LinksInv'
  <1> DEFINE new == Handler("unlink", k, links[k].icon, i)
  <1>1. /\ upload' = [upload EXCEPT ![t] = new] /\ upload[t].pc = "idle"
        /\ links' = links /\ files' = files /\ cuts' = cuts /\ cutIcons' = cutIcons /\ left' = left
        /\ files[i] = "never" /\ \A s \in Uploaders : upload[s].new # i
        /\ links[k].row = "live"
    BY DEF UpdateRead, FreshIcon, Handler, Live
  <1>0. links[k].icon \in Icons \cup {None} BY Fields DEF LinksInv
  <1>2. new.pc = "unlink" /\ new.link = k /\ new.old = links[k].icon /\ new.new = i /\ new \in Upload
    BY <1>0, HandlerType DEF Handler
  <1> HIDE DEF new
  <1>3. LinksTypeOK' BY <1>1, <1>2 DEF LinksInv, LinksTypeOK
  <1>4. ASSUME NEW s \in Uploaders PROVE UploadOK(s)'
    <2>1. CASE s = t
      BY <1>0, <1>1, <1>2, <2>1, Fields, LinksAssumption
      DEF LinksInv, LinksTypeOK, Files, UploadOK, IconOK, Here, Unsaved, Updating, Deleted
    <2>2. CASE s # t
      BY <1>0, <1>1, <1>2, <2>2, Fields, LinksAssumption
      DEF LinksInv, LinksTypeOK, Files, UploadOK, IconOK, Here, Unsaved, Updating, Deleted
    <2> QED BY <2>1, <2>2
  <1>5. ASSUME NEW l \in Links PROVE IconOK(l)'
    BY <1>0, <1>1, <1>2, Fields, LinksAssumption DEF LinksInv, LinksTypeOK, Files, UploadOK, IconOK, Here, Unsaved, Updating, Deleted
  <1>6. MissingIconExplained'
    <2> SUFFICES ASSUME NEW l \in Links, IconLost(l)'
                 PROVE \/ links'[l].icon \in cutIcons'
                       \/ \E s \in Uploaders : /\ upload'[s].pc \in {"save", "update"}
                                               /\ upload'[s].link = l /\ upload'[s].old = links'[l].icon
      BY DEF MissingIconExplained
    <2> QED
      BY <1>0, <1>1, <1>2, Fields, LinksAssumption
      DEF LinksInv, LinksTypeOK, Files, UploadOK, IconOK, Here, Unsaved, Updating, Deleted, MissingIconExplained, IconLost, Live
  <1>7. upload[t].new = None BY <1>1 DEF LinksInv, UploadOK, Here, NoUpload
  <1>8. LeftFileExplained'
    BY <1>0, <1>1, <1>2, <1>7, Fields, LinksAssumption
    DEF LinksInv, LinksTypeOK, Files, UploadOK, IconOK, Here, Unsaved, Updating, Deleted, LeftFileExplained
  <1> QED BY <1>3, <1>4, <1>5, <1>6, <1>8 DEF LinksInv

\* PUT: the old icon is deleted, or left behind.  Its link is the only one
\* that names it.
LEMMA DeleteOldIconStep ==
    ASSUME LinksInv, NEW t \in Uploaders, DeleteOldIcon(t) \/ DeleteOldIconFails(t)
    PROVE LinksInv'
  <1> DEFINE q == upload[t]  new == Handler("save", q.link, q.old, q.new)
  <1>0. q.pc = "unlink" /\ q.link \in Links /\ q.new \in Icons /\ q.old \in Icons \cup {None}
    BY Fields DEF LinksInv, DeleteOldIcon, DeleteOldIconFails, UploadOK, Here, Updating
  <1>1. /\ upload' = [upload EXCEPT ![t] = new] /\ upload' \in [Uploaders -> Upload]
        /\ links' = links /\ cuts' = cuts /\ cutIcons' = cutIcons
    BY NextPc DEF LinksInv, DeleteOldIcon, DeleteOldIconFails
  <1>2. new.pc = "save" /\ new.link = q.link /\ new.old = q.old /\ new.new = q.new
    BY DEF Handler
  <1>7. /\ files' \in Files /\ left' \subseteq Icons /\ left \subseteq left'
        /\ \A i \in Icons \ {q.old} : files'[i] = files[i]
        /\ q.old # None => files'[q.old] = "gone" \/ (files'[q.old] = "live" /\ q.old \in left')
    <2>1. CASE DeleteOldIcon(t)
      <3>1. files' = Removed(q.old) /\ left' = left
        BY <2>1 DEF DeleteOldIcon, Unlinked
      <3>2. CASE q.old = None
        BY <3>1, <3>2, LinksAssumption DEF LinksInv, LinksTypeOK, Removed, Files
      <3>3. CASE q.old \in Icons
        BY <3>1, <3>3 DEF LinksInv, LinksTypeOK, Removed, Files, Row
      <3> QED BY <1>0, <3>2, <3>3
    <2>2. CASE DeleteOldIconFails(t)
      BY <1>0, <2>2 DEF LinksInv, LinksTypeOK, DeleteOldIconFails
    <2> QED BY <2>1, <2>2
  <1> HIDE DEF new
  <1>3. LinksTypeOK' BY <1>1, <1>7 DEF LinksInv, LinksTypeOK
  <1>4. ASSUME NEW s \in Uploaders PROVE UploadOK(s)'
    <2>1. CASE s = t
      BY <1>0, <1>1, <1>2, <1>7, <2>1, Fields, LinksAssumption
      DEF LinksInv, LinksTypeOK, Files, UploadOK, IconOK, Here, Unsaved, Updating, Deleted
    <2>2. CASE s # t
      BY <1>0, <1>1, <1>2, <1>7, <2>2, Fields, LinksAssumption
      DEF LinksInv, LinksTypeOK, Files, UploadOK, IconOK, Here, Unsaved, Updating, Deleted
    <2> QED BY <2>1, <2>2
  <1>5. ASSUME NEW l \in Links PROVE IconOK(l)'
    BY <1>0, <1>1, <1>2, <1>7, Fields, LinksAssumption DEF LinksInv, LinksTypeOK, Files, UploadOK, IconOK, Here, Unsaved, Updating, Deleted
  <1>6. MissingIconExplained'
    <2> SUFFICES ASSUME NEW l \in Links, IconLost(l)'
                 PROVE \/ links'[l].icon \in cutIcons'
                       \/ \E s \in Uploaders : /\ upload'[s].pc \in {"save", "update"}
                                               /\ upload'[s].link = l /\ upload'[s].old = links'[l].icon
      BY DEF MissingIconExplained
    <2> QED
      BY <1>0, <1>1, <1>2, <1>7, Fields, LinksAssumption
      DEF LinksInv, LinksTypeOK, Files, UploadOK, IconOK, Here, Unsaved, Updating, Deleted, MissingIconExplained, IconLost, Live
  <1>8. LeftFileExplained'
    BY <1>0, <1>1, <1>2, <1>7, Fields, LinksAssumption
    DEF LinksInv, LinksTypeOK, Files, UploadOK, IconOK, Here, Unsaved, Updating, Deleted, LeftFileExplained
  <1> QED BY <1>3, <1>4, <1>5, <1>6, <1>8 DEF LinksInv

\* PUT: the new icon is saved.
LEMMA SaveNewIconStep ==
    ASSUME LinksInv, NEW t \in Uploaders, SaveNewIcon(t)
    PROVE LinksInv'
  <1> DEFINE q == upload[t]  new == Handler("update", q.link, q.old, q.new)
  <1>0. q.pc = "save" /\ q.link \in Links /\ q.new \in Icons /\ q.old \in Icons \cup {None}
    BY Fields DEF LinksInv, SaveNewIcon, UploadOK, Here, Updating
  <1>1. /\ upload' = [upload EXCEPT ![t] = new] /\ upload' \in [Uploaders -> Upload]
        /\ files' = [files EXCEPT ![q.new] = "live"]
        /\ links' = links /\ cuts' = cuts /\ cutIcons' = cutIcons /\ left' = left
    BY NextPc DEF LinksInv, SaveNewIcon
  <1>2. new.pc = "update" /\ new.link = q.link /\ new.old = q.old /\ new.new = q.new
    BY DEF Handler
  <1> HIDE DEF new
  <1>3. LinksTypeOK' BY <1>0, <1>1 DEF LinksInv, LinksTypeOK, Files, Row
  <1>4. ASSUME NEW s \in Uploaders PROVE UploadOK(s)'
    <2>1. CASE s = t
      BY <1>0, <1>1, <1>2, <2>1, Fields, LinksAssumption
      DEF LinksInv, LinksTypeOK, Files, UploadOK, IconOK, Here, Unsaved, Updating, Deleted
    <2>2. CASE s # t
      BY <1>0, <1>1, <1>2, <2>2, Fields, LinksAssumption
      DEF LinksInv, LinksTypeOK, Files, UploadOK, IconOK, Here, Unsaved, Updating, Deleted
    <2> QED BY <2>1, <2>2
  <1>5. ASSUME NEW l \in Links PROVE IconOK(l)'
    BY <1>0, <1>1, <1>2, Fields, LinksAssumption DEF LinksInv, LinksTypeOK, Files, UploadOK, IconOK, Here, Unsaved, Updating, Deleted
  <1>6. MissingIconExplained'
    <2> SUFFICES ASSUME NEW l \in Links, IconLost(l)'
                 PROVE \/ links'[l].icon \in cutIcons'
                       \/ \E s \in Uploaders : /\ upload'[s].pc \in {"save", "update"}
                                               /\ upload'[s].link = l /\ upload'[s].old = links'[l].icon
      BY DEF MissingIconExplained
    <2> QED
      BY <1>0, <1>1, <1>2, Fields, LinksAssumption
      DEF LinksInv, LinksTypeOK, Files, UploadOK, IconOK, Here, Unsaved, Updating, Deleted, MissingIconExplained, IconLost, Live
  <1>8. LeftFileExplained'
    BY <1>0, <1>1, <1>2, Fields, LinksAssumption
    DEF LinksInv, LinksTypeOK, Files, UploadOK, IconOK, Here, Unsaved, Updating, Deleted, LeftFileExplained
  <1> QED BY <1>3, <1>4, <1>5, <1>6, <1>8 DEF LinksInv

\* PUT: the path is written.  It differs from the one that was loaded.
LEMMA UpdateRowStep ==
    ASSUME LinksInv, NEW t \in Uploaders, UpdateRow(t)
    PROVE LinksInv'
  <1> DEFINE q == upload[t]
  <1>0. /\ q.pc = "update" /\ q.link \in Links /\ q.new \in Icons /\ q.old # q.new
        /\ links[q.link].row = "live" /\ files[q.new] = "live"
    BY DEF LinksInv, UpdateRow, UploadOK, Here, Updating, Live
  <1>1. /\ upload' = [upload EXCEPT ![t] = NoUpload]
        /\ files' = files /\ cuts' = cuts /\ cutIcons' = cutIcons
        /\ left' = left \cup ({links[q.link].icon} \ {None, q.old})
        /\ links' = [links EXCEPT ![q.link] = [row |-> "live", icon |-> q.new]]
    <2>1. Path(q, links[q.link].icon) = q.new BY <1>0 DEF Path, Column
    <2>2. links' = [links EXCEPT ![q.link].icon = q.new] BY <2>1 DEF UpdateRow
    <2>3. [links[q.link] EXCEPT !.icon = q.new] = [row |-> "live", icon |-> q.new]
      BY <1>0 DEF LinksInv, LinksTypeOK, LinkRow
    <2> QED BY <2>2, <2>3 DEF UpdateRow
  <1>2. /\ NoUpload.pc = "idle" /\ NoUpload.link = None /\ NoUpload.old = None /\ NoUpload.new = None
        /\ NoUpload \in Upload
    BY NoUploadType DEF NoUpload
  <1>3. LinksTypeOK'
    <2>1. [row |-> "live", icon |-> q.new] \in LinkRow BY <1>0 DEF LinkRow, Row
    <2>2. left' \subseteq Icons BY <1>0, <1>1, Fields DEF LinksInv, LinksTypeOK
    <2> QED BY <1>1, <1>2, <2>1, <2>2 DEF LinksInv, LinksTypeOK
  <1>4. ASSUME NEW s \in Uploaders PROVE UploadOK(s)'
    <2>1. CASE s = t
      BY <1>0, <1>1, <1>2, <2>1, Fields, LinksAssumption
      DEF LinksInv, LinksTypeOK, Files, UploadOK, IconOK, Here, Unsaved, Updating, Deleted
    <2>2. CASE s # t
      BY <1>0, <1>1, <1>2, <2>2, Fields, LinksAssumption
      DEF LinksInv, LinksTypeOK, Files, UploadOK, IconOK, Here, Unsaved, Updating, Deleted
    <2> QED BY <2>1, <2>2
  <1>5. ASSUME NEW l \in Links PROVE IconOK(l)'
    BY <1>0, <1>1, <1>2, Fields, LinksAssumption DEF LinksInv, LinksTypeOK, Files, UploadOK, IconOK, Here, Unsaved, Updating, Deleted
  <1>6. MissingIconExplained'
    <2> SUFFICES ASSUME NEW l \in Links, IconLost(l)'
                 PROVE \/ links'[l].icon \in cutIcons'
                       \/ \E s \in Uploaders : /\ upload'[s].pc \in {"save", "update"}
                                               /\ upload'[s].link = l /\ upload'[s].old = links'[l].icon
      BY DEF MissingIconExplained
    <2> QED
      BY <1>0, <1>1, <1>2, Fields, LinksAssumption
      DEF LinksInv, LinksTypeOK, Files, UploadOK, IconOK, Here, Unsaved, Updating, Deleted, MissingIconExplained, IconLost, Live
  <1>8. LeftFileExplained'
    BY <1>0, <1>1, <1>2, Fields, LinksAssumption
    DEF LinksInv, LinksTypeOK, Files, UploadOK, IconOK, Here, Unsaved, Updating, Deleted, LeftFileExplained
  <1> QED BY <1>3, <1>4, <1>5, <1>6, <1>8 DEF LinksInv

\* A handler ends without a change of the tables: the row of its link is gone,
\* or it is cut short.
LEMMA HandlerEndsStep ==
    ASSUME LinksInv, NEW t \in Uploaders, UpdateRowGone(t) \/ CutShort(t)
    PROVE LinksInv'
  <1> DEFINE q == upload[t]
  <1>1. /\ upload' = [upload EXCEPT ![t] = NoUpload]
        /\ files' = files /\ links' = links /\ cutIcons \subseteq cutIcons'
        /\ left \subseteq left' /\ (q.pc \in {"insert", "update"} => q.new \in left')
        /\ Deleted(t) /\ q.old # None => q.old \in cutIcons' \/ links[q.link].row # "live"
    BY DEF UpdateRowGone, CutShort, Deleted, Live
  <1>2. /\ NoUpload.pc = "idle" /\ NoUpload.link = None /\ NoUpload.old = None /\ NoUpload.new = None
        /\ NoUpload \in Upload
    BY NoUploadType DEF NoUpload
  <1>3. LinksTypeOK'
    <2>1. cuts' \in 0..MaxCuts
      BY LinksAssumption DEF UpdateRowGone, CutShort, LinksInv, LinksTypeOK
    <2>2. cutIcons' \subseteq Icons /\ left' \subseteq Icons
      BY Fields DEF UpdateRowGone, CutShort, LinksInv, LinksTypeOK, UploadOK, Here
    <2> QED BY <1>1, <1>2, <2>1, <2>2 DEF LinksInv, LinksTypeOK
  <1>4. ASSUME NEW s \in Uploaders PROVE UploadOK(s)'
    <2>1. CASE s = t
      BY <1>1, <1>2, <2>1, Fields, LinksAssumption
      DEF LinksInv, LinksTypeOK, Files, UploadOK, IconOK, Here, Unsaved, Updating, Deleted
    <2>2. CASE s # t
      BY <1>1, <1>2, <2>2, Fields, LinksAssumption
      DEF LinksInv, LinksTypeOK, Files, UploadOK, IconOK, Here, Unsaved, Updating, Deleted
    <2> QED BY <2>1, <2>2
  <1>5. ASSUME NEW l \in Links PROVE IconOK(l)'
    BY <1>1, <1>2, Fields, LinksAssumption DEF LinksInv, LinksTypeOK, Files, UploadOK, IconOK, Here, Unsaved, Updating, Deleted
  <1>6. MissingIconExplained'
    <2> SUFFICES ASSUME NEW l \in Links, IconLost(l)'
                 PROVE \/ links'[l].icon \in cutIcons'
                       \/ \E s \in Uploaders : /\ upload'[s].pc \in {"save", "update"}
                                               /\ upload'[s].link = l /\ upload'[s].old = links'[l].icon
      BY DEF MissingIconExplained
    <2> QED
      BY <1>1, <1>2, Fields, LinksAssumption
      DEF LinksInv, LinksTypeOK, Files, UploadOK, IconOK, Here, Unsaved, Updating, Deleted, MissingIconExplained, IconLost, Live
  <1>8. LeftFileExplained'
    BY <1>1, <1>2, Fields, LinksAssumption
    DEF LinksInv, LinksTypeOK, Files, UploadOK, IconOK, Here, Unsaved, Updating, Deleted, LeftFileExplained
  <1> QED BY <1>3, <1>4, <1>5, <1>6, <1>8 DEF LinksInv

\* POST without a file, and DELETE: the row only.
LEMMA RowOnlyStep ==
    ASSUME LinksInv, NEW k \in Links, CreateWithoutIcon(k) \/ DeleteLink(k)
    PROVE LinksInv'
  <1>1. /\ upload' = upload /\ files' = files /\ cuts' = cuts /\ cutIcons' = cutIcons /\ left' = left
        /\ \A l \in Links : links'[l].icon = links[l].icon
        /\ \A l \in Links : links'[l].row = "never" => links[l].row = "never"
        /\ \A l \in Links : links'[l].row = "live" /\ links'[l].icon # None => links[l].row = "live"
        /\ links' \in [Links -> LinkRow]
    <2>1. CASE CreateWithoutIcon(k)
      <3>1. [row |-> "live", icon |-> None] \in LinkRow BY DEF LinkRow, Row
      <3>2. links[k].icon = None BY <2>1 DEF CreateWithoutIcon, LinksInv, IconOK
      <3> QED BY <2>1, <3>1, <3>2 DEF CreateWithoutIcon, LinksInv, LinksTypeOK
    <2>2. CASE DeleteLink(k)
      <3>1. /\ links' = [links EXCEPT ![k] = [links[k] EXCEPT !.row = "gone"]]
            /\ upload' = upload /\ files' = files /\ cuts' = cuts /\ cutIcons' = cutIcons /\ left' = left
        BY <2>2 DEF DeleteLink
      <3>2. [links[k] EXCEPT !.row = "gone"] = [row |-> "gone", icon |-> links[k].icon]
        BY DEF LinksInv, LinksTypeOK, LinkRow
      <3>3. [row |-> "gone", icon |-> links[k].icon] \in LinkRow
        BY Fields DEF LinksInv, LinkRow, Row
      <3> QED BY <3>1, <3>2, <3>3 DEF LinksInv, LinksTypeOK
    <2> QED BY <2>1, <2>2
  <1>3. LinksTypeOK' BY <1>1 DEF LinksInv, LinksTypeOK
  <1>4. ASSUME NEW s \in Uploaders PROVE UploadOK(s)'
    BY <1>1, Fields, LinksAssumption
    DEF LinksInv, UploadOK, Here, Unsaved, Updating, Deleted
  <1>5. ASSUME NEW l \in Links PROVE IconOK(l)'
    BY <1>1, Fields, LinksAssumption DEF LinksInv, LinksTypeOK, Files, UploadOK, IconOK, Here, Unsaved, Updating, Deleted
  <1>6. MissingIconExplained'
    <2> SUFFICES ASSUME NEW l \in Links, IconLost(l)'
                 PROVE \/ links'[l].icon \in cutIcons'
                       \/ \E s \in Uploaders : /\ upload'[s].pc \in {"save", "update"}
                                               /\ upload'[s].link = l /\ upload'[s].old = links'[l].icon
      BY DEF MissingIconExplained
    <2> QED
      BY <1>1, Fields, LinksAssumption
      DEF LinksInv, LinksTypeOK, Files, UploadOK, IconOK, Here, Unsaved, Updating, Deleted, MissingIconExplained, IconLost, Live
  <1>8. LeftFileExplained'
    BY <1>1, Fields, LinksAssumption
    DEF LinksInv, LinksTypeOK, Files, UploadOK, IconOK, Here, Unsaved, Updating, Deleted, LeftFileExplained
  <1> QED BY <1>3, <1>4, <1>5, <1>6, <1>8 DEF LinksInv

-----------------------------------------------------------------------------
\* The inductive invariant of DashboardLinks: each handler owns the icon that
\* it has drawn, and no two links name one icon.
THEOREM LinksInvariance == LinksSpec => []LinksInv
  <1>1. LinksInit => LinksInv
    <2> SUFFICES ASSUME LinksInit PROVE LinksInv OBVIOUS
    <2>1. LinksTypeOK
      <3>1. [row |-> "never", icon |-> None] \in LinkRow BY DEF LinkRow, Row
      <3> QED BY <3>1, NoUploadType, LinksAssumption DEF LinksInit, LinksTypeOK, Files, Row
    <2>2. MissingIconExplained /\ \A l \in Links : IconOK(l)
      BY DEF LinksInit, MissingIconExplained, IconLost, Live, IconOK
    <2>4. LeftFileExplained BY DEF LinksInit, LeftFileExplained
    <2>3. \A t \in Uploaders : UploadOK(t)
      BY DEF LinksInit, UploadOK, NoUpload, Here, Unsaved, Updating, Deleted
    <2> QED BY <2>1, <2>2, <2>3, <2>4 DEF LinksInv
  <1>2. LinksInv /\ [LinksNext]_linksVars => LinksInv'
    <2> SUFFICES ASSUME LinksInv, [LinksNext]_linksVars PROVE LinksInv' OBVIOUS
    <2>1. CASE LinksNext
      BY <2>1, CreateSaveStep, InsertLinkStep, UpdateReadStep, DeleteOldIconStep, SaveNewIconStep,
         UpdateRowStep, HandlerEndsStep, RowOnlyStep
      DEF LinksNext, LinksAdvance
    <2>2. CASE UNCHANGED linksVars
      BY <2>2 DEF linksVars, LinksInv, LinksTypeOK, MissingIconExplained, LeftFileExplained, IconLost, Live,
                  IconOK, UploadOK, Here, Unsaved, Updating, Deleted
    <2> QED BY <2>1, <2>2
  <1> QED BY <1>1, <1>2, PTL DEF LinksSpec

\* Rows, files and handlers of the dashboard links keep their types.
THEOREM LinksTypeCorrect == LinksSpec => []LinksTypeOK
  <1>1. LinksInv => LinksTypeOK BY DEF LinksInv
  <1> QED BY <1>1, LinksInvariance, PTL

\* A link shows a missing icon only while its replacement is under way or after
\* that was cut short, however many updates of it overlap.
THEOREM MissingIconIsExplained == LinksSpec => []MissingIconExplained
  <1>1. LinksInv => MissingIconExplained BY DEF LinksInv
  <1> QED BY <1>1, LinksInvariance, PTL

\* Files are left in the directory by a handler that failed or was overtaken and
\* by delete_link, and by nothing else: a later update does not lose them.
THEOREM LeftFileIsExplained == LinksSpec => []LeftFileExplained
  <1>1. LinksInv => LeftFileExplained BY DEF LinksInv
  <1> QED BY <1>1, LinksInvariance, PTL
=============================================================================
