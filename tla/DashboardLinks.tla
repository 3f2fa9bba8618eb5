--------------------------- MODULE DashboardLinks ---------------------------
(***************************************************************************)
(* Dashboard links: a row in the database and an icon in the file system,  *)
(* changed one after the other by handlers that run in worker threads.     *)
(* Title, URL and order are free data; a request without a file changes    *)
(* nothing else.                                                           *)
(***************************************************************************)
EXTENDS Tables, Naturals

CONSTANTS
    Links,        \* ids of dashboard_links
    Icons,        \* file names, random UUIDs that are never drawn twice
    Uploaders,    \* worker threads
    MaxCuts       \* bound: handlers that are cut short

ASSUME LinksAssumption == None \notin Links \cup Icons /\ MaxCuts \in Nat

VARIABLES
    links,        \* table dashboard_links
    files,        \* the directory of icons
    upload,       \* the handlers in flight
    cuts,         \* how many handlers were cut short
    cutIcons,     \* history: icons whose replacement was cut short
    left          \* history: files that a handler has left behind

linksVars == <<links, files, upload, cuts, cutIcons, left>>

-----------------------------------------------------------------------------
LinkRow == [row : Row, icon : Icons \cup {None}]
Files == [Icons -> Row]

\* old is the icon path that was loaded, new the file that is saved.
Upload == [pc : {"idle", "insert", "unlink", "save", "update"},
           link : Links \cup {None}, old : Icons \cup {None}, new : Icons \cup {None}]
NoUpload == [pc |-> "idle", link |-> None, old |-> None, new |-> None]

LinksTypeOK ==
    /\ links \in [Links -> LinkRow]
    /\ files \in Files
    /\ upload \in [Uploaders -> Upload]
    /\ cuts \in 0..MaxCuts
    /\ cutIcons \subseteq Icons
    /\ left \subseteq Icons

-----------------------------------------------------------------------------
(* POST /admin/dashboards.                                                  *)

\* uuid4: no other file has the name, and no other handler has drawn it.
FreshIcon(i) == files[i] = "never" /\ \A t \in Uploaders : upload[t].new # i

\* _save_icon_file, before the row is inserted.
CreateSave(t, i) ==
    /\ upload[t].pc = "idle"
    /\ FreshIcon(i)
    /\ files' = [files EXCEPT ![i] = "live"]
    /\ upload' = [upload EXCEPT ![t] = [pc |-> "insert", link |-> None, old |-> None, new |-> i]]
    /\ UNCHANGED <<links, cuts, cutIcons, left>>

InsertLink(t, l) ==
    /\ upload[t].pc = "insert"
    /\ links[l].row = "never"
    /\ links' = [links EXCEPT ![l] = [row |-> "live", icon |-> upload[t].new]]
    /\ upload' = [upload EXCEPT ![t] = NoUpload]
    /\ UNCHANGED <<files, cuts, cutIcons, left>>

CreateWithoutIcon(l) ==
    /\ links[l].row = "never"
    /\ links' = [links EXCEPT ![l] = [row |-> "live", icon |-> None]]
    /\ UNCHANGED <<files, upload, cuts, cutIcons, left>>

-----------------------------------------------------------------------------
(* PUT /admin/dashboards/{link_id} with a file.                             *)

\* The row is loaded; i is the name that the new file will get.
UpdateRead(t, l, i) ==
    /\ upload[t].pc = "idle"
    /\ Live(links, l)
    /\ FreshIcon(i)
    /\ upload' = [upload EXCEPT ![t] = [pc |-> "unlink", link |-> l,
                                        old |-> links[l].icon, new |-> i]]
    /\ UNCHANGED <<links, files, cuts, cutIcons, left>>

Removed(i) == IF i \in Icons THEN [files EXCEPT ![i] = "gone"] ELSE files

\* Mutant: the row is read once more, and the icon that it has by now deleted.
UnlinkedCurrent(q) == Removed(links[q.link].icon)
\* _delete_icon_file: an empty path or a file that is gone is passed over.
Unlinked(q) == Removed(q.old)

DeleteOldIcon(t) ==
    /\ upload[t].pc = "unlink"
    /\ files' = Unlinked(upload[t])
    /\ upload' = [upload EXCEPT ![t].pc = "save"]
    /\ UNCHANGED <<links, cuts, cutIcons, left>>

\* os.remove raises OSError, which is passed over: the file stays.
DeleteOldIconFails(t) ==
    /\ upload[t].pc = "unlink"
    /\ upload[t].old # None /\ files[upload[t].old] = "live"
    /\ left' = left \cup {upload[t].old}
    /\ upload' = [upload EXCEPT ![t].pc = "save"]
    /\ UNCHANGED <<links, files, cuts, cutIcons>>

SaveNewIcon(t) ==
    /\ upload[t].pc = "save"
    /\ files' = [files EXCEPT ![upload[t].new] = "live"]
    /\ upload' = [upload EXCEPT ![t].pc = "update"]
    /\ UNCHANGED <<links, cuts, cutIcons, left>>

\* Mutant: the upload is assigned, not its path.
PathRecord(q, current) == q
\* Mutant: the path is set only where the link had none.
PathKept(q, current) == IF q.old = None THEN q.new ELSE current
\* DashboardLinkService.update: the new path differs from the one loaded, so
\* it is always written.
Path(q, current) == Column(current, q.old, q.new)

\* An icon that another update has written since the row was loaded is
\* overwritten, and its file left behind.
UpdateRow(t) ==
    LET q == upload[t] IN
    /\ q.pc = "update"
    /\ Live(links, q.link)
    /\ links' = [links EXCEPT ![q.link].icon = Path(q, @)]
    /\ left' = left \cup ({links[q.link].icon} \ {None, q.old})
    /\ upload' = [upload EXCEPT ![t] = NoUpload]
    /\ UNCHANGED <<files, cuts, cutIcons>>

\* The row is gone: 404, or an error when it goes before the UPDATE.  The new
\* file stays.
UpdateRowGone(t) ==
    /\ upload[t].pc = "update"
    /\ ~Live(links, upload[t].link)
    /\ left' = left \cup {upload[t].new}
    /\ upload' = [upload EXCEPT ![t] = NoUpload]
    /\ UNCHANGED <<links, files, cuts, cutIcons>>

-----------------------------------------------------------------------------
\* DELETE /admin/dashboards/{link_id}: the row only.
DeleteLink(l) ==
    /\ Live(links, l)
    /\ links' = [links EXCEPT ![l].row = "gone"]
    /\ UNCHANGED <<files, upload, cuts, cutIcons, left>>

\* The handler ends where it stands: a full disk, a lost database connection,
\* a restart of the server.
CutShort(t) ==
    /\ cuts < MaxCuts
    /\ upload[t].pc # "idle"
    /\ cuts' = cuts + 1
    /\ cutIcons' = IF upload[t].pc \in {"save", "update"} /\ upload[t].old # None
                   THEN cutIcons \cup {upload[t].old} ELSE cutIcons
    /\ left' = IF upload[t].pc \in {"insert", "update"} THEN left \cup {upload[t].new} ELSE left
    /\ upload' = [upload EXCEPT ![t] = NoUpload]
    /\ UNCHANGED <<links, files>>

-----------------------------------------------------------------------------
LinksInit ==
    /\ links = [l \in Links |-> [row |-> "never", icon |-> None]]
    /\ files = [i \in Icons |-> "never"]
    /\ upload = [t \in Uploaders |-> NoUpload]
    /\ cuts = 0
    /\ cutIcons = {}
    /\ left = {}

LinksAdvance(t) ==
    \/ \E l \in Links : InsertLink(t, l)
    \/ DeleteOldIcon(t)
    \/ DeleteOldIconFails(t)
    \/ SaveNewIcon(t)
    \/ UpdateRow(t)
    \/ UpdateRowGone(t)

LinksNext ==
    \/ \E t \in Uploaders :
        \/ \E i \in Icons : CreateSave(t, i)
        \/ \E l \in Links, i \in Icons : UpdateRead(t, l, i)
        \/ LinksAdvance(t)
        \/ CutShort(t)
    \/ \E l \in Links : CreateWithoutIcon(l) \/ DeleteLink(l)

LinksSpec == LinksInit /\ [][LinksNext]_linksVars

\* A worker thread goes on with the handler it has begun.
LinksFairness == \A t \in Uploaders : WF_linksVars(LinksAdvance(t))

-----------------------------------------------------------------------------
(* Properties.                                                              *)

\* The icon of a link that exists.
IconLost(l) == Live(links, l) /\ links[l].icon # None /\ files[links[l].icon] = "gone"

\* A link shows a missing icon only while a handler that deleted the file is
\* about to write the path of another, or when that handler was cut short.
\* Two updates of one link, each of which deletes the icon that it loaded, do
\* not lose the icon of one another.
MissingIconExplained ==
    \A l \in Links : IconLost(l) =>
        \/ links[l].icon \in cutIcons
        \/ \E t \in Uploaders :
            /\ upload[t].pc \in {"save", "update"}
            /\ upload[t].link = l /\ upload[t].old = links[l].icon

\* A file without a link was left behind by a handler that failed or was
\* overtaken, or its link was deleted: an update that nothing disturbs leaves
\* the file of the link, and no other.
LeftFileExplained ==
    \A i \in Icons : files[i] = "live" =>
        \/ \E l \in Links : links[l].icon = i   \* delete_link keeps the file
        \/ \E t \in Uploaders : upload[t].new = i
        \/ i \in left

\* Unless a handler is cut short, a link that has lost its icon gets another
\* or is deleted.
IconComesBack == \A l \in Links : IconLost(l) ~> (~IconLost(l) \/ cuts > 0)
=============================================================================
