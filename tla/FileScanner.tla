----------------------------- MODULE FileScanner -----------------------------
(***************************************************************************)
(* db::local::FileScanner (src/libdblocal/file_scanner.cpp): the media     *)
(* records it keeps for the paths it meets, and the maps that last for one *)
(* scan.  Everything it knows is one record, so that each callback of the  *)
(* walker is an operator from what was known before to what is known       *)
(* after.                                                                  *)
(*                                                                         *)
(*   db    the database: a record for each path (steam recordsets write    *)
(*         through, Commit changes nothing)                                *)
(*   begin, end  the gap between the ids in use from which AllocateID      *)
(*         gives out: it is looked for only when it is used up               *)
(*   map   m_map: the ids of the paths met in this scan                    *)
(*   kids  m_children: for the id of a directory or playlist, the ids of   *)
(*         its children met so far (the vector, without order and holes)   *)
(*                                                                         *)
(* Around it is the world that it walks and that FileNotifierTask listens  *)
(* to: the media directories, and the kernel's inotify watches on them.    *)
(* None of that is code of the repository; it is what libutil/walker.cpp   *)
(* (stat, readdir, links) and libimport/file_notifier.cpp                  *)
(* (inotify_add_watch, read) rely on.  A path is a model value.  The file  *)
(* system is a set of directory entries <<d, p>>: the one whose d is       *)
(* Home[p] is the path itself, any other is a symbolic link in d that      *)
(* Canonicalise turns into p.  Names, and the order of the entries of a    *)
(* directory, are left out.                                                *)
(***************************************************************************)
EXTENDS Naturals, FiniteSetsExt

CONSTANTS
  Dirs, Files,   \* the paths of directories and of files
  Root,          \* the root of the library (m_loroot)
  Home,          \* the directory of every path that may come and go
  Links,         \* the symbolic links there may be
  AtFirst,       \* the entries on disk when the server starts
  MaxEvents,     \* bound on changes, failing system calls and restarts
  OnlyWatched    \* are directories changed only once they are watched?

Paths == Dirs \cup Files

Entries == {<<Home[p], p>> : p \in DOMAIN Home} \cup Links

ASSUME TreeAssumption ==
  /\ Root \in Dirs
  /\ Dirs \cap Files = {}
  /\ Files \subseteq DOMAIN Home
  /\ DOMAIN Home \subseteq Paths \ {Root}
  /\ \A p \in DOMAIN Home : Home[p] \in Dirs \ {p}
  /\ Links \subseteq Dirs \X Paths
  /\ AtFirst \subseteq Entries
  /\ MaxEvents \in Nat
  /\ OnlyWatched \in BOOLEAN

VARIABLES
  disk,      \* the directory entries there are
  mtime,     \* modification time and size of each file, as a version number
  events,    \* how many changes, failing system calls and restarts there were
  watched,   \* the directories that have an inotify watch
  pending    \* is there an event to read from the inotify descriptor?

treeVars == <<disk, mtime, watched, pending>>

TreeTypeOK ==
  /\ disk \subseteq Entries
  /\ mtime \in [Files -> 1 .. MaxEvents + 1]
  /\ events \in 0 .. MaxEvents
  /\ watched \subseteq Dirs
  /\ pending \in BOOLEAN

TreeInit ==
  /\ disk = AtFirst
  /\ mtime = [f \in Files |-> 1]
  /\ events = 0
  /\ watched = {}
  /\ pending = FALSE

Exists(p) == p \in DOMAIN Home => <<Home[p], p>> \in disk

(* What ReadDirectory and Canonicalise find in d; dangling links are       *)
(* skipped.                                                                *)
Listing(d) == {p \in Paths : <<d, p>> \in disk /\ Exists(p)}

-----------------------------------------------------------------------------
Event == events < MaxEvents /\ events' = events + 1

(* Somebody changes something in the directories ds, of which d holds the  *)
(* entry; each one that is watched makes the descriptor readable.          *)
ChangeIn(d, ds) ==
  /\ Event
  /\ OnlyWatched => d \in watched
  /\ pending' = (pending \/ ds \cap watched # {})

Appear(d, p) ==
  /\ <<d, p>> \in Entries \ disk
  /\ Exists(d)
  /\ ChangeIn(d, {d})
  /\ disk' = disk \cup {<<d, p>>}
  /\ mtime' = IF p \in Files /\ Home[p] = d
                THEN [mtime EXCEPT ![p] = @ + 1] ELSE mtime
  /\ UNCHANGED watched

(* Only an empty directory can be removed, and its watch goes with it.     *)
Vanish(d, p) ==
  /\ <<d, p>> \in disk
  /\ LET gone == IF p \in DOMAIN Home /\ Home[p] = d THEN {p} ELSE {} IN
       /\ \A e \in disk : e[1] \notin gone
       /\ ChangeIn(d, {d} \cup gone)
       /\ watched' = watched \ gone
  /\ disk' = disk \ {<<d, p>>}
  /\ UNCHANGED mtime

Modify(f) ==
  /\ Exists(f)
  /\ ChangeIn(Home[f], {Home[f]})
  /\ mtime' = [mtime EXCEPT ![f] = @ + 1]
  /\ UNCHANGED <<disk, watched>>

ChangeDisk ==
  \/ \E e \in Entries : Appear(e[1], e[2]) \/ Vanish(e[1], e[2])
  \/ \E f \in Files : Modify(f)

-----------------------------------------------------------------------------
(* The scanner *)

CONSTANTS
  Flac,     \* for each file, the FLAC version looked for, or NoFile
  Songs,    \* for each playlist, the files it lists
  NoFile

Playlists == DOMAIN Songs

ASSUME ScannerAssumption ==
  /\ NoFile \notin Paths
  /\ Flac \in [Files -> Files \cup {NoFile}]
  /\ \A f \in Files : Flac[f] # NoFile => Flac[Flac[f]] = NoFile
  /\ Playlists \subseteq Files
  /\ \A l \in Playlists : Flac[l] = NoFile /\ Songs[l] \subseteq Files \ Playlists

RootId == 256        \* BROWSE_ROOT, 0x100
LowIds == 288        \* where AllocateID's first, empty gap is, 0x120
NoEnd  == 0          \* of a gap: stands for UINT_MAX, which no id comes near

NoIds == [x \in {} |-> x]

(* A map in which x has the value v, whether or not it had one.            *)
PutAt(map, x, v) == [y \in DOMAIN map \cup {x} |-> IF y = x THEN v ELSE map[y]]

IdsIn(db) == {db[p].id : p \in DOMAIN db}

(* A record as GetRecordForPath creates it, TYPE=PENDING: an mtime of 0    *)
(* matches no file.                                                        *)
Pending(id) == [id |-> id, type |-> "pending", mtime |-> 0,
                parent |-> 0, children |-> {}, high |-> 0]

(* AllocateID::Allocate, when its gap is used up, goes through all the ids *)
(* in use, upwards: a database collated by ID ignores the restriction to   *)
(* ids above the gap.  Should the first one be higher than what follows    *)
(* the gap, the ids up to it are free, or else those from the lowest id    *)
(* that follows one in use; and beyond the last one in use all are.        *)
FirstFree(l) ==
  LET ids == IdsIn(l.db) IN
  IF ids = {} \/ Min(ids) > l.end + 1 THEN l.end + 1
  ELSE Min({n + 1 : n \in ids} \ ids)

FindGap(l) ==
  LET first == FirstFree(l)
      above == {n \in IdsIn(l.db) : n > first} IN
  IF l.begin # l.end THEN l
  ELSE [l EXCEPT !.begin = first, !.end = IF above = {} THEN NoEnd ELSE Min(above)]

(* The record of a path, which is made, under m_mutex all the while, if    *)
(* there is none.  No id of the gap is compared with those in use again.   *)
GetRecordForPath(l, path) ==
  LET gap == IF path = Root THEN l ELSE FindGap(l)
      id  == IF path = Root THEN RootId ELSE gap.begin IN
  IF path \in DOMAIN l.db
    THEN [l EXCEPT !.map = PutAt(@, path, l.db[path].id)]
    ELSE [gap EXCEPT !.db    = PutAt(@, path, Pending(id)),
                     !.begin = IF path = Root THEN @ ELSE @ + 1,
                     !.map   = PutAt(@, path, id)]

Children(l, id) == IF id \in DOMAIN l.kids THEN l.kids[id] ELSE {}

AddChild(l, parent, id) ==
  [l EXCEPT !.kids = PutAt(@, parent, Children(l, parent) \cup {id})]

-----------------------------------------------------------------------------
(* OnEnterDirectory: what it leaves; the cookie is the id in the map.      *)
OnEnterDirectory(l, parent, path) ==
  IF path = Root THEN l
  ELSE LET found == GetRecordForPath(l, path)
           filed == [found EXCEPT !.db[path].parent = parent] IN
       AddChild(filed, parent, found.map[path])

(* OnLeaveDirectory, after its assertion: the directory's record is        *)
(* complete.                                                               *)
OnLeaveDirectory(l, cookie, path) ==
  [l EXCEPT !.db[path] = [@ EXCEPT !.type = "dir", !.children = Children(l, cookie)]]

(* OnFile, for a file whose mtime or size differs from the record's: the   *)
(* record is written again.  The tags are not modelled; they are read      *)
(* after mtime is written.                                                 *)
RewriteRecord(l, path, stamp, parent, flac) ==
  LET high == IF flac = NoFile THEN l.db[path].high ELSE l.map[flac] IN
  [l EXCEPT !.db[path] = [@ EXCEPT !.type = "file", !.mtime = stamp,
                                   !.parent = parent, !.high = high]]

(* OnFile, when all the entries of a playlist have been seen to.           *)
FinishPlaylist(l, path, id) ==
  [l EXCEPT !.db[path] = [@ EXCEPT !.type = "playlist", !.children = Children(l, id)]]

(* OnFinished deletes the records of the paths that this scan did not meet.*)
DeleteMissing(l) ==
  [l EXCEPT !.db = [p \in DOMAIN l.db \cap DOMAIN l.map |-> l.db[p]]]

(* StartScan forgets the last scan.                                        *)
Forget(l) == [l EXCEPT !.map = NoIds, !.kids = NoIds]

(* What a new process knows after ReadXML.                                 *)
KnownAtFirst(db, end) ==
  [db |-> db, begin |-> LowIds, end |-> end, map |-> NoIds, kids |-> NoIds]

Reload_AllFree(db) == KnownAtFirst(db, NoEnd)

Reload(db) == KnownAtFirst(db, LowIds)
=============================================================================
