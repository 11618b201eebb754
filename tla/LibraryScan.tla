----------------------------- MODULE LibraryScan -----------------------------
(***************************************************************************)
(* How choraled keeps its database in step with the media directories:     *)
(*                                                                         *)
(*   util::DirectoryWalker    (src/libutil/walker.cpp)                     *)
(*   db::local::FileScanner   (src/libdblocal/file_scanner.cpp)            *)
(*   db::local::DatabaseUpdater (src/libdblocal/database_updater.cpp)      *)
(*   import::FileNotifierTask (src/libimport/file_notifier.cpp)            *)
(*                                                                         *)
(* A scan is a tree of tasks on a thread pool, one for each directory      *)
(* entry met; a task is known by its chain, the paths from the root to its *)
(* own.  A directory's task lives until its children's are gone, the last  *)
(* one to go ends the scan, on its own thread, and the updater then saves  *)
(* the database and starts the next scan if anything changed meanwhile.    *)
(* Each step is one critical section of a task, or of the poller's thread; *)
(* the pool may have any number of threads.                                *)
(***************************************************************************)
EXTENDS FileScanner, Sequences, SequencesExt

VARIABLES
  lib,        \* what the scanner knows (see FileScanner)
  saved,      \* the database file, written by rename
  task,       \* the tasks of the current scan, by their chain
  scanning,   \* FileScanner::Impl::m_scanning
  busy,       \* DatabaseUpdater::m_scanning
  changed,    \* DatabaseUpdater::m_changed
  listening,  \* has FileNotifierTask::Init been called?
  ending,     \* where OnFinished is: "no", "sweep", "save" or "conclude"
  failed,     \* did a system call fail?
  aborted     \* an assert() failed

scanVars == <<lib, saved, task, scanning, busy, changed, listening, ending,
              failed, aborted>>
allVars == <<treeVars, events, scanVars>>

-----------------------------------------------------------------------------
(* A call of OnFile on the stack of a task, its arguments first.           *)
Call(path, parent) ==
  [path |-> path, parent |-> parent, mtime |-> mtime[path],
   at |-> "look", id |-> 0, flac |-> NoFile, todo |-> {}]

(* The task of a directory has no call on its stack, that of a file has at *)
(* least one.                                                              *)
DirTask == [at |-> "queued", id |-> 0, calls |-> <<>>]
FileTask(path, parent) == [at |-> "file", id |-> 0, calls |-> <<Call(path, parent)>>]

RootTask == [c \in {<<Root>>} |-> DirTask]

ScanTypeOK ==
  /\ TreeTypeOK
  /\ DOMAIN lib.db \subseteq Paths /\ DOMAIN saved \subseteq Paths
  /\ \A db \in {lib.db, saved} : \A p \in DOMAIN db :
       /\ db[p].type \in {"pending", "file", "playlist", "dir"}
       /\ db[p].mtime \in 0 .. MaxEvents + 1
       /\ db[p].id \in Nat \ {0}
  /\ DOMAIN lib.map \subseteq DOMAIN lib.db
  /\ \A c \in DOMAIN task :
       /\ c \in Seq(Paths) /\ c[1] = Root
       /\ IF Last(c) \in Files
            THEN task[c].at = "file" /\ task[c].calls # <<>>
            ELSE task[c].at \in {"queued", "waiting"} /\ task[c].calls = <<>>
  /\ {scanning, busy, changed, listening, failed, aborted} \subseteq BOOLEAN
  /\ ending \in {"no", "sweep", "save", "conclude"}

ScanInit ==
  /\ TreeInit
  /\ lib = Reload(NoIds)
  /\ saved = NoIds
  /\ task = RootTask
  /\ scanning = TRUE /\ busy = TRUE /\ changed = FALSE
  /\ listening = FALSE
  /\ ending = "no"
  /\ failed = FALSE
  /\ aborted = FALSE

(* A system call fails.                                                    *)
Fail == Event /\ failed' = TRUE

NoFailure == UNCHANGED <<events, failed>>

-----------------------------------------------------------------------------
(* Directory tasks (walker.cpp).                                           *)

Parent(c) == Front(c)

Looped(c) == \E i \in 1 .. Len(c) - 1 : c[i] = Last(c)

(* Run.  A path that is already on the way from the root is not entered:   *)
(* its task keeps the cookie 0.  Any other is: OnEnterDirectory, then a    *)
(* task for every entry that ReadDirectory finds, each holding a reference *)
(* to this one.  (Nothing that others read before this task is left is     *)
(* written in between.)  Should ReadDirectory fail, Run returns its error, *)
(* which nobody looks at.                                                  *)
Enter(c) ==
  LET path   == Last(c)
      parent == IF Len(c) = 1 THEN 0 ELSE task[Parent(c)].id
      after  == OnEnterDirectory(lib, parent, path)
      id     == IF path = Root THEN RootId ELSE after.map[path]
      inside == {Append(c, p) : p \in Listing(path)}
      new(n) == IF Last(n) \in Dirs THEN DirTask ELSE FileTask(Last(n), id)
      here   == [task EXCEPT ![c] = [@ EXCEPT !.at = "waiting", !.id = id]] IN
  /\ task[c].at = "queued"
  /\ IF Looped(c)
       THEN task' = [task EXCEPT ![c].at = "waiting"] /\ NoFailure /\ UNCHANGED lib
       ELSE /\ lib' = after
            /\ \/ /\ task' = [n \in DOMAIN task \cup inside |->
                                IF n \in inside THEN new(n) ELSE here[n]]
                  /\ NoFailure
               \/ task' = here /\ Fail
  /\ UNCHANGED <<treeVars, saved, scanning, busy, changed, listening, ending, aborted>>

HasChildren(c) == \E n \in DOMAIN task : Len(n) > 1 /\ Parent(n) = c

WithoutTask(c) == [n \in DOMAIN task \ {c} |-> task[n]]

(* ~DirectoryTask, when the last reference to it has gone: OnLeaveDirectory*)
(* and, for the root, whose task is always the last one, OnFinished.       *)
Leave(c) ==
  /\ task[c].at = "waiting"
  /\ ~HasChildren(c)
  /\ LET path  == Last(c)
         found == GetRecordForPath(lib, path) IN
       IF found.map[path] # task[c].id
         THEN /\ aborted' = TRUE
              /\ lib' = found
              /\ UNCHANGED <<treeVars, task, ending>>
         ELSE /\ lib' = OnLeaveDirectory(found, task[c].id, path)
              /\ watched' = IF listening /\ Exists(path)
                              THEN watched \cup {path} ELSE watched
              /\ task' = WithoutTask(c)
              /\ ending' = IF Len(c) = 1 THEN "sweep" ELSE ending
              /\ UNCHANGED <<disk, mtime, pending, aborted>>
  /\ UNCHANGED <<events, failed, saved, scanning, busy, changed, listening>>

-----------------------------------------------------------------------------
(* File tasks (FileScanner::Impl::OnFile); the innermost call is the first *)
(* on the task's stack.                                                    *)

AtStep(c, step) == task[c].at = "file" /\ task[c].calls[1].at = step

SetCall(c, k) == [task EXCEPT ![c].calls[1] = k]

Nested(c, k, inner) == [task EXCEPT ![c].calls = <<inner, k>> \o Tail(@)]

onlyOnFile == <<treeVars, events, failed, saved, scanning, busy, changed, listening,
                ending, aborted>>

(* A path already met in this scan has its id in m_map.                    *)
LookInMap(c) ==
  /\ AtStep(c, "look")
  /\ LET k == task[c].calls[1] IN
       task' = SetCall(c, IF k.path \in DOMAIN lib.map
                            THEN [k EXCEPT !.at = "link", !.id = lib.map[k.path]]
                            ELSE [k EXCEPT !.at = "record"])
  /\ UNCHANGED <<onlyOnFile, lib>>

(* GetRecordForPath, then OnFile for the FLAC version if there is one.     *)
FindRecord(c) ==
  /\ AtStep(c, "record")
  /\ LET k     == task[c].calls[1]
         after == GetRecordForPath(lib, k.path)
         flac  == Flac[k.path]
         next  == [k EXCEPT !.at = "compare", !.id = after.map[k.path]] IN
       /\ lib' = after
       /\ task' = IF flac # NoFile /\ Exists(flac)
                    THEN Nested(c, [next EXCEPT !.flac = flac], Call(flac, 0))
                    ELSE SetCall(c, next)
  /\ UNCHANGED onlyOnFile

(* A record whose mtime is the file's is left as it is; otherwise it is    *)
(* written, and a playlist's entries are looked up.                        *)
CompareFile(c) ==
  /\ AtStep(c, "compare")
  /\ LET k == task[c].calls[1] IN
       IF lib.db[k.path].mtime = k.mtime
         THEN /\ task' = SetCall(c, [k EXCEPT !.at = "link"])
              /\ UNCHANGED lib
         ELSE /\ lib' = RewriteRecord(lib, k.path, k.mtime, k.parent, k.flac)
              /\ task' = SetCall(c, IF k.path \in Playlists
                            THEN [k EXCEPT !.at = "songs", !.todo = Songs[k.path]]
                            ELSE [k EXCEPT !.at = "link"])
  /\ UNCHANGED onlyOnFile

(* OnFile for an entry of the playlist, if it exists.                      *)
NextSong(c) ==
  /\ AtStep(c, "songs")
  /\ LET k == task[c].calls[1] IN
       \E s \in k.todo :
         LET rest == [k EXCEPT !.todo = @ \ {s}] IN
         task' = IF Exists(s) THEN Nested(c, rest, Call(s, k.id)) ELSE SetCall(c, rest)
  /\ UNCHANGED <<onlyOnFile, lib>>

EndPlaylist(c) ==
  /\ AtStep(c, "songs")
  /\ LET k == task[c].calls[1] IN
       /\ k.todo = {}
       /\ lib' = FinishPlaylist(lib, k.path, k.id)
       /\ task' = SetCall(c, [k EXCEPT !.at = "link"])
  /\ UNCHANGED onlyOnFile

(* The id is filed under the parent's, and OnFile returns; with the first  *)
(* call the task is over.                                                  *)
LinkToParent(c) ==
  /\ AtStep(c, "link")
  /\ LET k == task[c].calls[1] IN
       lib' = IF k.parent = 0 THEN lib ELSE AddChild(lib, k.parent, k.id)
  /\ task' = IF Len(task[c].calls) = 1 THEN WithoutTask(c)
             ELSE [task EXCEPT ![c].calls = Tail(@)]
  /\ UNCHANGED onlyOnFile

OnFile(c) == \/ LookInMap(c) \/ FindRecord(c) \/ CompareFile(c)
             \/ NextSong(c) \/ EndPlaylist(c) \/ LinkToParent(c)

-----------------------------------------------------------------------------
(* FileScanner::StartScan, called with DatabaseUpdater's mutex held: a     *)
(* walk of the root, unless stat says that it is not there.                *)
StartScan ==
  IF scanning
    THEN aborted' = TRUE /\ NoFailure /\ UNCHANGED <<lib, task, scanning>>
    ELSE /\ lib' = Forget(lib)
         /\ scanning' = TRUE
         /\ \/ task' = RootTask /\ NoFailure
            \/ Fail /\ UNCHANGED task
         /\ UNCHANGED aborted

(* FileScanner::OnFinished.                                                *)
Sweep ==
  /\ ending = "sweep"
  /\ lib' = DeleteMissing(lib)
  /\ scanning' = FALSE
  /\ ending' = "save"
  /\ UNCHANGED <<treeVars, events, failed, saved, task, busy, changed, listening,
                 aborted>>

(* DatabaseUpdater::OnFinished writes a temporary file and renames it.     *)
Save ==
  /\ ending = "save"
  /\ saved' = lib.db
  /\ ending' = "conclude"
  /\ UNCHANGED <<treeVars, events, failed, lib, task, scanning, busy, changed,
                 listening, aborted>>

(* The file cannot be opened, which is ignored, or cannot be written, where*)
(* OnFinished returns at once.                                             *)
SaveFails ==
  /\ ending = "save"
  /\ Fail
  /\ ending' \in {"conclude", "no"}
  /\ UNCHANGED <<treeVars, lib, saved, task, scanning, busy, changed, listening,
                 aborted>>

(* The rest of OnFinished, under the updater's mutex.                      *)
Conclude ==
  /\ ending = "conclude"
  /\ ending' = "no"
  /\ IF changed
       THEN changed' = FALSE /\ StartScan /\ UNCHANGED busy
       ELSE busy' = FALSE /\ NoFailure /\ UNCHANGED <<changed, lib, task, scanning, aborted>>
  /\ UNCHANGED <<treeVars, saved, listening>>

-----------------------------------------------------------------------------

OnChange_Forgets ==
  IF busy
    THEN NoFailure /\ UNCHANGED <<changed, busy, lib, task, scanning, aborted>>
    ELSE busy' = TRUE /\ changed' = FALSE /\ StartScan

(* DatabaseUpdater::OnChange                                               *)
OnChange ==
  IF busy
    THEN changed' = TRUE /\ NoFailure /\ UNCHANGED <<busy, lib, task, scanning, aborted>>
    ELSE busy' = TRUE /\ changed' = FALSE /\ StartScan

(* FileNotifierTask::Run drains the descriptor and calls OnChange.         *)
NotifierRun ==
  /\ listening /\ pending
  /\ pending' = FALSE
  /\ OnChange
  /\ UNCHANGED <<disk, mtime, watched, saved, listening, ending>>

(* SIGHUP                                                                  *)
ForceRescan ==
  /\ OnChange
  /\ UNCHANGED <<treeVars, saved, listening, ending>>

(* The constructor of DatabaseUpdater starts a scan first and only then    *)
(* opens the inotify descriptor; a Watch before that has none.             *)
NotifierInit ==
  /\ ~listening
  /\ listening' = TRUE
  /\ UNCHANGED <<treeVars, events, failed, lib, saved, task, scanning, busy, changed,
                 ending, aborted>>

(* The server stops at any point and is started again.                     *)
Restart ==
  /\ Event
  /\ lib' = Reload(saved)
  /\ task' = RootTask
  /\ scanning' = TRUE /\ busy' = TRUE /\ changed' = FALSE
  /\ listening' = FALSE
  /\ ending' = "no"
  /\ watched' = {} /\ pending' = FALSE
  /\ UNCHANGED <<disk, mtime, saved, failed, aborted>>

-----------------------------------------------------------------------------
WalkerRuns ==
  \/ \E c \in DOMAIN task : Enter(c) \/ Leave(c) \/ OnFile(c)
  \/ Sweep \/ Save \/ Conclude

World == ChangeDisk /\ UNCHANGED scanVars

ScanNext ==
  /\ ~aborted
  /\ \/ WalkerRuns \/ SaveFails
     \/ NotifierInit \/ NotifierRun \/ ForceRescan
     \/ Restart \/ World

ScanSpec == ScanInit /\ [][ScanNext]_allVars

(* The pool runs its tasks, the constructor goes on, and the poller calls  *)
(* the notifier when the descriptor stays readable.                        *)
FairSpec ==
  /\ ScanSpec
  /\ WF_allVars(~aborted /\ WalkerRuns)
  /\ WF_allVars(~aborted /\ NotifierInit)
  /\ WF_allVars(~aborted /\ NotifierRun)

-----------------------------------------------------------------------------
(* No assertion of the scanner fails: a directory is left with the id it   *)
(* was entered with (file_scanner.cpp:411), and no scan starts during      *)
(* another (430).                                                          *)
AssertionsHold == ~aborted

(* "Both the ID and the PATH should be unique in the database"             *)
(* (file_scanner.cpp:432): ids that AllocateID gives out never collide     *)
(* with those of the records read from the database file, which earlier    *)
(* runs of the server gave out.                                            *)
UniqueIds ==
  \A p, q \in DOMAIN lib.db : lib.db[p].id = lib.db[q].id => p = q

(* A directory record's CHILDREN are records, at every moment of a scan    *)
(* and after it: what OnFinished deletes, no directory still lists.        *)
NoDanglingChildren ==
  \A p \in DOMAIN lib.db \cap Dirs : lib.db[p].children \subseteq IdsIn(lib.db)

(* Whatever scans, changes and restarts come together, the records fit one *)
(* another.                                                                *)
RecordsAreConsistent == ScanTypeOK /\ AssertionsHold /\ UniqueIds /\ NoDanglingChildren

(* What a walk of the disk as it is would reach.                           *)
Reachable ==
  LET within[n \in Nat] ==
        IF n = 0 THEN {Root}
        ELSE within[n - 1] \cup UNION {Listing(d) : d \in within[n - 1] \cap Dirs} IN
  within[Cardinality(Dirs)]

BesideThem ==
  LET files == Reachable \cap Files IN
  {Flac[f] : f \in files} \cup UNION {Songs[l] : l \in files \cap Playlists}

MatchesDisk(db) ==
  /\ Reachable \subseteq DOMAIN db
  /\ DOMAIN db \subseteq Reachable \cup BesideThem
  /\ \A f \in Reachable \cap Files : db[f].mtime = mtime[f]
  /\ \A d \in Reachable \cap Dirs :
       /\ db[d].type = "dir"
       /\ db[d].children = {db[p].id : p \in Listing(d)}

(* After the last change to a watched directory the database comes to      *)
(* match the disk, its file too, and stays so during later scans, whenever *)
(* the change came and wherever a restart fell (unless a system call       *)
(* failed).                                                                *)
FollowsDisk == <>[](~failed => MatchesDisk(lib.db) /\ saved = lib.db)
=============================================================================
