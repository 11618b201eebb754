----------------------------- MODULE EmpegSync -----------------------------
(***************************************************************************)
(* What protocoltool -u does: it synchronises an Empeg car-player with the *)
(* local database.  The destination is then db::empeg::Database: a copy in *)
(* memory of the database the player made last, and a ProtocolClient by    *)
(* which every commit, deletion and file goes to the player.               *)
(*                                                                         *)
(* Each item is two files on the player: number|0 with its content and     *)
(* number|1 with its tags.  A file is prepared over one connection and     *)
(* written over another, the fast one.  The player does not look at them   *)
(* until it is told to rebuild its database, which the program does last   *)
(* of all, in a destructor, if it came to make the player writable.        *)
(*                                                                         *)
(* A run is one process and one synchronisation.  If the destination is no *)
(* player (attached is FALSE) the Synchroniser is alone, as in its tests.  *)
(***************************************************************************)
EXTENDS Synchroniser

CONSTANTS
  EmpegSources,  \* what the source may hold when it goes to a player
  MaxSessions,   \* bound: times the program is started for a player
  MaxTroubles    \* bound: those of them that go wrong

ASSUME EmpegAssumption == EmpegSources \subseteq Sources /\ {MaxSessions, MaxTroubles} \subseteq Nat

VARIABLES
  attached,  \* is the destination a player?
  device,    \* the player: its files, the database made of them, and whether it
             \* is writable and its user interface locked
  link,      \* the ProtocolClient: "none", "open", "closing" (in the destructor) or "lost"
  writing,   \* m_writing
  calls,     \* the calls of the client that the step in hand still has to make
  sessions, troubles,  \* counters
  amiss      \* history: what was not done at the end of a session, and not since

empegVars == <<attached, device, link, writing, calls, sessions, troubles, amiss>>
allVars == <<vars, empegVars>>

NoData == -1
PlayerEdits == 1   \* bound: changes of the source of a player

RootTags == [title |-> src[Root].title, kind |-> "list", length |-> 0, tags |-> 0]

EmpegInit ==
  /\ Init
  /\ attached \in BOOLEAN
  /\ attached => src \in EmpegSources
  /\ device = [files |-> (<<Root, 1>> :> RootTags)
                         @@ (<<Root, 0>> :> <<>>),
               db |-> (Root :> [title |-> src[Root].title, kind |-> "list", kids |-> <<>>, size |-> 0, tags |-> 0]),
               writable |-> FALSE, locked |-> FALSE]
  /\ link = "none" /\ writing = FALSE /\ calls = <<>> /\ sessions = 0 /\ troubles = 0 /\ amiss = {}

-----------------------------------------------------------------------------
(* The player *)

\* Its files that are whole.  A *1 file is an item's tags, a *0 file a list's
\* children or the size of a tune's data.
Has(f) == f \in DOMAIN device.files
Numbers == {Root} \union {f[1] : f \in {g \in DOMAIN device.files : g[2] = 1}}
Children(i) == IF Has(<<i, 0>>) THEN device.files[<<i, 0>>] ELSE <<>>
Data(i) == IF Has(<<i, 0>>) THEN device.files[<<i, 0>>] ELSE NoData

\* The database the player makes of its files: an item whose tags are not whole is
\* not in it, but there is always a root.
Tags(i) == IF Has(<<i, 1>>) THEN device.files[<<i, 1>>] ELSE RootTags
Rebuilt ==
  [i \in Numbers |->
    LET tags == Tags(i)
    IN [title |-> tags.title, kind |-> tags.kind, tags |-> tags.tags,
        kids |-> IF tags.kind = "list" THEN Children(i) ELSE <<>>,
        size |-> tags.length]]

\* What a call does to the player when it is granted.  A file that is prepared
\* is there again when all of it has come over the fast connection.
Without(gone(_)) == [f \in {g \in DOMAIN device.files : ~gone(g)} |-> device.files[f]]
Effect(c) ==
  CASE c.op = "lock"    -> [device EXCEPT !.locked = TRUE]
    [] c.op = "mount"   -> [device EXCEPT !.writable = TRUE]
    [] c.op = "delete"  -> [device EXCEPT !.files = Without(LAMBDA f : f[1] = c.file[1])]
    [] c.op = "prepare" -> [device EXCEPT !.files = Without(LAMBDA f : f = c.file)]
    [] c.op = "write"   -> [device EXCEPT !.files = (c.file :> c.data) @@ @]
    [] c.op = "rebuild" -> [device EXCEPT !.db = Rebuilt]
    [] c.op = "restart" -> [device EXCEPT !.locked = FALSE, !.writable = FALSE]
    [] OTHER            -> device

-----------------------------------------------------------------------------
(* db::empeg::Connection *)

Call(op) == [op |-> op]

\* EnsureWritable
EnsureWritable == IF writing THEN <<>> ELSE <<Call("lock"), Call("mount")>>

\* WriteFidFromString, or SetLength and CopyStream: Prepare; then StartFastWrite and
\* Write, which say on the fast connection which file it is and send it.
WriteFid(file, data) ==
  <<[op |-> "prepare", file |-> file], [op |-> "write", file |-> file, data |-> data]>>

\* RewriteData: the tags, and for a list the children.
RewriteData_NoList(i, rec) ==
  EnsureWritable \o WriteFid(<<i, 1>>, [title |-> rec.title, kind |-> rec.kind, tags |-> rec.tags,
                                        length |-> IF rec.kind = "list" THEN Len(rec.kids) ELSE rec.size])
RewriteData(i, rec) ==
  EnsureWritable
  \o WriteFid(<<i, 1>>, [title |-> rec.title, kind |-> rec.kind, tags |-> rec.tags,
                         length |-> IF rec.kind = "list" THEN Len(rec.kids) ELSE rec.size])
  \o (IF rec.kind = "list" THEN WriteFid(<<i, 0>>, rec.kids) ELSE <<>>)

Farewell == IF writing THEN <<Call("rebuild"), Call("restart")>> ELSE <<>>

\* What Init makes of the player's database: a list's children are not the
\* numbers that the playlists hold but their places, which no item has.
Loaded ==
  [i \in DOMAIN device.db |->
    LET rec == device.db[i]
    IN [title |-> rec.title, kind |-> rec.kind, size |-> rec.size, tags |-> rec.tags,
        kids |-> [k \in DOMAIN rec.kids |-> k - 1],
        data |-> IF rec.kind = "tune" THEN Data(i) ELSE 0]]

-----------------------------------------------------------------------------
(* The program *)

Troubled == troubles + stops < MaxTroubles /\ troubles' = troubles + 1
SameSync == UNCHANGED vars

\* The program starts, and Init reaches the player.  It does not matter whether
\* the fast connection is made now or before the first file.
Contact ==
  /\ attached /\ link = "none" /\ status # "running" /\ sessions < MaxSessions
  /\ link' = "open" /\ sessions' = sessions + 1
  /\ dest' = Loaded /\ status' = "idle"
  /\ UNCHANGED <<src, m, todo, clean, split, torn, edits, stops, attached, device, writing, calls, troubles, amiss>>

\* A step of the Synchroniser, with the calls that it makes after it.
Ready == attached => link = "open" /\ calls = <<>>
Calls(cs) == calls' = (IF attached THEN cs ELSE <<>>)
                 /\ UNCHANGED <<attached, device, link, writing, sessions, troubles, amiss>>

SyncBegin  == Ready /\ (attached => status = "idle") /\ Begin /\ Calls(<<>>)
SyncDelete == Ready /\ Delete /\ Calls(EnsureWritable \o <<[op |-> "delete", file |-> <<Item, 0>>]>>)
SyncGather == Ready /\ GatherAdditions /\ Calls(<<>>)
SyncList   == Ready /\ CopyPlaylist /\ Calls(RewriteData(m.s2d[Item], dest'[m.s2d[Item]]))
SyncAmend  == Ready /\ AmendTune /\ Calls(RewriteData(m.s2d[Item], dest'[m.s2d[Item]]))
SyncAdd    == Ready /\ AddTune /\ Calls(RewriteData(m.s2d[Item], dest'[m.s2d[Item]]))
SyncCopy   == Ready /\ CopyStream /\ Calls(EnsureWritable \o WriteFid(<<m.s2d[Item], 0>>, src[Item].size))

\* Synchronise returns, with success or with the error of something else than
\* the player: the destructor says farewell.
Leaves == IF attached THEN link' = "closing" /\ calls' = Farewell ELSE UNCHANGED <<link, calls>>
SyncDone == Ready /\ Done /\ Leaves /\ UNCHANGED <<attached, device, writing, sessions, troubles, amiss>>
SyncStop == Ready /\ (attached => troubles + stops < MaxTroubles) /\ Stop /\ Leaves /\ UNCHANGED <<attached, device, writing, sessions, troubles, amiss>>

\* A call is made and granted.
First == calls[1]
Granted ==
  /\ calls # <<>> /\ link \in {"open", "closing"}
  /\ device' = Effect(First)
  /\ writing' = (writing \/ First.op = "mount")
  /\ amiss' = (CASE First.op = "rebuild" -> amiss \ {"database"} [] First.op = "restart" -> amiss \ {"locked"}
                 [] OTHER -> amiss)
  /\ calls' = Tail(calls)
  /\ SameSync /\ UNCHANGED <<attached, link, sessions, troubles>>

\* After an error Synchronise gives up, the program ends: what the destructor
\* calls goes to the player if it is still there.
Unfinished == {calls[k].file[1] : k \in {j \in DOMAIN calls : calls[j].op = "write"}}

Abandon ==
  IF status = "running"
  THEN /\ status' = "idle" /\ m' = Fresh /\ todo' = <<>>
       /\ torn' = torn \union Unfinished
       /\ UNCHANGED <<src, dest, clean, split, edits, stops>>
  ELSE SameSync

GivesUp == calls' = Farewell /\ link' = "closing" /\ Abandon

\* The player says no.  It does not matter to LockUI, nor to the destructor.
Refused ==
  /\ calls # <<>> /\ link \in {"open", "closing"} /\ First.op # "write" /\ Troubled
  /\ IF First.op = "lock" \/ link = "closing"
     THEN calls' = Tail(calls) /\ UNCHANGED link /\ SameSync
     ELSE GivesUp
  /\ amiss' = amiss \union (CASE First.op = "rebuild" -> {"database"}
                              [] First.op \in {"mount", "restart"} -> {"locked"} [] OTHER -> {})
  /\ UNCHANGED <<attached, device, sessions, writing>>

\* The fast connection fails, in the middle of a file perhaps; or the file that
\* is copied cannot be read.
FastFails ==
  /\ calls # <<>> /\ link = "open" /\ First.op \in {"start", "write"} /\ Troubled
  /\ GivesUp
  /\ UNCHANGED <<attached, device, writing, sessions, amiss>>

\* The connection fails, or the program is killed: nobody hears the farewell.
Lost ==
  /\ link \in {"open", "closing"} /\ Troubled
  /\ link' = "lost" /\ calls' = <<>>
  /\ amiss' = IF writing \/ calls # <<>> THEN {"database", "locked"} ELSE amiss
  /\ Abandon
  /\ UNCHANGED <<attached, device, sessions, writing>>

\* The process is gone.
Exit ==
  /\ link = "lost" \/ (link = "closing" /\ calls = <<>>)
  /\ link' = "none" /\ writing' = FALSE
  /\ SameSync /\ UNCHANGED <<attached, device, calls, sessions, troubles, amiss>>

UserEdit ==
  /\ link = "none" /\ Edit
  /\ attached => edits < PlayerEdits /\ src' \in EmpegSources
  /\ UNCHANGED empegVars

EmpegNext ==
  \/ SyncBegin \/ SyncDelete \/ SyncGather \/ SyncList \/ SyncAmend \/ SyncAdd \/ SyncCopy \/ SyncDone \/ SyncStop
  \/ Contact \/ Granted \/ Refused \/ FastFails \/ Lost \/ Exit \/ UserEdit

EmpegSpec == EmpegInit /\ [][EmpegNext]_allVars
-----------------------------------------------------------------------------
Between == attached /\ link = "none"

(* A session that failed anywhere leaves the player in order, if the player heard *)
(* the farewell and the refused call was not the mount: with a database that says *)
(* what its files say, its interface unlocked, and each tune's data whole unless  *)
(* its copying was interrupted.                                                   *)
PlayerInOrder ==
  Between =>
    /\ "database" \notin amiss => device.db = Rebuilt
    /\ "locked" \notin amiss => ~device.locked /\ ~device.writable
    /\ ~split => \A i \in Numbers \ torn :
                    Tags(i).kind = "tune" => Data(i) = Tags(i).length

\* What the player shows after a synchronisation is what the source holds, though
\* it reads nothing but the files that were sent to it, under numbers that mean
\* nothing to the source, and though it was never told that its database had been
\* misread: if the farewell was heard, and no two items of the source were matched
\* with one.  And whatever happened, it is in order.
PlayerMirrors ==
  /\ PlayerInOrder
  /\ Between /\ status = "done" /\ clean /\ amiss = {} => Picture(device.db, Root) = SourcePicture
=============================================================================
