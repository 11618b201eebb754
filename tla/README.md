# chorale: models, checks and proofs

Chorale is a media server, player and ripper: `choraled` scans directories of music, serves them by
UPnP and to Rio Receivers, plays queues of tracks and rips CDs. This directory holds TLA+ modules
for the parts of it that run concurrently and keep state, the TLC configurations that check them on
small instances, and TLAPS proofs of some of their properties for every instance. Line numbers
refer to the sources in `../src`. `PROJECT.json` lists the runs, the definitions with the code
lines they stand for, the mutations each property is known to catch, the hazards and the
theorems.

Contents: 1 the system; 2 the modules; 3 the runs; 4 proofs; 5 what disagrees with the code's own
claims; 6 what is left out; 7 plan.

## 1. The system

| part | state | operations | who else is involved |
|---|---|---|---|
| **worker pool** `libutil/worker_thread_pool` | task deque, count of waiting threads, thread and dead-thread lists, thread limit | `PushTask`, `PopTask`, `Shutdown`, `Count` | everything that runs in the background |
| **background scheduler** `libutil/scheduler`, `poll_posix`, `scheduler_task` | waits for handles, timers, the array given to `poll()`, waker pipe | `WaitForReadable/Writable`, `Wait`, `Remove`, `Wake`, `Shutdown`, `Poll` | HTTP, SSDP, inotify, DVB, user interface |
| **write buffer** `libutil/async_write_buffer` | two buffers, which one is filled, busy flags, an error | `WriteAt`, `ReadAt`, `SetLength`, destructor, task | encoders, on a worker pool |
| **playback queue** `liboutput/queue` | entries, playing order, current index, expected URLs, play state | insert, remove, shuffle, seek, play state; `OnURL`, `OnPlayState` | user interface thread, player thread |
| **GStreamer player** `liboutput/gstreamer` | URL, next URL, last state | `SetURL`, `SetNextURL`, `SetPlayState`, about-to-finish | the queue, as observer |
| **directory walker** `libutil/walker` | a counted tree of tasks | `Walk`, directory and file tasks | worker pool, scanner |
| **file scanner** `libdblocal/file_scanner` | `m_map`, `m_children`, `m_scanning` | `StartScan`, `OnFile`, `OnEnterDirectory`, `OnLeaveDirectory`, `OnFinished` | walker, database, notifier |
| **database updater**, **file notifier** `libdblocal/database_updater`, `libimport/file_notifier` | scanning and changed flags, the database file, inotify watches | `OnChange`, `OnFinished`, `ForceRescan`; `Init`, `Watch`, `Run` | scheduler, scanner |
| **ripping pipeline** `libutil/multi_stream`, `libimport/*_task`, `ripping_control` | one input and several output positions, encoder states, rename stage | `Write`, `Read`, `Wait`, `Run`, `RenameAndTag` | both pools, CD drive |
| **HTTP client, fetcher, stream** `libutil/http_client`, `http_fetcher`, `http_stream` | a state and a line buffer per connection | `Connect`, `Run`, `OnDone`; `FetchToString`; `ReadAt`, `Seek` | scheduler, sockets |
| **HTTP server** `libutil/http_server` | a state, a range, a stream and a body per connection | accept, `Run`, `OnActivity` | scheduler, pool, content factories |
| **SSDP** `libupnp/ssdp` | searches, who is known, advertisements and their timers, two sockets | `Search`, `Advertise`, `OnActivity`, `OnTimer`, destructor | scheduler; all UPnP clients and devices |
| **eventing, remote players** `libupnp/server`, `client`, `libupnpd/avtransport`, `liboutput/upnpav` | subscriptions and their keys; SIDs; what the player was told | subscribe, fire, notify; `Init`, commands | HTTP both ways |
| **database engine** `libdbsteam` | records, string and integer indexes, record sets | add, set, get, delete, `Commit`; `Execute`, `MoveNext` | scanner, services |
| **tag rewriting** `libdblocal/tag_serialiser`, `libimport/tags` | who needs a rewrite, whose task runs | `Commit`, `Rewrite`, `Run`; `Write` | scanner and editor; a worker pool |
| **tag editor** `libchoralecd/tag_editor_widget` | a sorted table, the rows to save | `SetNode`, `commitData` | the user, the local database |
| **synchroniser** `libmediadb/sync` | two databases, sets of what to add, amend and delete | `Synchronise` | empeg tools |
| **empeg database and protocol** `libdbempeg`, `libempeg`, `protocoltool -u` | a copy of the player's database, `m_writing`; two connections; on the player, files and the database made of them | `Init`, `RewriteData`, `Delete`, `OpenWrite`, destructor; `Prepare`, `Write`, commands | synchroniser |
| **remote library** `libdbupnp` | object ids and their numbers, what was listed last, search capabilities, a lock; a page and a position per record set | `Init`, `Execute`, `GetTags`, `GetChildren`, `MoveNext` | media tree, player; the server's content directory |
| **content directory, merged database** `libupnpd/content_directory`, `search`, `libmediadb/didl`, `libdbmerge` | the slots of the databases | `Browse`, `Search`; `AddDatabase`, queries | all UPnP clients; local and Receiver databases |
| **Receiver library** `libreceiverd/content_factory`, `libdbreceiver` | the tag map of a connection; what a record set has fetched, and where it is | requests for lists, tags, queries and tunes; `Init`, `Execute`, `MoveNext`, `GetChildren` | Rio Receivers; the merged database; HTTP |
| Receiver boot server, television back ends | archives; DVB hardware | requests, recordings | scheduler, HTTP |
| **XML** `libutil/xml`, `libmediadb/xml`, `libupnp/soap`, `libmediadb/didl`, `libimport/playlist_*` | a buffer and a state; what the observer has met | `Parse`, `WriteAll`; `WriteXML`, `Save`, `CreateBody`, `FromRecord` | everything that reads files or messages |
| other services, schema, descriptions | almost none | translation | the above |
| user interface, programs | windows | — | everything |

**How they interact.** Work is moved between threads in two ways: a *task* pushed to a worker pool
(walker, write buffer, encoders, connections), and a *callback* the scheduler's thread makes when a
handle or timer is ready. Components tell others what happened through `util::Observable`, which
calls the observers with a (non-recursive) lock held. Processes talk by HTTP (content, SOAP, one
connection per event) and by UDP multicast (SSDP). Almost every component has one mutex and releases
it before it calls another.

**What is hard.** The gaps between critical sections (a push is five of them, a change of the
playing track four); callbacks that arrive for something since removed, or before the call that
asked for them has returned; a failure that leaves a flag set which everybody waits for; scans that
overlap with the changes they are meant to notice; connections whose data arrive in any pieces;
notifications that are lost or overtake each other; walks through tables that others change; indices
and ids that must survive long sequences of edits, or a restart.

**What makes each part correct.** The pool runs every task once, never exceeds its limit and stops
cleanly; the scheduler loses no wait and calls nothing that was removed; the write buffer cannot be
told from the stream beneath it; the queue's order is a permutation and its index is on the track
that plays; a scan's records are closed under CHILDREN, have unique ids and end up matching the
disk; every HTTP request has its own answer, in order, and whoever asked is told once how it went; a
file is renamed once and not while it is written; who looks for a service finds it and forgets it
when it goes; a remote player shows what the renderer does; an index says what the records say, and
a walk misses nobody; what is
committed ends up in the file, one task at a time; after a synchronisation both sides are alike, and a
player that was synchronised shows what it was sent; what a client lists, looks up and
finds in a server's library is what is there.

## 2. The modules

### TaskExecutor, WorkerThreadPool
`TaskExecutor` is what the users of a pool rely on: a task is pending, runs, is finished, at most
once, and nothing runs once the executor is closed. `WorkerThreadPool` is the code, one action per
critical section. `BeginPush`, `ReapDeadThreads`, `Look`, `SuggestNewThread` and `Push` are the
five parts of `PushTask`; `EnterPop`, `WakeUp` and `ResumePop` are `PopTask` with its timed wait;
`FinishTask`, `Quit` and `Exit` end a task and a thread; `BeginShutdown` to `Destroy` are
`Shutdown` and the destructor. `Executor == INSTANCE TaskExecutor WITH ...` maps the deque and what
threads hold to the abstract sets. The mutex is a predicate (`MutexFree`) because only `Shutdown`
holds it over several steps.

### ByteFile, AsyncWriteBuffer
`ByteFile` is a stream of bytes with one caller (`libutil/stream`): writes, reads, changes of
length, close. `AsyncWriteBuffer` splits each call at the places where it looks at the busy flags:
`Begin`, `Flush` (SynchronousFlush and what the call does after it), `ChooseBuffer`, `Copy`; the
tasks are `StartTask`, `Write`, `Release`. It implements `ByteFile` with the contents of both
buffers laid over the file (`WithBuffers`) until a write fails.

### OutputQueue
Editing actions take the queue's mutex once. What follows — choose the track, note the URL as
expected, tell the player — is a list of steps (`job`) per thread, since the mutex is released
between them. `AboutToFinish`, `FireOnURL` and `OnPlayState` are the player. Positions count from 1.
Tracks are unique in a queue (the code compares URLs; section 5 says what happens otherwise).

### BackgroundScheduler
`Poll()` is split at its unlocks: the deadline, `SetUp` of the array, sleeping, `Sampled` time,
one `DueTimer` at a time, `DoCallbacks`, `CallbackReturns`, `DropDone`. `m_array_valid`, the copy of
the reported callbacks and the marking of one-shot records are as in the code. Client calls come
from other threads whenever the lock is free, or from the callback that runs, and a task may wait for
two handles, as the SSDP responder does. `RemoveFirst` takes away one record, as the code does; `gone`
remembers what the last `Remove` of a task came to: "partly" when another record is left, "leaving" when
the round under way has collected its callback, or "gone". Readable and writable
handles are alike; `ready` and the clock are the environment.

### FileScanner, LibraryScan
`FileScanner` has the world: directory entries (the home of a path, or a symbolic link to it), mtimes,
inotify watches and whether an event is waiting. Of the scanner it has no variables: its operators are
the callbacks, from what the scanner knows (`db`, `map`, `kids`, and the gap `begin`..`end` that AllocateID
found) to what it knows afterwards. `FindGap` looks for a gap, among all the ids, as its query ignores
its restriction; the ids in it are then given out and compared with nothing. `LibraryScan` is the state machine:

* a *task* is known by its chain of paths from the root, so a directory's task is alive while a
  longer chain is (the reference a child holds). `Enter` is `DirectoryTask::Run` with the loop
  check, `Leave` its destructor with `OnLeaveDirectory`;
* a file's task has a stack of `OnFile` calls, since `OnFile` calls itself for the FLAC version of
  a file and for the songs of a playlist; `LookInMap`, `FindRecord`, `CompareFile`, `NextSong`,
  `EndPlaylist` and `LinkToParent` are its critical sections;
* `Sweep`, `Save`/`SaveFails` and `Conclude` are the two `OnFinished`, on the thread that dropped
  the last task; `NotifierRun` and `ForceRescan` are `OnChange`; `Restart` is a crash at any
  moment, of which only the database file survives.

Left out of it: tags and titles, the order of CHILDREN, a change of the configured root, the
walker's `stop` flag (no observer in choraled returns an error), `WaitForCompletion`.

### HttpConnection, HttpServer, HttpClient, HttpStream, HttpSession
`HttpConnection` is one TCP connection: two bounded directions of *tokens* — a line of a request or
an answer, or one byte of a body; what a header says is kept, its wording is not. `Taken` and `Sent`
are partial reads and writes; `Lines`, `AfterLines` and `ReadLeftovers` are `GreedyLineReader`, whose
buffer is bounded and keeps what was read beyond a line.

* `HttpServer` is `Server::DataTask`: each disjunct is one turn of the loop in `Run`, from one
  `EWOULDBLOCK` to the next; `OnActivity` is the pool's thread that runs it again. `CHECKING` is the
  IP filter; the source of a growing file may have nothing yet, and the task then waits on it. Reading
  what is being sent may fail (`SourceFails`, for the paths in `Failing`): the connection ends in the
  middle of the length that was announced.
* `HttpClient` is `Client::Task` with all its states, and the Fetcher's loop around it: a recipient
  that polls for itself and may give up after its timeout. `told` is what its owner learns, from
  Connect's return value and from `OnDone`, and what FetchToString makes of the two (`FetchReturns`).
* `HttpStream` is `http::Stream`: reads that follow on from each other share an answer, others
  open a new connection with a range.
* `HttpSession` composes the server with one of the others, or with a *raw* program that sends any
  script of requests, pipelined, and it lets the connection be lost (`Reset`).

`Answer(r)` is what HTTP says the answer to a request is; answers are compared with it but for the
total in a Content-Range, for which the server puts the length of the range (section 5).
`SessionAssumption` says what requests there are: a range ends where it begins or later, and nobody
asks a control service for part of its answer.

### MultiStream, Ripping
`MultiStream` is a stream with one writer and several readers. Its writer's loop over the callbacks
is several steps, because it swaps each callback out without the lock under which a reader stores
one; `lost` remembers the callbacks destroyed that way. `Ripping` is a track: `RippingTask` on the
drive's thread, an `EncodingTask` per output on the CPU pool, `Done` from the user, and
`TagRenameTask` on the disk pool. `enc[o].at` is where an encoding task is, `wanted` and `late` are
its rename stage. Reading, encoding and creating files may fail at any place where the code looks, and a
rename as well, at which nobody looks: the file then keeps its name (`Outcomes`).

### Ssdp
Every node is a process with a `Responder`: `Search`, `Advertise`, the two sockets' `OnActivity`,
the advertisement's `OnTimer` with its cycle of three notifications, and the destructor with its
byebyes. Packets go to every node, may be lost, and wait in the socket they came to; which socket is
read first is open. A device may also crash; in its next run it has another location.

### AvTransport, RemotePlayer
`AvTransport` is the renderer's service with its player's delayed callbacks, and
`Server::FireEvent`, which sends each subscriber a notification of its own. Nothing is locked
throughout a command: `SetAVTransportURI` notes the URL and its words, `PlayerSetURL` is what the player
does with its lock held, `PlayerTellsURL` the callback that it makes without it, and between these come
the callbacks of the player's own thread and other commands (`half` is the set of commands under way;
so for `SetNextAVTransportURI` and `PlayerSetNextURL`). `hasty` and `said` are history variables. `RemotePlayer` is
`upnpav::URLPlayer` over `DeviceClient`: `Init` as the chain of asynchronous calls it is (`stage`),
the SID map, and what it tells its observers. Init may return an error itself, and then there is no
callback ("returned"); a call may fail, or lose its connection in the body of the answer, where the
client's task ends without OnDone (`CallIsLost`). Notifications arrive in any order or not at all, also
before the reply of the SUBSCRIBE that they answer. `ownSids` chooses between a server that makes up
SIDs, as most do, and chorale's, whose SID is the delivery URL.

### SteamDb, SteamWalk
`SteamDb` is the engine: each operation holds the mutex throughout, so each is one step. A field's
value is a string and an integer, each valid or not, since `GetInteger` keeps its conversion;
`Put` is what all setters do to the index. `SteamWalk` adds a record set of one of the four kinds
that `Query::Execute` makes (simple, indexed, ordered, collate), with `MoveNext` as written, and
lets others change the database between its steps. It extends `SteamDb` and implements it
(`WalkImplementsDb`).

### TagSerialiser, TagEditor
`TagSerialiser` is what follows a Commit: `Rewrite` notes the id (`need`) and pushes a task unless
there is one, and the task's `Begins` to `Checks` are its critical sections. Between them it opens
the file with the lock of TagLib held and copies the record one field at a time, while anybody may
set a field or commit. A field that says nothing is skipped, so what the file said there stays; a
file of another format is never written; the result of `save()` is dropped, so `unsaved` remembers
the failures for the property.

`TagEditor` is the table on top of it: a text that is typed goes into every selected cell, one step
each (`SetsText`), and after each Qt may sort the table again (`Resorted`: one row moves, to one of the
places that the order allows); then the noted rows are read and committed from the top. Rows are
noted by number, so a later cell of the sorting column may move them: `mislaid`.

`MC_LocalDatabase` puts the engine and the editor side by side; they share nothing, and a behaviour
shows one of them at work.

### Synchroniser
Matching reads two trees and changes neither: it is one function, `Check`, from what the members
hold to what they hold afterwards, recursive as the code is. Each deletion, commit and copied file
is a step, before any of which the program may stop; the next run starts from what the destination
holds. `dest[d].data` is what an item's file really contains. It uses RECURSIVE operators, and so
has no proofs.

### EmpegSync
What `protocoltool -u` does with the Synchroniser: the destination is `db::empeg::Database`, a copy in
memory (`dest`) of the database the player made last (`device.db`), and every commit, deletion and
file becomes calls of `ProtocolClient` (`calls`), which the player grants or refuses one by one.
`RewriteData`, `WriteFid`, `EnsureWritable` and `Farewell` are the code's; `Effect` and `Rebuilt` are
what the player does, as the code relies on it: a file that is prepared is gone until all of it has
come, and the database is made anew when the last destructor asks for it. It extends `Synchroniser`,
each of whose steps it joins with the calls that follow from it; in half of the initial states there
is no player and it does nothing of its own.

### MergedDb, ContentDirectory, RemoteLibrary
Two processes, from the database of one to the record sets of the other.

* `MergedDb` is `db::merge::Database` over a local and a Receiver database: ids carry the slot of
  their database, the roots are one. The databases change as scans and users change them
  (`Scan`, `Appear`, `Unlist`, `Drop`, `Retitle`), and `Assimilate` adds one. A record goes after it
  has gone from its list, in a step of its own. A query that is not for an id is asked of the database in
  slot 0, whichever that is: a server without a local database has the Receiver's there.
* `ContentDirectory` has no variables: what `Browse` and `Search` answer, as DIDL-Lite elements, and
  what a client makes of an element (`ToRecord`, with the encoding it prefers). A query goes over the
  wire: `QueryElement` writes the expression as a search criterion, `Parses` is the server's grammar,
  `Translate` and `Collates` make an expression of the server's database of it. A criterion is its
  parse tree; LIKE is a relation between values. `Selected` and `Collated` are what slot 0 has: the local
  database finds all that fits (`Fitting`), a Receiver's knows one restriction alone, of which its server
  understands equality (`ReceiverFinds`); of the page that it sends to any other, the record set makes
  three ids in slots that there are not (`Rubbish`).
* `RemoteLibrary` is the client: `Connection::Init` as the calls it makes, the maps `names` with
  `Naming` as IdForObjectId, and the record sets. `GetTags` is a lookup; `StartChildren` to `EndPage`
  are GetChildren, with the lock held from page to page; the server reads a list in one step and the
  records of a page in another (`ReadChildren`). `GetSome`, `SelectThisItem` and `MoveNext` are
  searches and collations. A Search is one step.

`MC_RemoteLibrary` joins it with `SaxParser`: in part of its behaviours a text is read and the library rests.

A call may fail wherever there is one. `undefined` is set when a walk reads an item of a page that
did not arrive, and the model stops there.

### ReceiverLibrary
The protocol of the Rio Receivers, both ends of which Chorale has: `TagsStream`, `ContentStream`,
`ListStream`, `ResultsStream` and `QueryStream` are what the server's `ContentFactory` sends;
`Parsed`, `ChildVector`, `Collation` and the actions `Execute`, `FetchTags`, `FetchContent` and
`MoveOn` are the record sets of `libdbreceiver`. Answers are sequences of bytes, because what can be
wrong is what a length of one byte says, or what text that is not an answer is taken for. The library
changes between the two requests a record needs, and requests fail. The ghost `seen` keeps what the
answers were made from.

`MC_RemoteLibrary` has it as the third of its alternatives.

### XmlDocuments, SaxParser
`SaxParser` is the reader of XML: `at` is whether it fills its buffer or turns in the loop of `Parse`,
`state` is `m_state`, with an action for each of its values. What comes is any number of characters at a
time, from a stream that may fail or end early, or pushed by `WriteAll`. `XmlDocuments` has no variables:
it writes texts as the code does (database, playlists, SOAP, DIDL-Lite), and has the four observers as
functions from what they knew to what they know. A text is a sequence of characters in which a name is
one character, as is `[CDATA[`; so a name may be cut off from what follows, though not in its middle.
`Document` pairs a text with what its reader should make of it.

### Relations between the modules
The buffer's tasks, the walker's tasks, the encoders, the server's connections and the scheduler's
poller all run on a `WorkerThreadPool`; those modules let the pool's threads take steps in any order,
which is what `TaskExecutor` promises. The buffer's module keeps the order of the pool's queue as
well, and so does `Ripping` for the encoders, who give their thread back when they wait. The client
and the server wait through the scheduler: that a wait is answered when the handle is ready is what
`WaitsAreConserved` and `NobodyIsForgotten` say of `BackgroundScheduler`. `RemotePlayer` takes from
the HTTP modules that every call ends (`NobodyWaitsInVain`): answered, failed, or lost at the one place
which that property excludes, where the end is told to nobody. `HttpSession` extends the three HTTP modules, `Ripping` extends `MultiStream`,
`RemotePlayer` extends `AvTransport`, `SteamWalk` extends `SteamDb`, `RemoteLibrary` extends
`ContentDirectory`, and that extends `MergedDb`. The local database of `MergedDb`
is what `LibraryScan` keeps, and that a query walks its records in order is shown by `SteamWalk`.

## 3. The runs

| run | module | expects | what it shows |
|---|---|---|---|
| `pool` | WorkerThreadPool | pass | two threads, a client, three tasks, pushes from tasks, timeouts, Shutdown at any moment: exact accounting, refinement of TaskExecutor, Shutdown returns, nothing is left behind but by timeouts |
| `queue` | MC_OutputQueue | pass | every edit, shuffle and seek, with tracks ending between calls, and in short queues during them; the player agrees with a queue that only grew |
| `buffer` | AsyncWriteBuffer | pass | refinement of ByteFile with two writers in any order; the buffers after a failed write |
| `sched` | MC_BackgroundScheduler | pass | waits, timers and removals from threads and callbacks; wake-ups; shutdown |
| `scan` | MC_LibraryScan | pass | changes, failures and restarts during scans; the database follows the disk |
| `http` | MC_HttpSession | pass | the server with a pipelining program, the asynchronous client, the Fetcher, a stream: answers, bytes and outcomes are right, and nobody waits in vain |
| `ripping` | Ripping | pass | one track, two encoders, failures, a rename asked for at any time |
| `ssdp` | MC_Ssdp | pass | finding and forgetting over a network that loses two packets, with a crash and a restart |
| `remote` | RemotePlayer | pass | initialising and following a renderer, with calls that fail and notifications that are lost or overtaken |
| `steam` | MC_LocalDatabase | pass | the four walks through a database that others change; edits of a sorted table, and the files that follow them |
| `sync` | MC_Synchroniser | pass | synchronisations between two edits of the source, one of them stopped; and into an Empeg, one of three sessions going wrong at any call |
| `library` | MC_RemoteLibrary | pass | what a Receiver's protocol carries is what the server has; texts in XML are read as they were written, in whatever pieces; two threads of a client read a server's library while it changes, calls fail and the connection is made again |

### Bounds, and why they are enough
* **pool**: a limit of two threads with three identities (one can be on the dead list while two
  live), three tasks, so that two callers can both find the queue short of threads; one external
  client and any worker push. Races of the code need two threads and one task in flight.
* **queue**: three entries: before, at and after the current one. Tracks are symmetric. The user
  asks for PLAY and STOP: neither the queue nor its player tells PAUSE from STOP.
  `MaxRaced` is the length up to which the player may move on *inside* a user call; one entry is
  enough for it to find the queue at its end, or filled. While the player interrupts nobody and
  nothing is removed or shuffled the history variable `calm` of the MC module is TRUE, and
  `PlayerInStep` is about that time: otherwise it fails, for the reasons at `queue.cpp:61` and 131.
* **buffer**: two bytes per buffer and writes of up to two at four offsets: appending, overlapping
  and leaving gaps, across a buffer boundary. One write may fail. The refinement is claimed of what
  happens before it: afterwards the code throws data away. What is claimed after it is that no
  buffer is shared, no write doubled and nothing freed too early.
* **scheduler**: two tasks and handles, a repeating and a single timer, three client calls, a clock
  of 0..2. Three calls are a wait, a wait or timer, and a removal; two periods pass in the time. One
  task may wait for both handles (`SharedHandles`), so that Remove meets a second record, and a callback
  may remove the task whose callback comes next. Remove is not restricted in any way.
* **scan**: a directory, a song in it, a playlist in the root that lists the song, and the song's
  FLAC file outside the library; the song is absent at first. `MaxEvents = 3` bounds changes to the
  disk, failing calls and restarts together: a file may vanish, come back and meet a crash. SIGHUP
  is not bounded. `OnlyWatched` restricts changes to directories that have a watch: between the
  listing of a directory and its first watch a change is lost (section 5), and with
  `OnlyWatched = FALSE` FollowsDisk fails.
* **http**: connections of four tokens, a line reader of three and a body buffer of two, so that
  every request, answer and body is cut in the middle; files of four and no bytes, a growing one of
  two. Scripts have two or three requests: what one request leaves behind (stream, range, body,
  unread tokens) is met by the next, of the same and of another path; one script asks for just the
  beginning of a file and then for all of it, and `NoBeginnings` leaves it out of the properties, which
  fail for it (`http_server.cpp:556`). A stream makes four reads or
  seeks. Reads of the stream are as long as the line reader's buffer (`ReadSizes`): a shorter one
  meets the defect at `http_stream.cpp` named in section 5. `Failing` has the two paths whose source may fail while it is
  sent, before the first byte and after it. `FaultyIn` lists the client's states in
  which the connection may be lost; the one that is missing, `RECV_BODY`, is that of
  `http_client.cpp:484`.
* **ripping**: five lumps and two outputs, so that each encoder can be ahead of, level with and
  behind the other, and a pool of two threads; more outputs than threads add only waiting.
* **ssdp**: one device and one control point; a service in version 2, looked for in versions 1 and
  2. Two losses, so that the third packet of a burst matters; two runs of the device, so that there
  is an old location; one renewal.
* **remote**: two URLs and states, three commands or moves, two Inits, four of these together
  (`MaxEvents`, which also keeps the renderer from restarting after the fourth). The second Init meets
  the subscriptions and SIDs of the first; three commands are one under way, one between its steps, and
  one that shows what came of it.
* **steam**: two indexed fields, one of either type, two values of each and one word that is no
  number; up to three records, four changes before the walk and two during it: one for the record
  the walk stands at, one for another. In the other half, three tunes, one of them in a format without
  tags, two threads of the pool and two edits of any selection: a row can move past another that was
  noted, and a second edit can fall between any two steps of a task.
* **sync**: a root, two lists, two tunes, a better encoding, and a file that is no media, in
  40 shapes; two edits and one stop. Between them every phase is entered with items to match
  elsewhere, to add, to amend and to delete. Eight of the shapes go to a player, in three sessions:
  one before an edit, one after it, and one that goes wrong before, between or after them.

* **library**: four local items (a tune with a better encoding, one whose type has no class of its own,
  the better encoding, which is in no list, and one that appears later) and a Receiver's directory
  with a tune in it, so that the merged root and a search need two pages of two. Two record sets are
  opened: one by each thread at once, or one after the other. Two troubles (a change, a failing call, a
  new initialisation): a list that shrinks below the next page's start, an item that goes from its list
  and then altogether, a search's second page that does not arrive. Five queries: a comparison and an equality, of which a
  Receiver's database knows the second only, a nested one, and two that cannot be asked. The server has
  a local database in slot 0, or none: then the first database that is found, the Receiver's, is there.

  The texts: two databases (with special ids, a duplicate, a radio station), playlists, two SOAP results, a
  DIDL-Lite list, with all the characters that are escaped or dropped; attributes in the ways ASX files
  have them, a CDATA section, a lone ampersand. A buffer of six characters: every text is longer, every
  entity and mark shorter, and one value and one ampersand's text are made not to fit.

  The Receiver's library: two lists, one of them empty, tunes in MP3, FLAC and WAV, one with a name
  longer than the 255 bytes a length can say, and three changes or lost requests, so that a record can
  change before, between and after its requests. A byte is a byte (`Byte = 256`).

Deadlock is checked in `pool` and `scan`. In the others the bounded clients run out of calls, the
connection ends, or the object is destroyed.

### Fairness
* pool: each thread that can take a step does, and a Shutdown that has begun goes on. No fairness
  of timeouts or of spurious wake-ups.
* scheduler: the poller, a Shutdown that has begun, and the clock. `poll()` is not assumed to return
  without a reason, so a missed wake-up shows.
* scan: walking as a whole (the pool runs its tasks), the rest of the constructor, and the
  notifier's callback (its wait is persistent, and the scheduler serves it). Nothing is assumed of
  changes, failures, SIGHUP or restarts.
* http: the server's task and the client's task (the scheduler and the pool run them when their
  wait is over), and the other program goes on sending its script and reading what comes. Losses
  and the Fetcher's timeout are not fair.
* ripping: the drive's thread, each encoder, the pool that starts them, and the disk pool. Not
  `Done`: a user may never ask.
* ssdp: every node reads its sockets and every burst timer expires. Not losses, crashes or shutdowns;
  nor the renewal after nine days.
* library: a reader that can go on does, so that every call of the server ends, with an error after a
  time. Spelled out as `[]<>~Ready(r) \/ []<><<Reads(r)>>_vars`, where `Ready(r)` is the ENABLED of
  weak fairness written without it. Nothing of connecting, changes or closing. The parser goes on, and its stream answers each Read.
* remote: a call of the chain of Init ends: it is answered, fails, or is lost. That its end is told is not
  assumed. Nothing of notifications, nor of the steps of commands.

The queue, the buffer, the database and the synchroniser are run without fairness.

### Properties
Each module has one type invariant, joined with others where it says little. The others relate several
steps or several pieces of state; the comment above each says what code it is about, and PROJECT.json
names for each a mutation of one definition that TLC finds with it. Where the code breaks a promise in
ways that are known, the property names them, and so says that there is no other. What it excepts it does
not catch: of those cases section 5 says what the code does, and nothing shows that it is the right
thing. The exceptions are:
`AnsweredAndNamed` (`lost`, and a rename that fails), `AnswersInOrder` and `NobodyWaitsInVain` (`NoBeginnings`), `NobodyIsStranded` (unless every thread timed out), `KnownIsTrue` (crash,
lost byebye, or an answer read after it), `SeesTheRenderer` (`late`), `InitToldOnce` (`stuck`, `silent`), `MetadataIsOfUrl` (`hasty`),
`OutcomeIsTrue` (a server whose source fails), `RemovedStayRemoved` (`partly`, `leaving`),
`Mirrors` (`clean`), `FilesFollow` (`unsaved`), `TableIsSaved` (`mislaid`), `FilesAreWhole` (`torn`, `split`), `PlayerMirrors` (`amiss`), `NamesAreForever` (`inits`),
`ReadsAreRight` (a call that failed; a Receiver's database in slot 0), `ReceiverReadsAreRight` (a later record's tags, an error page),
`EveryReadEnds` (`Endless`, `undefined`), `PlayerInStep` (`calm`), `FollowsDisk` (`OnlyWatched`), `ReadsWhatWasWritten` (`cut`, `fits`), `ReadingEnds` (`Stuck`).

## 4. Proofs

| module | theorem | argument |
|---|---|---|
| WorkerThreadPool_proofs | AccountsCorrect, FinalCorrect; WaitingCorrect, CountCorrect; NoLateStart | one inductive invariant `IInv`: types, the lists against the states of the threads, the limit after Shutdown, `waiting` as a cardinality; the types need the sizes (`waiting` is unsigned), the sizes need the lists |
| | PoolKeepsItsPromise | the pool implements `TaskExecutor`. `Places`: each task is in one place, not yet pushed, in a caller's hand, in the queue, run by a thread or done with, and there once; each step of the pool is one of the executor or changes no place |
| AsyncWriteBuffer_proofs | BuffersAlwaysSafe; WritesCommute | `IInv`: a busy buffer is exactly one that the pool holds, the caller's call holds on to a free one, and what is in flight lies behind the part being filled and in one piece with it; `ByteTypes` for what the file and the buffers hold |
| | BufferIsTheStream | the buffer implements `ByteFile`: the file with what is pending and what is being filled laid over it is the stream the caller wrote. `CallInv`: what is in flight is a whole buffer, and the call in progress is known. Two disjoint writes commute, and one that begins where the other ends is one with it: `FillingIsSafe` and `WritesCommute` say which case it is |
| OutputQueue_proofs | QueueAlwaysPermutation, EditsAlwaysRespectPlayback | `IInv`: the playing order is an injection of the entries into themselves, no track is there twice, and the current index is at most one behind them (two, once undefined). `CutOrder`, `InsertedOrder` and `ShuffledOrder` say what the three kinds of edit make of an order, and where the current item is in it |
| | PlayerAlwaysInStep | `CalmInv`: while it is calm one thread at most is in a call, what it has still to do is a sequence of whole calls (`Whole`), and at each step of a call it is known how far the player is from the queue (`Stage`); `InStep` alone, the property between calls, says nothing of the middle of SetURL and SetNextURL |
| BackgroundScheduler_proofs | PollAssertionsAlwaysHold, from AssertionsHoldUntilShutdown and RepeatingTimersKeepTime | the array, while valid, lists the handles in order, and what poll() reported are its indices; the next time is the first multiple of the period after the start that is later than now |
| | RemoveKeepsItsPromise | what Remove has left of a task: never a timer; no record, unless it had more than one ("partly"); no callback to come, unless the round that is being made had collected it ("leaving"), and "leaving" ends with the round. Nothing is assumed of how Remove is used |
| LocalDatabase_proofs | IndexesAlwaysMatch, ValuesAlwaysAgree | `DbInv`: besides the two, a string of an indexed integer field is never there without its integer, or the conversion GetInteger makes would be a value the index does not have. `MovedIsRight` and `KeysLeftAreUsed` say what moving one record in one index does, `PutPreserves` what every setter does |
| | WalkImplementsDb; WalksFindIndexesRight, WalksReadTrueValues | a walk changes nothing of the database, and what the others do are its operations; so a walk in progress inherits the theorems of SteamDb |
| | WalksAreComplete | `WalkInv`: a walk stands at the last of what it visited, has gone up only, and its count within a value is that of the lower records while nobody changed that set; then it has visited every steady record that it is past |
| | FilesAlwaysFollow | `TagInv`: each id of a task is in `m_rewrite_tasks`, once; what a task has copied is what the record says unless the id is in `need` or was changed and not committed |
| | TableAlwaysSaved, EditedFilesFollow | `EditorInv`: a record that differs from the table is noted or mislaid, and of the row being saved the columns that are left are the only ones that may differ; each step of the editor is one of `TagSerialiser` or changes nothing of it |
| | RecordsAlwaysFit; RecordsAlwaysConsistent | `ScanInv`. A task's chain has the tasks of all its directories, which wait (`ChainsHold`, `ParentsWait`); the id that a task has kept is the one in `m_map` (`DirIdsHold`, `CallIdsHold`), and different paths have different records (`IsLibrary`; `IsDatabase` of the saved file, for a restart). Ids come unchecked out of the gap that was found, so `IsLibrary` has `GapIsFree`: no id in what is left of the gap is in use. `GapIsFound` says that a search of the ids leaves such a gap, though it ignores its restriction (`OneIsFree`, `FirstIsFree`: what the search stops at is free). That the sweep leaves no child without a record needs `MetAreSettled`: a directory that was met has been left, and its children were met as well, or its task still waits. The first theorem (types, ids, children) has no hypothesis; the second, the scanner's assertions as well, has `NoLoops` |
| Ripping_proofs | TasksAlwaysExclude | `IInv`: a task is in one place, not yet pushed, in the queue, waiting with its callback or run by one thread, and the writer calls only who is still waiting (`PlacesExclude`, `WriterKnows`, `UnpushedAreNowhere`); how far it has come is what its file and flags say (`FilesFollowTasks`), and RenameAndTag is called once of each (`RenamedOnce`) |
| Network_proofs | KnownAlwaysTrue | `IInv`: a pair that a node knows, and is not excused, is advertised at that location by the present run of its device, or its byebye is unread in the socket (`BeliefsHold`); so is what an unread alive says, or a byebye is behind it (`NoticesHold`), and what an unread answer of the present run says (`AnswersHold`) |
| | RequestsAreServedInOrder, EachRequestHasItsAnswer | `RawInv`, of which the heart is `Serves`: for some k, what the server has buffered, what is on its way and what is unsent make up the script after k requests, less the part of the next that the server has read; and what was received, is on its way or is still in the server's hands makes up the answers to the first k and a part of the next, each split where the task's state says (`Phase`). A connection that is lost leaves a beginning of that. The first theorem is about what the server gives (`Given`), for every script; `GivenIsAnswer` says that this is what HTTP asks for (`Answer`) unless just a beginning was wanted |
| | OutcomeIsAlwaysTrue | `ClientInv`: the server serves the client as a script of one request (`Serves` again); what the client has eaten is, state by state, the headers of the answer and the data that it handed over, and what it has still to expect is what is wanted less those data (`Asking`, `Eating`); and while it may still call back, it has told nothing (`Telling`). When the server's source fails, what is on its way is a beginning of that, and the client takes its end for the end of the answer |
| RemotePlayer_proofs | MetadataAlwaysIsOfUrl | `AvtTypes`, `NextIsKnown`: unless it was hasty, one SetAVTransportURI at most is under way, AVTransport has its URL until the player has it too, and at all other times what the player plays is AVTransport's URL or on its way there as the next one |
| | AlwaysSeesTheRenderer, AlwaysToldWithTheEnd | SIDs are fresh and at most two of each Init (`SidsAreFew`), the client gives them the service they are of, and notifications are numbered: what the client has seen is what the last one it heard said, and one that is not last is still on its way (`OwnSidsHold`); what was announced last is AVTransport's URL unless one is being set (`SaidIsUrl`) |

The proofs hold for any number of threads, tasks, handles, timers, fields, records, files and calls,
any tree and links, any scripts of requests, any buffer size, any pool and any failures. They assume only what the modules' named assumptions say of
the constants (`PoolAssumption`, `BufferAssumption`, `QueueAssumption`, `NoCallAssumption`, `SchedulerAssumption`,
`SteamDbAssumption`, `SteamWalkAssumption`: different strings have different ranks, `TagAssumption`,
`RippingAssumption`, `SsdpAssumption`: finitely many nodes and services, and one version of a service
on a node, `AvTransportAssumption`, `RemotePlayerAssumption`, `TreeAssumption`, `ScannerAssumption`: a
FLAC version has none of its own and playlists list tunes, `ConnectionAssumption`, `SessionAssumption`),
which TLC evaluates in the runs, and the library's theorems on finite sets and sequences. TLC checked
each property first. One theorem has a hypothesis of its own: `NoLoops`, of RecordsAlwaysConsistent, says
that no chain of links leads from a directory back to itself; where one does, the first of the
scanner's assertions fails (section 5).

Only model-checked: all liveness (TLAPS does not reason about fairness or ENABLED), and everything of
the remote library, the Receiver library, the XML reader, the synchroniser and the empeg, and of the
HTTP stream: `BytesAreRight` holds of what a stream reads in the run, but the stream takes the length in
Content-Range for the total, so that after some seeks it asks for ranges that end before they begin,
which `SessionAssumption` excludes. What a recursive definition computes for every input would need
induction over data, which the installed provers cannot do; the sequences of requests and answers are
therefore folds, unrolled one request at a time (`AskedNext`, `AnsweredNext`). A module with RECURSIVE
operators cannot be proved about at all; only `Synchroniser` (and `EmpegSync` above it),
`ContentDirectory` (and `RemoteLibrary` above it) and `ReceiverLibrary` use them.

## 5. Where the code and its own claims differ

The following were met while modelling. Those in the first list are known to the properties: each is
an exception one of them names, or is kept out of a run by a constant named above; without it TLC
reports a violation.

* *Pool.* The only waiting thread times out between AnyWaiting and the push; the task stays in the
  queue, past Shutdown, though the pool's test asserts that every task is destroyed
  (worker_thread_pool.cpp:161, 334).
* *Queue.* The player goes on to a last track that was removed, and the index passes the end
  (queue.cpp:61, 502), though it is an "Index into m_queue" (queue.h:68).
* *Write buffer.* After an error a task returns without freeing its buffer, and SynchronousFlush
  waits for it for ever (async_write_buffer.cpp:80, 117).
* *Scheduler.* After Remove "no new timers or poll callbacks will be started for this task"
  (scheduler.h:66); callbacks collected in the same round, and second handles, are still called
  (poll_posix.cpp:134, scheduler.cpp:164, 169). Timers are not, in either case. `Shutdown` clears the list but leaves the array valid,
  so that the assertion at poll_posix.cpp:87 can fail.
* *Scan.* A looped directory is left without having been entered, and `assert(id == cookie)` fails
  (walker.cpp:167, file_scanner.cpp:411). Changes made between the listing of a directory and its
  first watch are not seen (file_scanner.cpp:423). A playlist whose own file is unchanged is never
  read again (file_scanner.cpp:210), though the library "Automatically rescans" (README:44). AllocateID
  restricts its search for a gap to ids above the last one (allocate_id.cpp:28), and the query ignores
  that (query.cpp:49): it begins at the root each time, and numbers below the 0x120 it starts from are
  given out. What it finds is free all the same (`GapIsFound`).
* *HTTP.* "at every return site in this function, it must either call WaitForReadable,
  WaitForWritable, or target->OnDone": a connection lost in the middle of a body meets none of them
  (http_client.cpp:484). The client waits for its socket before it connects it, so that an error may
  be both returned and reported (http_client.cpp:182). The stream takes the length in Content-Range
  for the total, as the server's own differs (http_server.cpp:553, http_stream.cpp:243). When just the
  beginning of something is asked for ("bytes=0-1"), the server sends all of it: it sets the length to
  the range's (http_server.cpp:483) and then compares the range's end with it (556). What is too much
  stands before the next answer on that connection. When the server cannot read what it is sending, it
  closes in the middle (657), and the client, which forgets the announced length when the connection
  ends, reports success with what there was of it (http_client.cpp:497). FetchToString returns success
  when OnDone has come, whatever the error it brought (http_fetcher.cpp:116-132).
* *Ripping.* `Write` swaps callbacks without the lock, and a reader's wait may be destroyed
  (multi_stream.cpp:190). After a read of the CD fails, the encoders wait for ever
  (ripping_task.cpp:145). A rename that fails leaves the file under the name it has: encoding_task.cpp:207
  drops the result, and TagRenameTask tells its observer and ends before the tags are written
  (tag_rename_task.cpp:28-35).
* *SSDP.* Who looked for an older version never hears a byebye or a notification (ssdp.cpp:489). An
  answer read after the byebye makes a service known for ever, as `m_set` does not expire
  (ssdp.cpp:370, 469). An advertisement is renewed after 800*1000 seconds though it is good for 1800
  (ssdp.cpp:221).
* *Remote player.* The error of a GetProtocolInfo that cannot be started reaches nobody
  (upnpav.cpp:110), and neither does the end of a call whose connection is lost in the body of its answer
  (http_client.cpp:484). SetAVTransportURI notes URL and metadata without a lock before it calls the player
  (avtransport.cpp:31-33): the OnURL of a track that the player begins by itself (gstreamer.cpp:354-383) may
  come in between, and then the URL has the other track's metadata, or none; so it is when two control
  points set a URL at once, or a next URL is replaced while the player takes it up. Chorale's SID is the delivery URL, so that a client's second subscription takes
  over the first one's events (server.cpp:494). SEQ is never looked at.
* *Database.* An indexed or ordered walk that deletes its record and moves on skips the next one
  (rs.cpp:266, 368). A walk of string values ends early when its value has vanished.
* *Tag editor.* Rows to be saved are noted by number, and the next text of the sorting column moves
  them (tag_editor_widget.cpp:225): other records are committed, and the edited ones only shown.
* *Synchroniser.* AddTune commits the full size before the data (sync.cpp:587), and stopped runs leave
  names of deleted items in lists, whose numbers AllocateID then gives to new ones (sync.cpp:337).
  When the source has two tunes of the same title in two lists, and the destination one tune in both
  places, CheckPlaylistNames matches both with that one and overwrites `m_desttosrc` (sync.cpp:196):
  both files are copied to it, in this synchronisation and every other, though "a second sync should
  do no work" (sync_test.cpp:107).
* *Empeg.* Init puts the place of a child in CHILDREN where it has just read its number
  (libdbempeg/connection.cpp:239): the next session finds nothing on the player, sends everything
  again, and what was there stays on its disk in no list. A program that is killed leaves the player
  locked and writable, with a database that knows nothing of its files; a mount that is refused leaves
  the interface locked, as `m_writing` is not set (connection.cpp:283) and the destructor does nothing.
* *XML.* A name that the end of a text cuts off is taken for a whole one and `m_buffered` wraps
  (xml.cpp:217); an ampersand without an end at the end of the text, or one that fills the buffer, is
  looked at for ever (xml.cpp:97); of an attribute of more than 1023 characters the reader gets the end
  (xml.cpp:359).
* *Remote library.* "clients are entitled to believe that a mediadb::ID ... is enough to uniquely
  identify a record, so we keep them indefinitely" (libdbupnp/connection.h): when the connection is
  initialised again the maps keep their entries but `m_nextid` starts from 0x110 again
  (connection.cpp:81), and old numbers come to mean other objects. When a later page of a search does
  not arrive, the walk keeps the old total and reads an item of an empty page (recordset.cpp:364, 397).
  A synchronous call that was lost, or answered with an error, returns success (client.cpp:574), and the
  numbers of its results are whatever they were before: a walk may go on for ever.
* *Merged databases.* Queries go to the database in slot 0 (libdbmerge/db.cpp:246-252), whatever it is. Where
  that is a Receiver's, it knows an id, one restriction, or a collation (libdbreceiver/query.cpp:15-45): a
  compound search gives no record set and finds nothing; one for anything but equality is answered
  with the page for unknown paths (content_factory.cpp:334-341), of whose letters the
  search makes three ids of nothing; a collation with a restriction, as ContentDirectory's always is, asks for
  the restriction's field (content_factory.cpp:240-257), and has no values.

* *Receiver's library.* The mark at the head of a list that is empty is read as a child, number 767
  (recordset.cpp:189). A restriction's record set keeps the tags of its first record when it moves on
  (recordset.cpp:297). A 404 page is decoded as an answer, as status and return code are ignored
  (recordset.cpp:86, 176): its 37 bytes are nine children, or three results. A field of more than
  255 bytes is sent with its length modulo 256 and takes the fields after it along
  (content_factory.cpp:53). A bitrate is sent as "vs" and a number and read as 0. A collation with a
  restriction sends the field last, as "Legacy servers only listen to the *last* X=Y that we
  pass" (recordset.cpp:334); Chorale's own server reads the first (content_factory.cpp:227). A collated value
  that is empty or has a colon is split elsewhere (recordset.cpp:363), and the count may then be larger
  than the number of values. /content offers those who do not speak UTF-8 only MP3s, /list plays them
  everything; /content offers the better encoding even when it is gone.

Seen, and outside the models:

* "join all existing ones" (worker_thread_pool.h:65) is not what Shutdown does with threads that quit
  later; `rand() % 0` (queue.cpp:217); Seek restores a play state it read before the URL was changed
  (queue.cpp:459); the same URL queued twice in a row is taken for one track (queue.cpp:51); the player
  fires with its observers' lock held (gstreamer.cpp:278); the error of the last flush is dropped
  (async_write_buffer.cpp:131).
* A FLAC file that appears after its MP3 was scanned is not linked to it until the MP3 changes;
  IDPARENT stays 0 for files first met as somebody's FLAC version; when writing the database fails
  (database_updater.cpp:90) no scan is ever started again.
* The end of a connection before Content-Length is success to the client, which also ignores the
  status; `http::Stream` loses what its line reader has read beyond the headers when the caller's
  buffer is shorter; a failed ReadAt leaves the socket connected, and the next Connect fails; reading
  an error page waits for more than its length; the branch for a sink that would block uses an
  uninitialised count (no sink blocks); `StreamForPath` looks at the factories without the lock of
  `AddContentFactory`.
* The comment at encoding_task.cpp:50 describes another order than the code's; `~RippingControl` races
  with its tasks (ripping_control.cpp:97).
* `Responder::Remove` forgets one of its two sockets (ssdp.cpp:349); a ContentFactory is never removed,
  so that a NOTIFY after `~DeviceClient` reaches a deleted object; `m_subscriptions` has no lock
  (server.cpp:324); asynchronous SOAP commands may overtake each other; concurrent notifications race
  for `m_state`; the client never sends UNSUBSCRIBE.
* A query that is ordered or collates an integer field ignores its restrictions (query.cpp:49); EQ of a string on an integer field looks in
  an empty index; the constructor of a record set looks at `m_data` without the lock (rs.cpp:16).
* The writer of tags skips empty fields, so a tag that is cleared stays in the file (tags_mp3.cpp:60);
  comments of MP3 files are never written; nobody hears that `save()` failed. tageditor destroys its
  database while tasks of its pool may still commit into it (bin/tageditor.cpp).
* The DIDL-Lite observer does not forget content when a tag begins (didl.cpp:37), so white space between
  the tags of another server's list becomes part of the next field.
* A collation over UPnP ignores the query's restrictions (libdbupnp/query.cpp:100). "exists" is turned
  into "=" or "!=" in the operator's text only, and compares for equality either way (search.cpp:230).
  A field without a UPnP name leaves a hole in the criterion (libdbupnp/query.cpp:38), and a value that
  ends in a backslash an open quote: the server can parse neither, and the search finds nothing. An
  error in the middle of a listing leaves a shorter list, and says nothing (recordset.cpp:168).
* New lists are added children first (sync.cpp:422), though sync.h:75 says otherwise. ProtocolClient never
  compares the number of a response with its request's (protocol_client.cpp:67), waits for it without a
  time limit, and `StartFastWrite` does not take the lock that `Write` takes.

## 6. What is not modelled

`PROJECT.json` lists every component, with the reason. In short: data conversion (device
descriptions, tags, the playlist formats that are not XML), adapters that keep no state (other UPnP services,
the wrappers), hardware and foreign libraries (DVB, CD drives, LAME, FLAC,
GStreamer itself), user interfaces. The Windows and no-inotify variants are left out.

Known abstractions inside what is modelled: sequential consistency (the unlocked reads of
`m_max_threads` and `m_exiting` are atomic); memory is never exhausted; the two loggers and the
counted objects are left out; in the scan, reading a file's tags is part of the step that rewrites
its record; a remote player is initialised again only when the last chain has ended, and its renderer
has a player that was started (SetURL before that waits, or returns ENOENT, gstreamer.cpp:259-267); an HTTP range does not end before it begins, and control services
are asked for no ranges; a server that closes loses nothing that
it sent; the constructor of a record set is one step; a synchroniser's dry run is left out, and the
destination gives the lowest free number, and not one of a gap found before, as AllocateID does (the empeg's, in steps of 16: `Loaded` gives a list places, which are below all
numbers); a file that was sent over the fast connection has come when the next call is made, for which
the code sleeps a second; a server's Search is one step, its records
in the order of their ids, and of a record's fields the remote library has those that the properties
tell apart.

## 7. Plan

Done: pool, queue and player, write buffer, scheduler, library scan, HTTP client, server and stream,
ripping, SSDP, eventing and the remote player, the database engine, tag rewriting and the tag editor,
the synchroniser and the empeg, the remote library with the merged database and the content directory, the Receiver's
library, XML.

Left, in this order:

1. The Receiver's boot servers (NFS, tar files, the port mapper).
2. The media tree over the remote library.
3. Proofs: `BytesAreRight` for the stream over the server, with `Serves` for each of its connections.
