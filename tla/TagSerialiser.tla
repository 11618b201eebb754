---------------------------- MODULE TagSerialiser ----------------------------
(***************************************************************************)
(* Tags follow the database (src/libdblocal/): whoever changes a record of *)
(* the local database calls Commit, and a task on the worker pool writes   *)
(* the record into the tags of its file.  TagSerialiser sees to it that    *)
(* two Commits of one record do not make two tasks that write at a time.   *)
(* The record is read field by field while others go on changing it.       *)
(***************************************************************************)
EXTENDS Sequences, FiniteSets

CONSTANTS
  Ids,       \* the tunes
  TagFields,    \* the fields that the writer of the file's format has a tag for
  Texts,     \* what a field can say
  Blank,     \* a field that says nothing
  Writable,  \* the tunes whose files have a writer of tags
  Workers,   \* the threads of the pool
  NoId

ASSUME TagAssumption == Blank \notin Texts /\ Writable \subseteq Ids /\ NoId \notin Ids

VARIABLES
  record,    \* the database
  file,      \* the tags of the files
  need,      \* m_need_rewrite
  tasks,     \* m_rewrite_tasks
  queue,     \* of the pool: the ids of the tasks that wait for a thread
  pc,        \* where each thread of the pool is in Task::Run
  job,       \* the id of the task it runs
  left,      \* the fields it has still to read
  tags,      \* the tags it will save
  dirty,     \* records that were changed and not committed since
  unsaved    \* files whose last tags could not be saved, though nobody knows

tagVars == <<record, file, need, tasks, queue, pc, job, left, tags, dirty, unsaved>>
runVars == <<pc, job, left, tags>>

Words  == Texts \cup {Blank}
Tags   == [TagFields -> Words]
Unread == [f \in TagFields |-> Blank]

TagTypeOK ==
  /\ record \in [Ids -> Tags] /\ file \in [Ids -> Tags]
  /\ need \in SUBSET Ids /\ tasks \in SUBSET Ids /\ queue \in Seq(Ids)
  /\ pc \in [Workers -> {"idle", "begin", "read", "write", "check"}]
  /\ job \in [Workers -> Ids \cup {NoId}]
  /\ left \in [Workers -> SUBSET TagFields] /\ tags \in [Workers -> Tags]
  /\ dirty \in SUBSET Ids /\ unsaved \in SUBSET Ids

(* The scan has read the tags; a title may come from the name of the file. *)
TagInit ==
  /\ file \in [Ids -> Tags] /\ record \in [Ids -> Tags]
  /\ \A id \in Ids, f \in TagFields : file[id][f] \in {Blank, record[id][f]}
  /\ need = {} /\ tasks = {} /\ queue = <<>>
  /\ pc = [w \in Workers |-> "idle"] /\ job = [w \in Workers |-> NoId]
  /\ left = [w \in Workers |-> {}] /\ tags = [w \in Workers |-> Unread]
  /\ dirty = {id \in Ids : record[id] # file[id]} /\ unsaved = {}
-----------------------------------------------------------------------------
SetText(id, f, t) ==
  /\ record' = [record EXCEPT ![id][f] = t]
  /\ dirty' = dirty \cup {id}
  /\ UNCHANGED <<file, need, tasks, queue, runVars, unsaved>>

(* TagSerialiser::Rewrite, with m_mutex.                                   *)
Rewrite_Queues(id) ==
  /\ need' = need \cup {id}
  /\ tasks' = tasks \cup {id}
  /\ queue' = Append(queue, id)
Rewrite(id) ==
  /\ need' = need \cup {id}
  /\ tasks' = tasks \cup {id}
  /\ queue' = IF id \in need \cup tasks THEN queue ELSE Append(queue, id)

(* Database::Recordset::Commit.                                            *)
Commit(id) ==
  /\ dirty' = dirty \ {id}
  /\ Rewrite(id)
  /\ UNCHANGED <<record, file, runVars, unsaved>>
-----------------------------------------------------------------------------
Goes(w, at) == pc' = [pc EXCEPT ![w] = at]

(* A thread of the pool takes a task.                                      *)
Takes(w) ==
  /\ pc[w] = "idle" /\ queue # <<>>
  /\ Goes(w, "begin") /\ job' = [job EXCEPT ![w] = Head(queue)]
  /\ queue' = Tail(queue)
  /\ UNCHANGED <<record, file, need, tasks, left, tags, dirty, unsaved>>

Begins(w) ==
  /\ pc[w] = "begin" /\ Goes(w, "read")
  /\ need' = need \ {job[w]}
  /\ UNCHANGED <<record, file, tasks, queue, job, left, tags, dirty, unsaved>>

(* TagWriter::Init finds no writer for the name of the file.               *)
HasNoWriter(w) ==
  /\ pc[w] = "read" /\ job[w] \notin Writable
  /\ Goes(w, "check")
  /\ UNCHANGED <<record, file, need, tasks, queue, job, left, tags, dirty, unsaved>>

(* TagWriter::Write, with s_taglib_mutex: the tags the file has are read   *)
OpensFile(w) ==
  /\ pc[w] = "read" /\ job[w] \in Writable /\ \A v \in Workers : pc[v] # "write"
  /\ Goes(w, "write")
  /\ left' = [left EXCEPT ![w] = TagFields] /\ tags' = [tags EXCEPT ![w] = file[job[w]]]
  /\ UNCHANGED <<record, file, need, tasks, queue, job, dirty, unsaved>>

(* ... those the record has a text for are replaced                        *)
Copies(w, f) ==
  /\ pc[w] = "write" /\ f \in left[w]
  /\ left' = [left EXCEPT ![w] = @ \ {f}]
  /\ tags' = IF record[job[w]][f] = Blank THEN tags
             ELSE [tags EXCEPT ![w][f] = record[job[w]][f]]
  /\ UNCHANGED <<record, file, need, tasks, queue, pc, job, dirty, unsaved>>

(* ... and saved, or not: nobody looks at what save() returns.             *)
Saves(w) ==
  /\ pc[w] = "write" /\ left[w] = {}
  /\ Goes(w, "check") /\ tags' = [tags EXCEPT ![w] = Unread]
  /\ \/ file' = [file EXCEPT ![job[w]] = tags[w]] /\ unsaved' = unsaved \ {job[w]}
     \/ UNCHANGED file /\ unsaved' = unsaved \cup {job[w]}
  /\ UNCHANGED <<record, need, tasks, queue, job, left, dirty>>

(* "Was another rewrite called-for while we were doing it?"                *)
CalledFor_Never(id) == FALSE
CalledFor(id) == id \in need

Checks(w) ==
  /\ pc[w] = "check"
  /\ IF CalledFor(job[w])
     THEN Goes(w, "read") /\ need' = need \ {job[w]} /\ UNCHANGED <<tasks, job>>
     ELSE /\ Goes(w, "idle") /\ tasks' = tasks \ {job[w]} /\ UNCHANGED need
          /\ job' = [job EXCEPT ![w] = NoId]
  /\ UNCHANGED <<record, file, queue, left, tags, dirty, unsaved>>
-----------------------------------------------------------------------------
Run(w) == \/ Takes(w) \/ Begins(w) \/ HasNoWriter(w) \/ OpensFile(w) \/ Saves(w) \/ Checks(w)
          \/ \E f \in TagFields : Copies(w, f)

TagNext == \/ \E id \in Ids, f \in TagFields, t \in Words : SetText(id, f, t)
           \/ \E id \in Ids : Commit(id)
           \/ \E w \in Workers : Run(w)

TagSpec == TagInit /\ [][TagNext]_tagVars
-----------------------------------------------------------------------------
Running(id) == {w \in Workers : pc[w] # "idle" /\ job[w] = id}

(* "two calls to Commit in quick succession on the same ID will tangle     *)
(* each other up" (tag_serialiser.h): there is one task of an id at most,  *)
OneTaskEach ==
  /\ \A i, j \in DOMAIN queue : queue[i] = queue[j] => i = j
  /\ \A w \in Workers : pc[w] # "idle" =>
       /\ \A i \in DOMAIN queue : queue[i] # job[w]
       /\ Running(job[w]) = {w}

(* ... and when it has gone, and whoever changed the record has committed  *)
(* it, the file has every text that the record has, however the changes    *)
(* fell between the reads of the task, unless it could not be saved.       *)
FilesFollow ==
  /\ OneTaskEach
  /\ \A id \in Writable \ (tasks \cup dirty \cup unsaved), f \in TagFields :
       record[id][f] \in {Blank, file[id][f]}
=============================================================================
