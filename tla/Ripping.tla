------------------------------ MODULE Ripping ------------------------------
(***************************************************************************)
(* A track of a CD on its way into two files (src/libimport/): RippingTask *)
(* reads the track, in the thread of the drive, and writes it into a       *)
(* MultiStream; two EncodingTasks, on the CPU pool, encode what they read  *)
(* from it.  Meanwhile the user types in the titles, and at some time      *)
(* RippingControl::Done has both files renamed and tagged: by the encoding *)
(* task if it has not finished, else by a TagRenameTask on the disk pool.  *)
(***************************************************************************)
EXTENDS MultiStream, Sequences, SequencesExt

CONSTANTS Threads  \* of the CPU pool

ASSUME RippingAssumption ==
  /\ Total \in Nat \ {0} /\ Threads \in Nat \ {0}
  /\ Outputs \subseteq Nat /\ Outputs # {}

VARIABLES
  rip,    \* where RippingTask::Run is
  enc,    \* the EncodingTasks
  cpu,    \* the queue of the CPU pool
  disk,   \* the tasks whose files TagRenameTasks are to rename
  file,   \* the files they write
  asked   \* the tasks that Done has called RenameAndTag of, once it is called

vars == <<streamVars, rip, enc, cpu, disk, file, asked>>

RipPlaces == {"start", "push", "open", "read", "write", "done", "failed"}
EncPlaces == {"idle", "run", "wait", "finish", "failed", "done"}

(* What a rename comes to: a file whose rename failed keeps the name that  *)
(* it has.                                                                 *)
Outcomes == {"new", "kept"}

TypeOK ==
  /\ inputpos \in 0..Total
  /\ outputpos \in [Outputs -> 0..inputpos]
  /\ callbacks \subseteq Outputs /\ lost \subseteq Outputs
  /\ swap \in [left : SUBSET Outputs, of : SUBSET Outputs, cb : BOOLEAN]
  /\ rip \in [at : RipPlaces, left : SUBSET Outputs]
  /\ enc \in [Outputs -> [at : EncPlaces, state : {"STARTING", "RUNNING"},
                          late : BOOLEAN, wanted : BOOLEAN]]
  /\ cpu \in Seq(Outputs)
  /\ disk \subseteq Outputs /\ asked \subseteq Outputs
  /\ file \in [Outputs -> [open : BOOLEAN, name : {"none", "temporary"} \cup Outcomes,
                           renames : 0..1]]

Init ==
  /\ StreamInit
  /\ rip = [at |-> "start", left |-> Outputs]
  /\ enc = [o \in Outputs |-> [at |-> "idle", state |-> "STARTING",
                               late |-> FALSE, wanted |-> FALSE]]
  /\ cpu = <<>> /\ disk = {} /\ asked = {}
  /\ file = [o \in Outputs |-> [open |-> FALSE, name |-> "none", renames |-> 0]]

Running      == {o \in Outputs : enc[o].at \in {"run", "wait", "finish"}}
Goes(o, at)  == enc' = [enc EXCEPT ![o].at = at]
RipGoes(at)  == rip' = [rip EXCEPT !.at = at]
-----------------------------------------------------------------------------
(* RippingTask::Run.  There may be no room for a temporary file.           *)
RipBegins ==
  /\ rip.at = "start"
  /\ RipGoes("push") \/ RipGoes("failed")
  /\ UNCHANGED <<streamVars, enc, cpu, disk, file, asked>>

RipPushes(o) ==
  /\ rip.at = "push" /\ NextOf(o, rip.left)
  /\ rip' = [at |-> IF rip.left = {o} THEN "open" ELSE "push", left |-> rip.left \ {o}]
  /\ cpu' = Append(cpu, o)
  /\ UNCHANGED <<streamVars, enc, disk, file, asked>>

(* The drive gives a stream, and the stream a lump, or an error.           *)
RipOpens ==
  /\ rip.at = "open"
  /\ RipGoes("read") \/ RipGoes("failed")
  /\ UNCHANGED <<streamVars, enc, cpu, disk, file, asked>>

RipFails ==
  /\ rip.at = "read" /\ inputpos < Total
  /\ RipGoes("failed")
  /\ UNCHANGED <<streamVars, enc, cpu, disk, file, asked>>

RipWrites ==
  /\ rip.at = "read" /\ WriteLump
  /\ RipGoes("write")
  /\ UNCHANGED <<enc, cpu, disk, file, asked>>

RipSwaps(o) ==
  /\ rip.at = "write" /\ BeginSwap(o)
  /\ UNCHANGED <<rip, enc, cpu, disk, file, asked>>

(* OnReadable pushes the task to the front of the queue.                   *)
RipCalls(o) ==
  /\ rip.at = "write" /\ EndSwap(o)
  /\ cpu' = IF swap.cb THEN <<o>> \o cpu ELSE cpu
  /\ rip' = IF swap.left # {} THEN rip
            ELSE [rip EXCEPT !.at = IF inputpos = Total THEN "done" ELSE "read"]
  /\ UNCHANGED <<enc, disk, file, asked>>
-----------------------------------------------------------------------------
(* A thread of the CPU pool takes the first task there is.  The first time *)
(* it opens the file, and the encoder may refuse to start.                 *)
Starts ==
  /\ cpu # <<>> /\ Cardinality(Running) < Threads
  /\ cpu' = Tail(cpu)
  /\ LET o == Head(cpu) IN
     IF enc[o].state = "RUNNING" THEN Goes(o, "run") /\ UNCHANGED file
     ELSE /\ \/ enc' = [enc EXCEPT ![o].at = "run", ![o].state = "RUNNING"]
             \/ Goes(o, "failed")
          /\ file' = [file EXCEPT ![o].open = TRUE, ![o].name = "temporary"]
  /\ UNCHANGED <<streamVars, rip, disk, asked>>

(* One turn of EncodingTask's loop.                                        *)
Encodes(o) ==
  /\ enc[o].at = "run" /\ OutputRead(o)
  /\ Goes(o, "run") \/ Goes(o, "failed")
  /\ UNCHANGED <<rip, cpu, disk, file, asked>>

Blocks(o) ==
  /\ enc[o].at = "run" /\ WouldBlock(o)
  /\ Goes(o, "wait")
  /\ UNCHANGED <<streamVars, rip, cpu, disk, file, asked>>

Waits(o) ==
  /\ enc[o].at = "wait" /\ OutputWait(o)
  /\ Goes(o, "idle")
  /\ cpu' = IF Arrived(o) THEN <<o>> \o cpu ELSE cpu
  /\ UNCHANGED <<rip, disk, file, asked>>

(* The end of the stream.  The encoder finishes, and everything is written *)
(* out before the streams go.                                              *)
Finishes(o) ==
  /\ enc[o].at = "run" /\ AtEnd(o)
  /\ \/ Goes(o, "finish") /\ file' = [file EXCEPT ![o].open = FALSE]
     \/ Goes(o, "failed") /\ UNCHANGED file
  /\ UNCHANGED <<streamVars, rip, cpu, disk, asked>>

Renamed(o, outcome) ==
  [file EXCEPT ![o] = [open |-> @.open, name |-> outcome, renames |-> @.renames + 1]]

(* With m_rename_mutex.  Nobody looks at what the rename comes to.         *)
TurnsLate(o) ==
  /\ enc[o].at = "finish"
  /\ enc' = [enc EXCEPT ![o].at = "done", ![o].late = TRUE, ![o].wanted = FALSE]
  /\ IF enc[o].wanted THEN \E outcome \in Outcomes : file' = Renamed(o, outcome)
     ELSE UNCHANGED file
  /\ UNCHANGED <<streamVars, rip, cpu, disk, asked>>
-----------------------------------------------------------------------------
(* RippingControl::Done, once, calls EncodingTask::RenameAndTag.           *)
IsLate_Always(o) == TRUE
IsLate(o) == enc[o].late

RenameAndTag(o) ==
  /\ NextOf(o, Outputs \ asked)
  /\ asked' = asked \cup {o}
  /\ IF IsLate(o) THEN disk' = disk \cup {o} /\ UNCHANGED enc
     ELSE enc' = [enc EXCEPT ![o].wanted = TRUE] /\ UNCHANGED disk
  /\ UNCHANGED <<streamVars, rip, cpu, file>>

(* TagRenameTask::Run, which tells its observer of an error, and ends.     *)
DiskRenames(o) ==
  /\ o \in disk /\ disk' = disk \ {o}
  /\ \E outcome \in Outcomes : file' = Renamed(o, outcome)
  /\ UNCHANGED <<streamVars, rip, enc, cpu, asked>>
-----------------------------------------------------------------------------
Drive   == \/ RipBegins \/ RipOpens \/ RipFails \/ RipWrites
           \/ \E o \in Outputs : RipPushes(o) \/ RipSwaps(o) \/ RipCalls(o)
Encoder(o) == Encodes(o) \/ Blocks(o) \/ Waits(o) \/ Finishes(o) \/ TurnsLate(o)
Done    == \E o \in Outputs : RenameAndTag(o)
Disk    == \E o \in Outputs : DiskRenames(o)

Next == Drive \/ Starts \/ (\E o \in Outputs : Encoder(o)) \/ Done \/ Disk

Spec == Init /\ [][Next]_vars
FairSpec == /\ Spec /\ WF_vars(Drive) /\ WF_vars(Starts) /\ WF_vars(Disk)
            /\ \A o \in Outputs : WF_vars(Encoder(o))
-----------------------------------------------------------------------------
(* A task is in one place at most: queued once, or run by one thread, or   *)
(* waiting to be called.                                                   *)
OneRunEach ==
  \A o \in Outputs :
    LET queued == {i \in DOMAIN cpu : cpu[i] = o} IN
    /\ Cardinality(queued) <= 1
    /\ Cardinality({p \in {"queue", "thread", "callback"} :
         \/ p = "queue"    /\ queued # {}
         \/ p = "thread"   /\ o \in Running
         \/ p = "callback" /\ o \in callbacks}) <= 1

(* A task is not run twice at a time.  And "we must mutex ourselves from   *)
(* the task doing the actual encoding" (encoding_task.cpp): a file is      *)
(* renamed and tagged once, by the encoding task or by another, and not    *)
(* while it is still being written.                                        *)
TasksExclude ==
  /\ TypeOK /\ OneRunEach
  /\ \A o \in Outputs :
       /\ o \in disk \/ file[o].name \in Outcomes => ~file[o].open /\ ~enc[o].wanted
       /\ o \in disk => file[o].name = "temporary"

(* "Wait for the stream to become ready, then call the callback"           *)
(* (stream.h): a task that waits is queued again, for a lump or the end of *)
(* the stream, if the whole track can be read.  And whenever the user is   *)
(* done, each file that can be encoded is renamed once: it has its name,   *)
(* or the rename itself failed, which nothing repeats.  What else can keep *)
(* either from happening is the unlocked swap (multi_stream.cpp:187).      *)
AnsweredAndNamed ==
  \A o \in Outputs :
    /\ enc[o].at = "wait" ~> (rip.at = "failed" \/ Contains(cpu, o) \/ o \in lost)
    /\ (o \in asked /\ rip.at = "done")
         ~> (file[o].name \in Outcomes \/ enc[o].at = "failed" \/ o \in lost)
=============================================================================
