-------------------------- MODULE AsyncWriteBuffer --------------------------
(***************************************************************************)
(* util::AsyncWriteBuffer (src/libutil/async_write_buffer.cpp): a stream   *)
(* that collects what is written in one of two buffers and has a thread of *)
(* a pool write each full buffer to the stream underneath, while the       *)
(* caller fills the other one.  Reading, seeking and closing wait for both *)
(* writes and then write what is left on the caller's own thread.          *)
(*                                                                         *)
(* The caller is one thread, with one call at a time.  The mutex guards    *)
(* only m_busy; a step here is what happens between two looks at it.       *)
(***************************************************************************)
EXTENDS Naturals, Sequences, FiniteSets, SequencesExt

CONSTANTS
  Bytes, Zero,   (* what is written, and what a gap reads as               *)
  Offsets,       (* where calls write, and the lengths they set            *)
  MaxWrite,      (* the most a call writes                                 *)
  BufSize,       (* BUFSIZE                                                *)
  PoolThreads,   (* how many tasks the pool runs at a time                 *)
  MaxFailures,   (* how many writes of the stream underneath may fail      *)
  NoCall

ASSUME BufferAssumption ==
  /\ BufSize \in Nat \ {0}
  /\ PoolThreads \in Nat \ {0}
  /\ Offsets \subseteq Nat /\ MaxWrite \in Nat /\ MaxFailures \in Nat

Buffers == {0, 1}

VARIABLES
  call,       (* the caller's call                                         *)
  pc,         (* where the caller is in it                                 *)
  seen,       (* what the last read, or the destructor, found underneath   *)
  file,       (* the stream underneath                                     *)
  filling,    (* m_filling                                                 *)
  bufpos,     (* m_bufpos                                                  *)
  buf,        (* m_buf                                                     *)
  busy,       (* m_busy                                                    *)
  bufferOffset,   (* m_buffer_offset                                       *)
  currentOffset,  (* m_current_buffer_offset                               *)
  error,      (* m_error is set                                            *)
  queue,      (* the buffers whose tasks wait in the pool                  *)
  task,       (* where the running task of each buffer is                  *)
  failures    (* how many writes have failed                               *)

callerVars == <<call, pc, seen>>
fillVars   == <<filling, bufpos, currentOffset>>
bufferVars == <<buf, bufferOffset>>
poolVars   == <<queue, task>>
vars == <<callerVars, file, fillVars, bufferVars, busy, error, poolVars, failures>>

File == INSTANCE ByteFile WITH content <- file

ASSUME NoCallAssumption == NoCall \notin File!Calls

TypeOK ==
  /\ call \in File!Calls \cup {NoCall}
  /\ pc \in {"idle", "flush", "buffer", "copy", "destroyed"}
  /\ file \in Seq(Bytes \cup {Zero}) /\ seen \in Seq(Bytes \cup {Zero})
  /\ filling \in Buffers
  /\ bufpos \in 0..(BufSize - 1)
  /\ buf \in [Buffers -> Seq(Bytes)]
  /\ busy \in [Buffers -> BOOLEAN]
  /\ bufferOffset \in [Buffers -> Nat]
  /\ currentOffset \in Nat
  /\ error \in BOOLEAN
  /\ queue \in Seq(Buffers)
  /\ task \in [Buffers -> {"none", "write", "release"}]
  /\ failures \in 0..MaxFailures

Init ==
  /\ call = NoCall
  /\ pc = "idle"
  /\ seen = <<>>
  /\ file = <<>>
  /\ filling = 0
  /\ bufpos = 0
  /\ buf = [w \in Buffers |-> <<>>]
  /\ busy = [w \in Buffers |-> FALSE]
  /\ bufferOffset = [w \in Buffers |-> 0]
  /\ currentOffset = 0
  /\ error = FALSE
  /\ queue = <<>>
  /\ task = [w \in Buffers |-> "none"]
  /\ failures = 0

(* WriteAllAt of the stream underneath: all of it, or a part and an error. *)
WriteAllAt(pos, data) ==
  {[stream |-> File!Overwritten(file, pos, data), failed |-> FALSE]}
    \cup IF failures = MaxFailures \/ data = <<>> THEN {}
         ELSE {[stream |-> File!Overwritten(file, pos, SubSeq(data, 1, n)), failed |-> TRUE] :
                 n \in 0..(Len(data) - 1)}

Failed(yes) == failures' = IF yes THEN failures + 1 ELSE failures
-----------------------------------------------------------------------------
(***************************************************************************)
(* The caller                                                              *)
(***************************************************************************)

Position_Forgotten == currentOffset

(* Where the next consecutive write goes. *)
Position == currentOffset + bufpos

(* A write after an asynchronous write has failed is refused. *)
Begin ==
  /\ pc = "idle"
  /\ \E c \in File!Calls :
       /\ c.op = "write" => ~error
       /\ call' = c
       /\ pc' = IF c.op # "write" \/ c.pos # Position THEN "flush"
                ELSE IF bufpos = 0 THEN "buffer" ELSE "copy"
  /\ seen' = <<>>
  /\ UNCHANGED <<file, fillVars, bufferVars, busy, error, poolVars, failures>>

(* SynchronousFlush waits for both tasks. *)
AllFree == \A w \in Buffers : ~busy[w]

(* What it writes itself: what the buffer being filled holds, if anything. *)
Left == SubSeq(buf[filling], 1, bufpos)

(* SynchronousFlush, and what the call goes on to do with the stream.  The *)
(* model forgets what a free buffer holds.                                 *)
Flush ==
  /\ pc = "flush" /\ AllFree
  /\ \E r \in WriteAllAt(currentOffset, Left) :
       /\ Failed(r.failed)
       /\ file' = IF call.op = "length" THEN File!Resized(r.stream, call.pos) ELSE r.stream
       /\ seen' = IF call.op \in {"read", "close"} THEN r.stream ELSE seen
  /\ bufpos' = 0
  /\ buf' = [buf EXCEPT ![filling] = <<>>]
  /\ currentOffset' = IF call.op = "write" THEN call.pos ELSE Position
  /\ pc' = CASE call.op = "write" -> "buffer"
             [] call.op = "close" -> "destroyed"
             [] OTHER -> "idle"
  /\ call' = IF call.op \in {"write", "close"} THEN call ELSE NoCall
  /\ UNCHANGED <<filling, bufferOffset, busy, error, poolVars>>

SomeFree == \E w \in Buffers : ~busy[w]

FreeBuffer_Other == 1 - filling

(* The buffer that is filled next. *)
FreeBuffer == IF ~busy[0] THEN 0 ELSE 1

(* WriteAt waits until it has a buffer. *)
ChooseBuffer ==
  /\ pc = "buffer" /\ SomeFree
  /\ filling' = FreeBuffer
  /\ pc' = "copy"
  /\ UNCHANGED <<call, seen, file, bufpos, currentOffset, bufferVars, busy, error, poolVars, failures>>

(* As much of the write as there is room for. *)
Accepted == IF Len(call.data) < BufSize - bufpos THEN Len(call.data) ELSE BufSize - bufpos

(* WriteAt copies what fits, and hands a full buffer to the pool. *)
Copy ==
  /\ pc = "copy"
  /\ buf' = [buf EXCEPT ![filling] = Left \o SubSeq(call.data, 1, Accepted)]
  /\ IF bufpos + Accepted = BufSize
     THEN /\ busy' = [busy EXCEPT ![filling] = TRUE]
          /\ bufferOffset' = [bufferOffset EXCEPT ![filling] = currentOffset]
          /\ currentOffset' = currentOffset + BufSize
          /\ queue' = Append(queue, filling)
          /\ bufpos' = 0
     ELSE /\ bufpos' = bufpos + Accepted
          /\ UNCHANGED <<busy, bufferOffset, currentOffset, queue>>
  /\ call' = NoCall
  /\ pc' = "idle"
  /\ UNCHANGED <<seen, file, filling, error, task, failures>>
-----------------------------------------------------------------------------
(***************************************************************************)
(* The pool's threads                                                      *)
(***************************************************************************)

Running == {w \in Buffers : task[w] # "none"}

(* A task does nothing at all, not even free its buffer, after an error. *)
FirstStep == IF error THEN "none" ELSE "write"

StartTask ==
  /\ queue # <<>> /\ Cardinality(Running) < PoolThreads
  /\ task' = [task EXCEPT ![Head(queue)] = FirstStep]
  /\ queue' = Tail(queue)
  /\ UNCHANGED <<callerVars, file, fillVars, bufferVars, busy, error, failures>>

Write(w) ==
  /\ task[w] = "write"
  /\ \E r \in WriteAllAt(bufferOffset[w], buf[w]) :
       /\ file' = r.stream
       /\ error' = (error \/ r.failed)
       /\ Failed(r.failed)
  /\ task' = [task EXCEPT ![w] = "release"]
  /\ UNCHANGED <<callerVars, fillVars, bufferVars, busy, queue>>

(* The buffer is free, as the model sees it with nothing in it. *)
Release(w) ==
  /\ task[w] = "release"
  /\ busy' = [busy EXCEPT ![w] = FALSE]
  /\ task' = [task EXCEPT ![w] = "none"]
  /\ buf' = [buf EXCEPT ![w] = <<>>]
  /\ bufferOffset' = [bufferOffset EXCEPT ![w] = 0]
  /\ UNCHANGED <<callerVars, file, fillVars, error, queue, failures>>
-----------------------------------------------------------------------------
Caller == Begin \/ Flush \/ ChooseBuffer \/ Copy

Pool == StartTask \/ \E w \in Buffers : Write(w) \/ Release(w)

Next == Caller \/ Pool

Spec == Init /\ [][Next]_vars
-----------------------------------------------------------------------------
(***************************************************************************)
(* Properties                                                              *)
(***************************************************************************)

(* Buffers whose contents are still to be written. *)
Outstanding == Range(queue) \cup {w \in Buffers : task[w] = "write"}

(* The buffer being filled belongs to no task: what a thread is writing,   *)
(* or will write, is never written over by the caller.                     *)
FillingNotShared ==
  pc = "copy" \/ bufpos > 0 => filling \notin Outstanding \cup Running

Extent(off, len) == (off + 1)..(off + len)

(* The writes under way, and the part of the buffer being filled, never    *)
(* overlap, so that their order does not matter.                           *)
WritesAreDisjoint ==
  /\ \A v, w \in Outstanding : v # w =>
       Extent(bufferOffset[v], BufSize) \cap Extent(bufferOffset[w], BufSize) = {}
  /\ \A w \in Outstanding :
       Extent(bufferOffset[w], BufSize) \cap Extent(currentOffset, bufpos) = {}

(* Nothing runs that could touch the object once it has been destroyed. *)
NothingAfterDestruction ==
  pc = "destroyed" => queue = <<>> /\ Running = {}

(* The buffers need no lock of their own, whatever fails.                  *)
BuffersAreSafe == TypeOK /\ FillingNotShared /\ WritesAreDisjoint /\ NothingAfterDestruction

(* The bytes of the stream: the file, with what is on its way to it. *)
WithBuffers ==
  LET queued(s, w) == IF w \in Outstanding
                      THEN File!Overwritten(s, bufferOffset[w], buf[w]) ELSE s
  IN  File!Overwritten(queued(queued(file, 0), 1), currentOffset, Left)

(* While no write fails, a caller cannot tell the buffer from the stream   *)
(* it writes to: each read sees every write before it, and when the        *)
(* destructor has returned everything is underneath.                       *)
Stream == INSTANCE ByteFile WITH content <- WithBuffers

ImplementsFile ==
  Stream!Init /\ [][failures' = 0 => Stream!Next \/ UNCHANGED Stream!vars]_vars
=============================================================================
