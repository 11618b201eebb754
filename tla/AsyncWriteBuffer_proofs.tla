----------------------- MODULE AsyncWriteBuffer_proofs -----------------------
(***************************************************************************)
(* What holds of the two buffers for every buffer size, every pool and any *)
(* number of failing writes: the caller and the pool's threads share no    *)
(* buffer and no part of the file, and the destructor outlives the tasks.  *)
(***************************************************************************)
EXTENDS AsyncWriteBuffer, SequenceTheorems, TLAPS

(* Types, as far as the argument needs them. *)
Types ==
  /\ call \in File!Calls \cup {NoCall}
  /\ pc \in {"idle", "flush", "buffer", "copy", "destroyed"}
  /\ filling \in Buffers
  /\ bufpos \in 0..(BufSize - 1)
  /\ busy \in [Buffers -> BOOLEAN]
  /\ bufferOffset \in [Buffers -> Nat]
  /\ currentOffset \in Nat
  /\ queue \in Seq(Buffers)
  /\ task \in [Buffers -> {"none", "write", "release"}]

Elements(q) == {q[i] : i \in DOMAIN q}
Distinct(q) == \A i, j \in DOMAIN q : q[i] = q[j] => i = j

Queued == Elements(queue)

(* A buffer is busy while it waits in the pool or a task runs on it, and   *)
(* is in the pool's hands once.                                            *)
BusyWhileInPool ==
  /\ \A w \in Queued \cup Running : busy[w]
  /\ Queued \cap Running = {}
  /\ Distinct(queue)

(* What the caller has found out before it goes on. *)
CallerHolds ==
  /\ pc = "copy" \/ bufpos > 0 => ~busy[filling]
  /\ pc = "buffer" => bufpos = 0
  /\ pc = "destroyed" => AllFree /\ bufpos = 0
  /\ pc \in {"flush", "buffer", "copy"} => call \in File!Calls

Pending == Queued \cup {w \in Buffers : task[w] = "write"}

(* Everything in the pool's hands lies before the part being filled, and   *)
(* in an extent of its own.                                                *)
Behind ==
  /\ \A w \in Pending : bufferOffset[w] + BufSize <= currentOffset
  /\ \A v, w \in Pending : v # w =>
       \/ bufferOffset[v] + BufSize <= bufferOffset[w]
       \/ bufferOffset[w] + BufSize <= bufferOffset[v]

IInv == Types /\ BusyWhileInPool /\ CallerHolds /\ Behind
-----------------------------------------------------------------------------
(* What a call asks for is in range. *)
LEMMA CallTypes ==
  ASSUME NEW c \in File!Calls
  PROVE  c.pos \in Nat /\ Len(c.data) \in Nat
<1> DEFINE Data == UNION {[1..n -> Bytes] : n \in 1..MaxWrite}
<1>1. CASE c \in [op : {"write"}, pos : Offsets, data : Data]
  <2>1. c.data \in Data /\ c.pos \in Offsets
    <3> HIDE DEF Data
    <3> QED BY <1>1
  <2>2. PICK n \in 1..MaxWrite : c.data \in [1..n -> Bytes]
    BY <2>1
  <2>3. n \in Nat /\ Len(c.data) = n
    BY <2>2, BufferAssumption
  <2> QED BY <2>1, <2>3, BufferAssumption
<1>2. CASE c \in [op : {"read", "close"}, pos : {0}, data : {<<>>}]
  BY <1>2
<1>3. CASE c \in [op : {"length"}, pos : Offsets, data : {<<>>}]
  BY <1>3, BufferAssumption
<1> QED BY <1>1, <1>2, <1>3 DEF File!Calls

LEMMA QueuedAreBuffers == ASSUME Types PROVE Queued \subseteq Buffers
  BY DEF Types, Queued, Elements

(* What leaves the queue, and what is left of it. *)
LEMMA HeadLeaves ==
  ASSUME Types, BusyWhileInPool, queue # <<>>
  PROVE  /\ Head(queue) \in Queued
         /\ Tail(queue) \in Seq(Buffers)
         /\ Elements(Tail(queue)) = Queued \ {Head(queue)}
         /\ Distinct(Tail(queue))
<1> DEFINE t == Tail(queue)
<1>1. /\ Len(queue) \in Nat /\ Len(queue) > 0
      /\ t \in Seq(Buffers) /\ Len(t) = Len(queue) - 1
      /\ \A i \in 1..Len(t) : t[i] = queue[i + 1]
      /\ Head(queue) = queue[1]
  BY HeadTailProperties, EmptySeq DEF Types
<1>2. DOMAIN queue = 1..Len(queue) /\ DOMAIN t = 1..Len(t)
  BY <1>1 DEF Types
<1>3. \A i \in 2..Len(queue) : queue[i] # queue[1] /\ i - 1 \in DOMAIN t /\ t[i - 1] = queue[i]
  BY <1>1, <1>2 DEF BusyWhileInPool, Distinct
<1>4. \A i \in DOMAIN t : i + 1 \in 2..Len(queue) /\ t[i] = queue[i + 1]
  BY <1>1, <1>2
<1>5. Elements(t) = Queued \ {Head(queue)}
  <2>1. ASSUME NEW i \in DOMAIN t PROVE t[i] \in Queued \ {Head(queue)}
    BY <1>1, <1>2, <1>3, <1>4, <2>1 DEF Queued, Elements
  <2>2. ASSUME NEW i \in DOMAIN queue, queue[i] # queue[1] PROVE queue[i] \in Elements(t)
    <3>1. i \in 2..Len(queue)
      BY <1>1, <1>2, <2>2
    <3> QED BY <1>3, <3>1 DEF Elements
  <2> QED BY <1>1, <2>1, <2>2 DEF Queued, Elements
<1>6. Distinct(t)
  BY <1>1, <1>2, <1>4 DEF BusyWhileInPool, Distinct
<1>7. Head(queue) \in Queued
  BY <1>1, <1>2 DEF Queued, Elements
<1> QED BY <1>1, <1>5, <1>6, <1>7

(* What joins the queue. *)
LEMMA LastJoins ==
  ASSUME Types, BusyWhileInPool, NEW w \in Buffers, w \notin Queued
  PROVE  /\ Append(queue, w) \in Seq(Buffers)
         /\ Elements(Append(queue, w)) = Queued \cup {w}
         /\ Distinct(Append(queue, w))
<1> DEFINE q == Append(queue, w)
<1>1. /\ Len(queue) \in Nat
      /\ q \in Seq(Buffers) /\ Len(q) = Len(queue) + 1
      /\ \A i \in 1..Len(queue) : q[i] = queue[i]
      /\ q[Len(queue) + 1] = w
  BY AppendProperties DEF Types
<1>2. DOMAIN queue = 1..Len(queue) /\ DOMAIN q = 1..(Len(queue) + 1)
  BY <1>1 DEF Types
<1>3. Elements(q) = Queued \cup {w}
  BY <1>1, <1>2 DEF Queued, Elements
<1>4. \A i \in DOMAIN queue : queue[i] # w
  BY DEF Queued, Elements
<1>5. Distinct(q)
  BY <1>1, <1>2, <1>4 DEF BusyWhileInPool, Distinct
<1> QED BY <1>1, <1>3, <1>5

LEMMA InitEstablishes == Init => IInv
  BY BufferAssumption
  DEF Init, IInv, Types, BusyWhileInPool, CallerHolds, Behind, Queued, Elements, Distinct, Running, Pending,
      Buffers, AllFree
-----------------------------------------------------------------------------
(* The caller's steps *)

LEMMA BeginKeeps == ASSUME IInv, Begin PROVE IInv'
<1> USE DEF IInv, Begin, poolVars, fillVars, bufferVars, Queued, Running, Pending
<1>1. Types'
  BY DEF Types
<1>2. BusyWhileInPool'
  BY DEF BusyWhileInPool
<1>3. CallerHolds'
  BY DEF CallerHolds, Types, AllFree
<1>4. Behind'
  BY DEF Behind
<1> QED BY <1>1, <1>2, <1>3, <1>4

(* With both buffers free, nothing is in the pool's hands. *)
LEMMA NothingPending ==
  ASSUME IInv, AllFree
  PROVE  Queued = {} /\ Running = {} /\ Pending = {}
<1>1. Queued \subseteq Buffers
  BY QueuedAreBuffers DEF IInv
<1>2. Queued = {} /\ Running = {}
  BY <1>1 DEF IInv, BusyWhileInPool, AllFree, Running
<1> QED BY <1>2 DEF Pending, Running

LEMMA FlushKeeps == ASSUME IInv, Flush PROVE IInv'
<1> USE DEF IInv, Flush
<1>1. Pending = {} /\ Pending' = {}
  BY NothingPending DEF Pending, Queued, poolVars
<1>2. call \in File!Calls /\ call.pos \in Nat
  BY CallTypes DEF CallerHolds
<1>3. Types'
  BY <1>2, BufferAssumption DEF Types, Position, poolVars
<1>4. BusyWhileInPool'
  BY DEF BusyWhileInPool, poolVars, Queued, Running
<1>5. CallerHolds'
  BY <1>2 DEF CallerHolds, AllFree, Types
<1>6. Behind'
  BY <1>1 DEF Behind
<1> QED BY <1>3, <1>4, <1>5, <1>6

LEMMA ChooseBufferKeeps == ASSUME IInv, ChooseBuffer PROVE IInv'
<1> USE DEF IInv, ChooseBuffer, poolVars, bufferVars, Queued, Running, Pending
<1>1. Types'
  BY DEF Types, FreeBuffer, Buffers
<1>2. BusyWhileInPool'
  BY DEF BusyWhileInPool
<1>3. CallerHolds'
  BY DEF CallerHolds, SomeFree, FreeBuffer, Buffers, Types
<1>4. Behind'
  BY DEF Behind
<1> QED BY <1>1, <1>2, <1>3, <1>4

LEMMA CopyKeeps == ASSUME IInv, Copy PROVE IInv'
<1> USE DEF IInv, Copy, Types
<1>1. call \in File!Calls /\ Len(call.data) \in Nat
  BY CallTypes DEF CallerHolds
<1>2. Accepted \in Nat /\ bufpos + Accepted <= BufSize
  BY <1>1, BufferAssumption DEF Accepted
<1>3. ~busy[filling] /\ filling \notin Queued /\ filling \notin Running
  BY DEF CallerHolds, BusyWhileInPool
<1>4. CASE bufpos + Accepted = BufSize
  <2> DEFINE q == Append(queue, filling)
  <2>1. queue' = q /\ bufpos' = 0 /\ currentOffset' = currentOffset + BufSize
    BY <1>4
  <2>2. /\ q \in Seq(Buffers)
        /\ Queued' = Queued \cup {filling}
        /\ Distinct(queue')
    BY <1>3, <2>1, LastJoins DEF Queued
  <2>3. Running' = Running /\ Pending' = Pending \cup {filling}
    BY <2>2 DEF Running, Pending
  <2>4. Types'
    <3>1. /\ busy' = [busy EXCEPT ![filling] = TRUE]
          /\ bufferOffset' = [bufferOffset EXCEPT ![filling] = currentOffset]
          /\ UNCHANGED <<filling, task>>
      BY <1>4
    <3>2. busy' \in [Buffers -> BOOLEAN] /\ bufferOffset' \in [Buffers -> Nat]
      BY <3>1
    <3>3. bufpos' \in 0..(BufSize - 1) /\ currentOffset' \in Nat
      BY <2>1, BufferAssumption
    <3>4. call' = NoCall /\ pc' = "idle"
      OBVIOUS
    <3> QED BY <2>1, <2>2, <3>1, <3>2, <3>3, <3>4
  <2>5. BusyWhileInPool'
    <3>1. Queued \cup Running \subseteq Buffers
      BY QueuedAreBuffers DEF Running
    <3>2. \A w \in Buffers : busy'[w] <=> busy[w] \/ w = filling
      BY <1>4
    <3> QED BY <1>3, <2>2, <2>3, <3>1, <3>2 DEF BusyWhileInPool
  <2>6. CallerHolds'
    BY <2>1 DEF CallerHolds
  <2>7. /\ Pending \subseteq Buffers /\ filling \notin Pending
        /\ bufferOffset' = [bufferOffset EXCEPT ![filling] = currentOffset]
    BY <1>3, <1>4, QueuedAreBuffers DEF Pending, Running
  <2>8. /\ bufferOffset'[filling] = currentOffset
        /\ \A w \in Pending : bufferOffset'[w] = bufferOffset[w] /\ bufferOffset[w] \in Nat
    BY <2>7
  <2>9. Behind'
    <3>1. \A w \in Pending' : bufferOffset'[w] + BufSize <= currentOffset'
      BY <2>1, <2>3, <2>8, BufferAssumption DEF Behind
    <3>2. \A v \in Pending : bufferOffset'[v] + BufSize <= bufferOffset'[filling]
      BY <2>8 DEF Behind
    <3>3. \A v, w \in Pending : v # w =>
            \/ bufferOffset'[v] + BufSize <= bufferOffset'[w]
            \/ bufferOffset'[w] + BufSize <= bufferOffset'[v]
      BY <2>8 DEF Behind
    <3> QED BY <2>3, <3>1, <3>2, <3>3 DEF Behind
  <2> QED BY <2>4, <2>5, <2>6, <2>9
<1>5. CASE bufpos + Accepted # BufSize
  <2>1. Types'
    BY <1>2, <1>5, BufferAssumption
  <2>2. BusyWhileInPool'
    BY <1>5 DEF BusyWhileInPool, Queued, Running
  <2>3. CallerHolds'
    BY <1>3, <1>5 DEF CallerHolds
  <2>4. Behind'
    BY <1>5 DEF Behind, Pending, Queued
  <2> QED BY <2>1, <2>2, <2>3, <2>4
<1> QED BY <1>4, <1>5
-----------------------------------------------------------------------------
(* The pool's steps *)

LEMMA StartTaskKeeps == ASSUME IInv, StartTask PROVE IInv'
<1> USE DEF IInv, StartTask, callerVars, fillVars, bufferVars
<1> DEFINE w == Head(queue)
<1>1. /\ w \in Queued /\ Queued \subseteq Buffers /\ queue' \in Seq(Buffers)
      /\ Queued' = Queued \ {w}
      /\ Distinct(queue')
  BY HeadLeaves, QueuedAreBuffers DEF Queued
<1>2. /\ task' = [task EXCEPT ![w] = FirstStep] /\ FirstStep \in {"none", "write"}
      /\ w \in Buffers
  BY <1>1 DEF FirstStep
<1>3. Running' \subseteq Running \cup {w} /\ Pending' \subseteq Pending
  BY <1>1, <1>2 DEF Running, Pending, Types
<1>4. Types'
  BY <1>1, <1>2 DEF Types
<1>5. BusyWhileInPool'
  BY <1>1, <1>3 DEF BusyWhileInPool
<1>6. CallerHolds'
  BY DEF CallerHolds, AllFree
<1>7. Behind'
  BY <1>3 DEF Behind
<1> QED BY <1>4, <1>5, <1>6, <1>7

LEMMA WriteKeeps == ASSUME IInv, NEW w \in Buffers, Write(w) PROVE IInv'
<1> USE DEF IInv, Write, callerVars, fillVars, bufferVars
<1>1. Running' = Running /\ Pending' \subseteq Pending /\ Queued' = Queued
  BY DEF Running, Pending, Queued, Types
<1>2. Types'
  BY DEF Types
<1>3. BusyWhileInPool'
  BY <1>1 DEF BusyWhileInPool
<1>4. CallerHolds'
  BY DEF CallerHolds, AllFree
<1>5. Behind'
  BY <1>1 DEF Behind
<1> QED BY <1>2, <1>3, <1>4, <1>5

LEMMA ReleaseKeeps == ASSUME IInv, NEW w \in Buffers, Release(w) PROVE IInv'
<1> USE DEF IInv, Release, callerVars, fillVars
<1>1. Running' = Running \ {w} /\ Queued' = Queued /\ w \in Running
  BY DEF Running, Queued, Types
<1>2. w \notin Queued /\ w \notin Pending
  BY <1>1 DEF BusyWhileInPool, Pending
<1>3. Pending' = Pending /\ Pending \subseteq Buffers
  BY <1>1, <1>2, QueuedAreBuffers DEF Pending, Types
<1>4. Types'
  BY DEF Types
<1>5. BusyWhileInPool'
  BY <1>1, <1>2 DEF BusyWhileInPool, Types, Running, Queued
<1>6. CallerHolds'
  BY DEF CallerHolds, AllFree, Types
<1>7. Behind'
  BY <1>2, <1>3 DEF Behind, Types
<1> QED BY <1>4, <1>5, <1>6, <1>7

(* Every step keeps the invariant, and so does a stutter. *)
LEMMA StepKeeps == IInv /\ [Next]_vars => IInv'
<1> SUFFICES ASSUME IInv, [Next]_vars PROVE IInv'
  OBVIOUS
<1>1. CASE Begin        BY <1>1, BeginKeeps
<1>2. CASE Flush        BY <1>2, FlushKeeps
<1>3. CASE ChooseBuffer BY <1>3, ChooseBufferKeeps
<1>4. CASE Copy         BY <1>4, CopyKeeps
<1>5. CASE StartTask    BY <1>5, StartTaskKeeps
<1>6. CASE \E w \in Buffers : Write(w)   BY <1>6, WriteKeeps
<1>7. CASE \E w \in Buffers : Release(w) BY <1>7, ReleaseKeeps
<1>8. CASE UNCHANGED vars
  BY <1>8 DEF vars, callerVars, fillVars, bufferVars, poolVars, IInv, Types, BusyWhileInPool,
     CallerHolds, Behind, Queued, Elements, Distinct, Running, Pending, AllFree
<1> QED BY <1>1, <1>2, <1>3, <1>4, <1>5, <1>6, <1>7, <1>8 DEF Next, Caller, Pool

LEMMA Invariance == Spec => []IInv
  BY InitEstablishes, StepKeeps, PTL DEF Spec
-----------------------------------------------------------------------------
LEMMA RangeIsQueued == ASSUME IInv PROVE Outstanding = Pending
  BY DEF Outstanding, Pending, Queued, Elements, Range

(* The caller never fills a buffer that a thread is writing, or will       *)
(* write: the copy in WriteAt needs no lock.                               *)
THEOREM FillingIsSafe == Spec => []FillingNotShared
<1>1. IInv => FillingNotShared
  BY RangeIsQueued DEF IInv, CallerHolds, BusyWhileInPool, FillingNotShared, Pending, Running
<1> QED BY <1>1, Invariance, PTL

(* The writes that may run at the same time, and the part of the file that *)
(* the caller will write itself, never overlap: the threads of the pool    *)
(* may write them in any order.                                            *)
THEOREM WritesCommute == Spec => []WritesAreDisjoint
<1>1. ASSUME IInv PROVE WritesAreDisjoint
  <2>1. Outstanding = Pending /\ Pending \subseteq Buffers
    BY <1>1, RangeIsQueued, QueuedAreBuffers DEF Pending, IInv
  <2>2. \A w \in Pending : bufferOffset[w] \in Nat
    BY <1>1, <2>1 DEF IInv, Types
  <2>3. currentOffset \in Nat /\ bufpos \in Nat /\ BufSize \in Nat
    BY <1>1, BufferAssumption DEF IInv, Types
  <2>4. \A v, w \in Pending : v # w =>
          Extent(bufferOffset[v], BufSize) \cap Extent(bufferOffset[w], BufSize) = {}
    BY <1>1, <2>2, <2>3 DEF IInv, Behind, Extent
  <2>5. \A w \in Pending :
          Extent(bufferOffset[w], BufSize) \cap Extent(currentOffset, bufpos) = {}
    BY <1>1, <2>2, <2>3 DEF IInv, Behind, Extent
  <2> QED BY <2>1, <2>4, <2>5 DEF WritesAreDisjoint
<1> QED BY <1>1, Invariance, PTL

(* When the destructor has freed the buffers, no task is left that would   *)
(* use them, whatever has failed.                                          *)
THEOREM DestructorIsLast == Spec => []NothingAfterDestruction
<1>1. ASSUME IInv PROVE NothingAfterDestruction
  <2> SUFFICES ASSUME pc = "destroyed" PROVE queue = <<>> /\ Running = {}
    BY DEF NothingAfterDestruction
  <2>1. Queued = {} /\ Running = {}
    BY <1>1, NothingPending DEF IInv, CallerHolds
  <2>2. queue \in Seq(Buffers) /\ DOMAIN queue = 1..Len(queue) /\ Len(queue) \in Nat
    BY <1>1 DEF IInv, Types
  <2>3. queue = <<>>
    <3> SUFFICES ASSUME queue # <<>> PROVE FALSE
      OBVIOUS
    <3>1. 1 \in DOMAIN queue
      BY <2>2, EmptySeq
    <3> QED BY <2>1, <3>1 DEF Queued, Elements
  <2> QED BY <2>1, <2>3
<1> QED BY <1>1, Invariance, PTL
-----------------------------------------------------------------------------
(* What the argument above does not need: the bytes.                       *)

Streams == Seq(Bytes \cup {Zero})

ByteTypes ==
  /\ file \in Streams /\ seen \in Streams
  /\ buf \in [Buffers -> Seq(Bytes)]
  /\ error \in BOOLEAN
  /\ failures \in 0..MaxFailures
  /\ bufpos <= Len(buf[filling])

LEMMA CallData ==
  ASSUME NEW c \in File!Calls
  PROVE  c.data \in Seq(Bytes)
<1> DEFINE Data == UNION {[1..n -> Bytes] : n \in 1..MaxWrite}
<1>1. CASE c \in [op : {"write"}, pos : Offsets, data : Data]
  <2>1. c.data \in Data
    <3> HIDE DEF Data
    <3> QED BY <1>1
  <2>2. PICK n \in 1..MaxWrite : c.data \in [1..n -> Bytes]
    BY <2>1
  <2>3. n \in Nat
    BY BufferAssumption
  <2> QED BY <2>2, <2>3
<1>2. CASE c \notin [op : {"write"}, pos : Offsets, data : Data]
  <2>1. c.data = <<>>
    <3> HIDE DEF Data
    <3> QED BY <1>2 DEF File!Calls, Data
  <2> QED BY <2>1
<1> QED BY <1>1, <1>2

(* What is written over a stream is a stream, with or without a gap.       *)
LEMMA OverwrittenStream ==
  ASSUME NEW s \in Streams, NEW p \in Nat, NEW d \in Seq(Bytes)
  PROVE  File!Overwritten(s, p, d) \in Streams
<1> DEFINE n == IF p + Len(d) > Len(s) THEN p + Len(d) ELSE Len(s)
           f(i) == IF i - p \in DOMAIN d THEN d[i - p] ELSE File!At(s, i)
<1>1. CASE d = <<>>
  BY <1>1 DEF File!Overwritten
<1>2. CASE d # <<>>
  <2>1. n \in Nat /\ Len(s) \in Nat
    OBVIOUS
  <2>2. \A i \in 1..n : f(i) \in Bytes \cup {Zero}
    BY DEF Streams, File!At
  <2>3. [i \in 1..n |-> f(i)] \in Streams
    <3> HIDE DEF n, f
    <3> QED BY <2>1, <2>2 DEF Streams
  <2> QED BY <1>2, <2>3 DEF File!Overwritten
<1> QED BY <1>1, <1>2

LEMMA ResizedStream ==
  ASSUME NEW s \in Streams, NEW n \in Nat
  PROVE  File!Resized(s, n) \in Streams
<1>1. \A i \in 1..n : File!At(s, i) \in Bytes \cup {Zero}
  BY DEF Streams, File!At
<1> QED BY <1>1 DEF Streams, File!Resized
LEMMA Prefix ==
  ASSUME NEW S, NEW q \in Seq(S), NEW n \in Nat, n <= Len(q)
  PROVE  SubSeq(q, 1, n) \in Seq(S) /\ Len(SubSeq(q, 1, n)) = n
  BY SubSeqProperties

(* Whatever comes of a write of the stream underneath.                     *)
LEMMA WriteTypes ==
  ASSUME ByteTypes, NEW p \in Nat, NEW d \in Seq(Bytes), NEW r \in WriteAllAt(p, d)
  PROVE  /\ r.stream \in Streams /\ r.failed \in BOOLEAN
         /\ r.failed => failures + 1 \in 0..MaxFailures
<1>1. CASE r = [stream |-> File!Overwritten(file, p, d), failed |-> FALSE]
  BY <1>1, OverwrittenStream DEF ByteTypes
<1>2. CASE r # [stream |-> File!Overwritten(file, p, d), failed |-> FALSE]
  <2>1. failures # MaxFailures /\ d # <<>>
    BY <1>2 DEF WriteAllAt
  <2>2. PICK n \in 0..(Len(d) - 1) :
          r = [stream |-> File!Overwritten(file, p, SubSeq(d, 1, n)), failed |-> TRUE]
    BY <1>2 DEF WriteAllAt
  <2>3. n \in Nat /\ n <= Len(d)
    OBVIOUS
  <2>4. SubSeq(d, 1, n) \in Seq(Bytes)
    BY <2>3, Prefix
  <2>5. r.stream \in Streams
    BY <2>2, <2>4, OverwrittenStream DEF ByteTypes
  <2> QED BY <2>1, <2>2, <2>5, BufferAssumption DEF ByteTypes
<1> QED BY <1>1, <1>2

LEMMA LeftTypes ==
  ASSUME Types, ByteTypes
  PROVE  Left \in Seq(Bytes) /\ Len(Left) = bufpos
<1>1. buf[filling] \in Seq(Bytes) /\ bufpos \in Nat /\ bufpos <= Len(buf[filling])
  BY BufferAssumption DEF Types, ByteTypes
<1> QED BY <1>1, Prefix DEF Left

LEMMA ByteInit == Init => ByteTypes
  BY BufferAssumption DEF Init, ByteTypes, Streams, Buffers

LEMMA ByteStep == IInv /\ ByteTypes /\ [Next]_vars => ByteTypes'
<1> SUFFICES ASSUME IInv, ByteTypes, [Next]_vars PROVE ByteTypes'
  OBVIOUS
<1>1. CASE Begin
  BY <1>1 DEF Begin, ByteTypes, Streams, poolVars, fillVars, bufferVars
<1>2. CASE Flush
  <2>1. PICK r \in WriteAllAt(currentOffset, Left) :
          /\ Failed(r.failed)
          /\ file' = IF call.op = "length" THEN File!Resized(r.stream, call.pos) ELSE r.stream
          /\ seen' = IF call.op \in {"read", "close"} THEN r.stream ELSE seen
    BY <1>2 DEF Flush
  <2>2. /\ r.stream \in Streams /\ r.failed \in BOOLEAN
        /\ r.failed => failures + 1 \in 0..MaxFailures
    BY LeftTypes, WriteTypes DEF IInv, Types
  <2>3. call.pos \in Nat
    BY <1>2, CallTypes DEF Flush, IInv, CallerHolds
  <2>4. file' \in Streams /\ seen' \in Streams
    BY <2>1, <2>2, <2>3, ResizedStream DEF ByteTypes
  <2>5. failures' \in 0..MaxFailures
    BY <2>1, <2>2 DEF Failed, ByteTypes
  <2>6. /\ bufpos' = 0 /\ UNCHANGED <<filling, error>>
        /\ buf' = [buf EXCEPT ![filling] = <<>>]
    BY <1>2 DEF Flush
  <2>7. buf' \in [Buffers -> Seq(Bytes)] /\ buf'[filling'] = <<>>
    BY <2>6 DEF IInv, Types, ByteTypes
  <2> QED BY <2>4, <2>5, <2>6, <2>7 DEF ByteTypes
<1>3. CASE ChooseBuffer
  <2>1. bufpos' = 0 /\ UNCHANGED <<seen, file, buf, error, failures>>
    BY <1>3 DEF ChooseBuffer, IInv, CallerHolds, bufferVars
  <2>2. filling' \in Buffers
    BY <1>3 DEF ChooseBuffer, FreeBuffer, Buffers
  <2>3. Len(buf[filling']) \in Nat
    BY <2>2 DEF ByteTypes
  <2> QED BY <2>1, <2>3 DEF ByteTypes
<1>4. CASE Copy
  <2>1. call.data \in Seq(Bytes) /\ Len(call.data) \in Nat
    BY <1>4, CallData DEF Copy, IInv, CallerHolds
  <2>2. Accepted \in Nat /\ Accepted <= Len(call.data)
    BY <2>1, BufferAssumption DEF Accepted, IInv, Types
  <2> DEFINE more == SubSeq(call.data, 1, Accepted)
  <2>3. more \in Seq(Bytes) /\ Len(more) = Accepted
    BY <2>1, <2>2, Prefix
  <2>4. Left \o more \in Seq(Bytes) /\ Len(Left \o more) = bufpos + Accepted
    BY <2>3, LeftTypes, ConcatProperties DEF IInv
  <2>5. /\ buf' = [buf EXCEPT ![filling] = Left \o more]
        /\ bufpos' \in {0, bufpos + Accepted}
        /\ UNCHANGED <<seen, file, filling, error, failures>>
    BY <1>4 DEF Copy
  <2> HIDE DEF more
  <2>6. buf' \in [Buffers -> Seq(Bytes)] /\ buf'[filling] = Left \o more
    BY <2>4, <2>5 DEF IInv, Types, ByteTypes
  <2>7. bufpos' <= Len(buf'[filling'])
    BY <2>2, <2>4, <2>5, <2>6 DEF IInv, Types
  <2> QED BY <2>5, <2>6, <2>7 DEF ByteTypes
<1>5. CASE StartTask
  BY <1>5 DEF StartTask, ByteTypes, callerVars, fillVars, bufferVars
<1>6. ASSUME NEW w \in Buffers, Write(w) PROVE ByteTypes'
  <2>1. bufferOffset[w] \in Nat /\ buf[w] \in Seq(Bytes)
    BY DEF IInv, Types, ByteTypes
  <2>2. PICK r \in WriteAllAt(bufferOffset[w], buf[w]) :
          /\ file' = r.stream
          /\ error' = (error \/ r.failed)
          /\ Failed(r.failed)
    BY <1>6 DEF Write
  <2>3. /\ r.stream \in Streams /\ r.failed \in BOOLEAN
        /\ r.failed => failures + 1 \in 0..MaxFailures
    BY <2>1, WriteTypes
  <2>4. failures' \in 0..MaxFailures /\ file' \in Streams
    BY <2>2, <2>3 DEF Failed, ByteTypes
  <2>5. error' \in BOOLEAN
    BY <2>2
  <2>6. UNCHANGED <<seen, bufpos, filling, buf>>
    BY <1>6 DEF Write, callerVars, fillVars, bufferVars
  <2> QED BY <2>4, <2>5, <2>6 DEF ByteTypes
<1>7. ASSUME NEW w \in Buffers, Release(w) PROVE ByteTypes'
  <2>1. w = filling => bufpos = 0
    BY <1>7 DEF Release, IInv, CallerHolds, BusyWhileInPool, Running, Types
  <2>2. /\ buf' = [buf EXCEPT ![w] = <<>>]
        /\ UNCHANGED <<seen, file, filling, bufpos, error, failures>>
    BY <1>7 DEF Release, callerVars, fillVars
  <2>3. buf' \in [Buffers -> Seq(Bytes)] /\ bufpos <= Len(buf'[filling])
    BY <2>1, <2>2 DEF IInv, Types, ByteTypes
  <2> QED BY <2>2, <2>3 DEF ByteTypes
<1>8. CASE UNCHANGED vars
  BY <1>8 DEF vars, callerVars, fillVars, bufferVars, ByteTypes
<1> QED BY <1>1, <1>2, <1>3, <1>4, <1>5, <1>6, <1>7, <1>8 DEF Next, Caller, Pool

LEMMA TypeCorrect == Spec => []TypeOK
<1>1. IInv /\ ByteTypes => TypeOK
  BY DEF IInv, Types, ByteTypes, Streams, TypeOK
<1> QED BY <1>1, Invariance, ByteInit, ByteStep, PTL DEF Spec

(* For every buffer size and every pool, and whatever fails: the buffers   *)
(* are never shared, the writes commute, and nothing outlives the object.  *)
THEOREM BuffersAlwaysSafe == Spec => []BuffersAreSafe
  BY TypeCorrect, FillingIsSafe, WritesCommute, DestructorIsLast, PTL DEF BuffersAreSafe
-----------------------------------------------------------------------------
(***************************************************************************)
(* The bytes: while no write fails, the file with the buffers over it is   *)
(* the stream that the caller believes it writes to.                       *)
(***************************************************************************)

(* The length of a stream that was written over, and each of its bytes.    *)
LEMMA OverwrittenAt ==
  ASSUME NEW s \in Streams, NEW p \in Nat, NEW d \in Seq(Bytes)
  PROVE  /\ Len(File!Overwritten(s, p, d)) =
              IF d # <<>> /\ p + Len(d) > Len(s) THEN p + Len(d) ELSE Len(s)
         /\ \A i \in Nat \ {0} : File!At(File!Overwritten(s, p, d), i) =
              IF i - p \in 1..Len(d) THEN d[i - p] ELSE File!At(s, i)
<1> DEFINE n == IF p + Len(d) > Len(s) THEN p + Len(d) ELSE Len(s)
           t == File!Overwritten(s, p, d)
<1>1. Len(s) \in Nat /\ Len(d) \in Nat /\ DOMAIN d = 1..Len(d)
  BY DEF Streams
<1>2. CASE d = <<>>
  BY <1>2 DEF File!Overwritten
<1>3. CASE d # <<>>
  <2>1. t = [i \in 1..n |-> IF i - p \in 1..Len(d) THEN d[i - p] ELSE File!At(s, i)]
    BY <1>1, <1>3 DEF File!Overwritten
  <2>2. t \in Streams
    BY OverwrittenStream
  <2>3. Len(t) = n
    <3> HIDE DEF t
    <3>1. n \in Nat /\ DOMAIN t = 1..n
      BY <1>1, <2>1
    <3>2. DOMAIN t = 1..Len(t) /\ Len(t) \in Nat
      BY <2>2 DEF Streams
    <3> QED BY <3>1, <3>2
  <2>4. ASSUME NEW i \in Nat \ {0}
        PROVE  File!At(t, i) = IF i - p \in 1..Len(d) THEN d[i - p] ELSE File!At(s, i)
    <3> HIDE DEF t
    <3>1. CASE i <= n
      BY <1>1, <2>1, <2>3, <3>1 DEF File!At
    <3>2. CASE i > n
      <4>1. i - p \notin 1..Len(d) /\ i > Len(s)
        BY <1>1, <3>2
      <4> QED BY <1>1, <2>3, <3>2, <4>1 DEF File!At
    <3> QED BY <1>1, <3>1, <3>2
  <2> QED BY <1>3, <2>3, <2>4
<1> QED BY <1>2, <1>3

(* Streams are the same if they are as long and have the same bytes.       *)
LEMMA SameStream ==
  ASSUME NEW s \in Streams, NEW t \in Streams, Len(s) = Len(t),
         \A i \in Nat \ {0} : File!At(s, i) = File!At(t, i)
  PROVE  s = t
<1>1. ASSUME NEW i \in 1..Len(s) PROVE s[i] = t[i]
  <2>1. i \in Nat \ {0} /\ i <= Len(s) /\ i <= Len(t)
    BY DEF Streams
  <2> QED BY <2>1 DEF File!At
<1> QED BY <1>1, SeqEqual DEF Streams

(* Writes to disjoint extents commute.                                     *)
LEMMA Commute ==
  ASSUME NEW s \in Streams, NEW p \in Nat, NEW d \in Seq(Bytes),
         NEW q \in Nat, NEW e \in Seq(Bytes),
         p + Len(d) <= q \/ q + Len(e) <= p
  PROVE  File!Overwritten(File!Overwritten(s, p, d), q, e) =
         File!Overwritten(File!Overwritten(s, q, e), p, d)
<1> DEFINE t == File!Overwritten(s, p, d)
           u == File!Overwritten(s, q, e)
           v == File!Overwritten(t, q, e)
           w == File!Overwritten(u, p, d)
<1>1. t \in Streams /\ u \in Streams
  BY OverwrittenStream
<1>2. v \in Streams /\ w \in Streams
  BY <1>1, OverwrittenStream
<1>3. Len(s) \in Nat /\ Len(d) \in Nat /\ Len(e) \in Nat
  BY DEF Streams
<1>4. /\ Len(t) = IF d # <<>> /\ p + Len(d) > Len(s) THEN p + Len(d) ELSE Len(s)
      /\ Len(v) = IF e # <<>> /\ q + Len(e) > Len(t) THEN q + Len(e) ELSE Len(t)
      /\ Len(u) = IF e # <<>> /\ q + Len(e) > Len(s) THEN q + Len(e) ELSE Len(s)
      /\ Len(w) = IF d # <<>> /\ p + Len(d) > Len(u) THEN p + Len(d) ELSE Len(u)
  BY <1>1, OverwrittenAt
<1>5. \A i \in Nat \ {0} :
      /\ File!At(t, i) = IF i - p \in 1..Len(d) THEN d[i - p] ELSE File!At(s, i)
      /\ File!At(v, i) = IF i - q \in 1..Len(e) THEN e[i - q] ELSE File!At(t, i)
      /\ File!At(u, i) = IF i - q \in 1..Len(e) THEN e[i - q] ELSE File!At(s, i)
      /\ File!At(w, i) = IF i - p \in 1..Len(d) THEN d[i - p] ELSE File!At(u, i)
  BY <1>1, OverwrittenAt
<1> HIDE DEF t, u, v, w
<1>6. Len(v) = Len(w)
  BY <1>3, <1>4
<1>7. \A i \in Nat \ {0} : ~(i - p \in 1..Len(d) /\ i - q \in 1..Len(e))
  BY <1>3
<1>8. \A i \in Nat \ {0} : File!At(v, i) = File!At(w, i)
  BY <1>5, <1>7
<1>9. v = w
  BY <1>2, <1>6, <1>8, SameStream
<1> QED BY <1>9 DEF t, u, v, w

(* Two writes, one where the other ends, are one.                          *)
LEMMA Consecutive ==
  ASSUME NEW s \in Streams, NEW p \in Nat, NEW d \in Seq(Bytes), NEW e \in Seq(Bytes)
  PROVE  File!Overwritten(File!Overwritten(s, p, d), p + Len(d), e) =
         File!Overwritten(s, p, d \o e)
<1> DEFINE t == File!Overwritten(s, p, d)
           q == p + Len(d)
           v == File!Overwritten(t, q, e)
           c == d \o e
           w == File!Overwritten(s, p, c)
<1>1. /\ Len(s) \in Nat /\ Len(d) \in Nat /\ Len(e) \in Nat /\ q \in Nat
      /\ c \in Seq(Bytes) /\ Len(c) = Len(d) + Len(e)
      /\ \A i \in 1..(Len(d) + Len(e)) : c[i] = IF i <= Len(d) THEN d[i] ELSE e[i - Len(d)]
  BY ConcatProperties DEF Streams
<1>2. (d # <<>> <=> Len(d) # 0) /\ (e # <<>> <=> Len(e) # 0) /\ (c # <<>> <=> Len(c) # 0)
  BY <1>1, EmptySeq
<1>3. t \in Streams
  BY OverwrittenStream
<1> HIDE DEF c
<1>4. v \in Streams /\ w \in Streams
  BY <1>1, <1>3, OverwrittenStream
<1>5. /\ Len(t) = IF d # <<>> /\ p + Len(d) > Len(s) THEN p + Len(d) ELSE Len(s)
      /\ Len(v) = IF e # <<>> /\ q + Len(e) > Len(t) THEN q + Len(e) ELSE Len(t)
      /\ Len(w) = IF c # <<>> /\ p + Len(c) > Len(s) THEN p + Len(c) ELSE Len(s)
  BY <1>1, <1>3, OverwrittenAt
<1>6. \A i \in Nat \ {0} :
      /\ File!At(t, i) = IF i - p \in 1..Len(d) THEN d[i - p] ELSE File!At(s, i)
      /\ File!At(v, i) = IF i - q \in 1..Len(e) THEN e[i - q] ELSE File!At(t, i)
      /\ File!At(w, i) = IF i - p \in 1..Len(c) THEN c[i - p] ELSE File!At(s, i)
  BY <1>1, <1>3, OverwrittenAt
<1> HIDE DEF t, v, w
<1>7. Len(v) = Len(w)
  BY <1>1, <1>2, <1>5
<1>8. ASSUME NEW i \in Nat \ {0} PROVE File!At(v, i) = File!At(w, i)
  <2>1. CASE i - q \in 1..Len(e)
    <3>1. /\ i - p \in 1..(Len(d) + Len(e)) /\ ~(i - p <= Len(d))
          /\ (i - p) - Len(d) = i - q
      BY <1>1, <2>1
    <3> QED BY <1>1, <1>6, <2>1, <3>1
  <2>2. CASE i - p \in 1..Len(d)
    <3>1. i - p \in 1..(Len(d) + Len(e)) /\ i - p <= Len(d) /\ i - q \notin 1..Len(e)
      BY <1>1, <2>2
    <3> QED BY <1>1, <1>6, <2>2, <3>1
  <2>3. CASE i - q \notin 1..Len(e) /\ i - p \notin 1..Len(d)
    <3>1. i - p \notin 1..(Len(d) + Len(e))
      BY <1>1, <2>3
    <3> QED BY <1>1, <1>6, <2>3, <3>1
  <2> QED BY <2>1, <2>2, <2>3
<1>9. v = w
  BY <1>4, <1>7, <1>8, SameStream
<1> QED BY <1>9 DEF t, v, w, c

(* The two views of the file have the same operators.                      *)
LEMMA SameOperators ==
  /\ Stream!Calls = File!Calls
  /\ \A s, p, d : Stream!Overwritten(s, p, d) = File!Overwritten(s, p, d)
  /\ \A s, n : Stream!Resized(s, n) = File!Resized(s, n)
  BY DEF Stream!Calls, File!Calls, Stream!Overwritten, File!Overwritten, Stream!Resized, File!Resized,
         Stream!At, File!At

(* What the caller knows of its call, and that what is under way is full:  *)
(* the part of the inductive invariant that only the bytes need.           *)
CallInv ==
  /\ pc = "idle" <=> call = NoCall
  /\ pc \in {"buffer", "copy"} => call.op = "write" /\ call.pos = Position
  /\ \A w \in Pending : Len(buf[w]) = BufSize
  /\ error => failures > 0

(* What a buffer adds to the file.                                         *)
Piece(w) == IF w \in Pending THEN buf[w] ELSE <<>>

Over(s, w) == File!Overwritten(s, bufferOffset[w], Piece(w))

Beneath == Over(Over(file, 0), 1)

LEMMA WithBuffersIs == IInv => WithBuffers = File!Overwritten(Beneath, currentOffset, Left)
  BY RangeIsQueued DEF WithBuffers, Beneath, Over, Piece, File!Overwritten

LEMMA WithBuffersWillBe == IInv' => (WithBuffers = File!Overwritten(Beneath, currentOffset, Left))'
  BY WithBuffersIs, PTL

LEMMA PieceTypes ==
  ASSUME IInv, ByteTypes, CallInv, NEW w \in Buffers
  PROVE  /\ Piece(w) \in Seq(Bytes) /\ bufferOffset[w] \in Nat
         /\ Piece(w) # <<>> => w \in Pending /\ Len(Piece(w)) = BufSize
  BY EmptySeq DEF Piece, IInv, Types, ByteTypes, CallInv

LEMMA BeneathTypes ==
  ASSUME IInv, ByteTypes, CallInv
  PROVE  Over(file, 0) \in Streams /\ Beneath \in Streams
<1>1. 0 \in Buffers /\ 1 \in Buffers
  BY DEF Buffers
<1>2. Over(file, 0) \in Streams
  BY <1>1, PieceTypes, OverwrittenStream DEF Over, ByteTypes
<1> QED BY <1>1, <1>2, PieceTypes, OverwrittenStream DEF Over, Beneath

(* Nothing that a stream shows of a buffer without a piece.                *)
LEMMA OverNothing ==
  ASSUME NEW s, NEW w, Piece(w) = <<>>
  PROVE  Over(s, w) = s
  BY DEF Over, File!Overwritten

(* A step that moves no byte.                                              *)
LEMMA SameBytes ==
  ASSUME IInv, IInv', file' = file, Left' = Left,
         currentOffset' = currentOffset \/ Left = <<>>,
         \A w \in Buffers : /\ Piece(w)' = Piece(w)
                            /\ bufferOffset'[w] = bufferOffset[w] \/ Piece(w) = <<>>
  PROVE  WithBuffers' = WithBuffers
<1>1. 0 \in Buffers /\ 1 \in Buffers
  BY DEF Buffers
<1>2. Beneath' = Beneath
  <2>1. Over(file, 0)' = Over(file, 0)
    BY <1>1 DEF Over, File!Overwritten
  <2> QED BY <1>1, <2>1 DEF Beneath, Over, File!Overwritten
<1>3. WithBuffers' = File!Overwritten(Beneath', currentOffset', Left')
  BY WithBuffersWillBe
<1> QED BY <1>2, <1>3, WithBuffersIs DEF File!Overwritten

LEMMA InitBytes == Init => CallInv /\ Stream!Init
<1> SUFFICES ASSUME Init PROVE CallInv /\ Stream!Init
  OBVIOUS
<1>1. Pending = {}
  BY DEF Init, Pending, Queued, Elements, Buffers
<1>2. CallInv
  BY <1>1 DEF Init, CallInv
<1>3. Left = <<>>
  BY DEF Init, Left, Buffers
<1>4. IInv
  BY InitEstablishes
<1>5. WithBuffers = <<>>
  BY <1>1, <1>3, <1>4, WithBuffersIs DEF Init, Beneath, Over, Piece, File!Overwritten
<1> QED BY <1>2, <1>5 DEF Init, Stream!Init

-----------------------------------------------------------------------------
(* The steps, each with what the caller sees of it.                        *)

Promised == failures' = 0 => Stream!Next \/ UNCHANGED Stream!vars

LEMMA BeginIs ==
  ASSUME IInv, IInv', ByteTypes, CallInv, Begin
  PROVE  CallInv' /\ Promised
<1>1. /\ pc = "idle" /\ call = NoCall /\ call' \in File!Calls
      /\ pc' \in {"flush", "buffer", "copy"}
      /\ pc' \in {"buffer", "copy"} => call'.op = "write" /\ call'.pos = Position
  BY DEF Begin, CallInv
<1>2. /\ seen' = <<>>
      /\ UNCHANGED <<file, bufpos, currentOffset, filling, buf, bufferOffset, queue, task, error, failures>>
  BY DEF Begin, fillVars, bufferVars, poolVars
<1>3. Position' = Position /\ Pending' = Pending
  BY <1>2 DEF Position, Pending, Queued, Elements
<1>4. CallInv'
  BY <1>1, <1>2, <1>3, NoCallAssumption DEF CallInv
<1>5. WithBuffers' = WithBuffers
  BY <1>2, <1>3, SameBytes DEF Left, Piece
<1>6. Stream!Begin
  BY <1>1, <1>2, <1>5, SameOperators DEF Stream!Begin
<1> QED BY <1>4, <1>6 DEF Promised, Stream!Next

(* The wait is over, so that all there is lies in the file and in the      *)
(* buffer being filled; the flush leaves it all in the file.               *)
LEMMA FlushIs ==
  ASSUME IInv, IInv', ByteTypes, CallInv, Flush
  PROVE  CallInv' /\ Promised
<1>0. Pending = {} /\ call \in File!Calls /\ call # NoCall
  BY NothingPending, NoCallAssumption DEF Flush, IInv, CallerHolds
<1>1. UNCHANGED <<queue, task, error, filling>> /\ bufpos' = 0
  BY DEF Flush, poolVars
<1>2. Pending' = {}
  BY <1>0, <1>1 DEF Pending, Queued, Elements
<1>3. CallInv'
  <2>1. pc' = "idle" <=> call' = NoCall
    BY <1>0 DEF Flush
  <2>2. pc' \in {"buffer", "copy"} => call'.op = "write" /\ call'.pos = Position'
    <3> SUFFICES ASSUME pc' \in {"buffer", "copy"} PROVE call'.op = "write" /\ call'.pos = Position'
      OBVIOUS
    <3>1. call.op = "write" /\ call' = call /\ currentOffset' = call.pos
      BY DEF Flush
    <3>2. call.pos \in Nat
      BY <1>0, CallTypes
    <3> QED BY <1>1, <3>1, <3>2 DEF Position
  <2>3. error' => failures' > 0
    <3>1. failures \in Nat
      BY BufferAssumption DEF ByteTypes
    <3>2. failures' \in {failures, failures + 1}
      BY DEF Flush, Failed
    <3> QED BY <1>1, <3>1, <3>2 DEF CallInv
  <2> QED BY <1>2, <2>1, <2>2, <2>3 DEF CallInv
<1>4. ASSUME failures' = 0
      PROVE  Stream!Next \/ UNCHANGED Stream!vars
  <2>1. PICK r \in WriteAllAt(currentOffset, Left) :
          /\ Failed(r.failed)
          /\ file' = IF call.op = "length" THEN File!Resized(r.stream, call.pos) ELSE r.stream
          /\ seen' = IF call.op \in {"read", "close"} THEN r.stream ELSE seen
    BY DEF Flush
  <2>2. ~r.failed
    BY <1>4, <2>1, BufferAssumption DEF Failed, ByteTypes
  <2>3. r.stream = File!Overwritten(file, currentOffset, Left)
    BY <2>1, <2>2 DEF WriteAllAt
  <2>4. Beneath = file
    BY <1>0, OverNothing DEF Beneath, Piece
  <2>5. WithBuffers = r.stream
    BY <2>3, <2>4, WithBuffersIs
  <2>6. Beneath' = file'
    BY <1>2 DEF Beneath, Over, Piece, File!Overwritten
  <2>7. Left' = <<>>
    BY <1>1 DEF Left
  <2>8. WithBuffers' = file'
    <3>1. WithBuffers' = File!Overwritten(Beneath', currentOffset', Left')
      BY WithBuffersWillBe
    <3> QED BY <2>6, <2>7, <3>1 DEF File!Overwritten
  <2>9. CASE call.op = "write"
    <3>1. call' = call
      BY <2>9 DEF Flush
    <3> QED BY <2>1, <2>5, <2>8, <2>9, <3>1 DEF Stream!vars
  <2>10. CASE call.op = "length"
    <3>1. call' = NoCall
      BY <2>10 DEF Flush
    <3> QED BY <1>0, <2>1, <2>5, <2>8, <2>10, <3>1, SameOperators
            DEF Stream!Next, Stream!SetLength, Stream!In
  <2>11. CASE call.op = "read"
    <3>1. call' = NoCall
      BY <2>11 DEF Flush
    <3> QED BY <1>0, <2>1, <2>5, <2>8, <2>11, <3>1 DEF Stream!Next, Stream!Read, Stream!In
  <2>12. CASE call.op = "close"
    <3>1. call' = call
      BY <2>12 DEF Flush
    <3> QED BY <1>0, <2>1, <2>5, <2>8, <2>12, <3>1 DEF Stream!Next, Stream!Close, Stream!In
  <2> QED BY <1>0, <2>9, <2>10, <2>11, <2>12 DEF File!Calls
<1> QED BY <1>3, <1>4 DEF Promised

LEMMA ChooseBufferIs ==
  ASSUME IInv, IInv', ByteTypes, CallInv, ChooseBuffer
  PROVE  CallInv' /\ Promised
<1>1. /\ pc = "buffer" /\ pc' = "copy" /\ bufpos = 0
      /\ UNCHANGED <<call, seen, file, bufpos, currentOffset, buf, bufferOffset, queue, task, error, failures>>
  BY DEF ChooseBuffer, IInv, CallerHolds, bufferVars, poolVars
<1>2. Position' = Position /\ Pending' = Pending
  BY <1>1 DEF Position, Pending, Queued, Elements
<1>3. CallInv'
  BY <1>1, <1>2 DEF CallInv
<1>4. Left = <<>> /\ Left' = <<>>
  BY <1>1 DEF Left
<1>5. WithBuffers' = WithBuffers
  BY <1>1, <1>2, <1>4, SameBytes DEF Piece
<1> QED BY <1>1, <1>3, <1>5 DEF Promised, Stream!vars

LEMMA StartTaskIs ==
  ASSUME IInv, IInv', ByteTypes, CallInv, StartTask
  PROVE  CallInv' /\ Promised
<1>1. UNCHANGED <<call, pc, seen, file, bufpos, filling, currentOffset, buf, bufferOffset, error, failures>>
  BY DEF StartTask, callerVars, fillVars, bufferVars
<1>2. /\ Head(queue) \in Queued /\ Queued' = Queued \ {Head(queue)} /\ Queued \subseteq Buffers
      /\ task' = [task EXCEPT ![Head(queue)] = FirstStep]
      /\ task \in [Buffers -> {"none", "write", "release"}]
  BY HeadLeaves, QueuedAreBuffers DEF StartTask, IInv, Queued, Types
<1>3. Pending' \subseteq Pending
  BY <1>2 DEF Pending
<1>4. Position' = Position
  BY <1>1 DEF Position
<1>5. CallInv'
  BY <1>1, <1>3, <1>4 DEF CallInv
<1>6. ASSUME failures' = 0 PROVE UNCHANGED Stream!vars
  <2>1. ~error
    BY <1>1, <1>6 DEF CallInv
  <2>2. Pending' = Pending
    BY <1>2, <2>1 DEF Pending, FirstStep
  <2>3. WithBuffers' = WithBuffers
    BY <1>1, <2>2, SameBytes DEF Left, Piece
  <2> QED BY <1>1, <2>3 DEF Stream!vars
<1> QED BY <1>5, <1>6 DEF Promised

LEMMA ReleaseIs ==
  ASSUME IInv, IInv', ByteTypes, CallInv, NEW w \in Buffers, Release(w)
  PROVE  CallInv' /\ Promised
<1>1. /\ UNCHANGED <<call, pc, seen, file, bufpos, filling, currentOffset, queue, error, failures>>
      /\ task[w] = "release" /\ task' = [task EXCEPT ![w] = "none"]
      /\ buf' = [buf EXCEPT ![w] = <<>>]
      /\ bufferOffset' = [bufferOffset EXCEPT ![w] = 0]
  BY DEF Release, callerVars, fillVars
<1>2. w \notin Pending
  BY <1>1 DEF Pending, IInv, BusyWhileInPool, Running
<1>3. Pending' = Pending
  BY <1>1 DEF Pending, Queued, Elements, IInv, Types
<1>4. \A v \in Buffers : v # w => buf'[v] = buf[v] /\ bufferOffset'[v] = bufferOffset[v]
  BY <1>1 DEF IInv, Types, ByteTypes
<1>5. Pending \subseteq Buffers
  BY QueuedAreBuffers DEF Pending, IInv
<1>6. Position' = Position
  BY <1>1 DEF Position
<1>7. CallInv'
  BY <1>1, <1>2, <1>3, <1>4, <1>5, <1>6 DEF CallInv
<1>8. Left' = Left
  <2>1. CASE bufpos = 0
    BY <1>1, <2>1 DEF Left
  <2>2. CASE bufpos # 0
    <3>1. filling # w /\ filling \in Buffers
      BY <1>1, <2>2, BufferAssumption DEF IInv, Types, CallerHolds, BusyWhileInPool, Running
    <3> QED BY <1>1, <1>4, <3>1 DEF Left
  <2> QED BY <2>1, <2>2
<1>9. WithBuffers' = WithBuffers
  <2>1. \A v \in Buffers : /\ Piece(v)' = Piece(v)
                           /\ bufferOffset'[v] = bufferOffset[v] \/ Piece(v) = <<>>
    BY <1>2, <1>3, <1>4 DEF Piece
  <2> QED BY <1>1, <1>8, <2>1, SameBytes
<1> QED BY <1>1, <1>7, <1>9 DEF Promised, Stream!vars

(* The piece of a buffer goes from the buffer to the file, before or after *)
(* the other buffer's.                                                     *)
LEMMA WriteIs ==
  ASSUME IInv, IInv', ByteTypes, CallInv, NEW w \in Buffers, Write(w)
  PROVE  CallInv' /\ Promised
<1>1. /\ UNCHANGED <<call, pc, seen, bufpos, filling, currentOffset, queue, buf, bufferOffset>>
      /\ task[w] = "write" /\ task' = [task EXCEPT ![w] = "release"]
  BY DEF Write, callerVars, fillVars, bufferVars
<1>2. w \in Pending /\ Pending' = Pending \ {w}
  <2>1. w \notin Queued /\ Queued' = Queued
    BY <1>1 DEF IInv, BusyWhileInPool, Running, Queued, Elements
  <2> QED BY <1>1, <2>1 DEF Pending, IInv, Types
<1>3. PICK r \in WriteAllAt(bufferOffset[w], buf[w]) :
        file' = r.stream /\ error' = (error \/ r.failed) /\ Failed(r.failed)
  BY DEF Write
<1>4. failures \in Nat /\ Position' = Position
  BY <1>1, BufferAssumption DEF ByteTypes, Position
<1>5. CallInv'
  <2>1. error' => failures' > 0
    <3>1. r.failed \in BOOLEAN
      BY WriteTypes DEF IInv, Types, ByteTypes
    <3>2. CASE r.failed
      BY <1>3, <1>4, <3>2 DEF Failed
    <3>3. CASE ~r.failed
      BY <1>3, <3>3 DEF Failed, CallInv
    <3> QED BY <3>2, <3>3
  <2> QED BY <1>1, <1>2, <1>4, <2>1 DEF CallInv
<1>6. ASSUME failures' = 0 PROVE UNCHANGED Stream!vars
  <2>1. ~r.failed
    BY <1>3, <1>4, <1>6 DEF Failed
  <2>2. file' = Over(file, w)
    BY <1>2, <1>3, <2>1 DEF WriteAllAt, Over, Piece
  <2>3. /\ Piece(w)' = <<>>
        /\ \A v \in Buffers \ {w} : Piece(v)' = Piece(v) /\ bufferOffset'[v] = bufferOffset[v]
    BY <1>1, <1>2 DEF Piece
  <2>4. Beneath' = Beneath
    <3>1. CASE w = 0
      <4>1. 1 \in Buffers \ {w}
        BY <3>1 DEF Buffers
      <4>2. Beneath' = Over(file', 1)
        BY <2>3, <3>1, <4>1 DEF Beneath, Over, File!Overwritten
      <4> QED BY <2>2, <3>1, <4>2 DEF Beneath
    <3>2. CASE w = 1
      <4>1. 0 \in Buffers \ {w}
        BY <3>2 DEF Buffers
      <4>2. Beneath' = Over(file', 0)
        BY <2>3, <3>2, <4>1 DEF Beneath, Over, File!Overwritten
      <4>3. Over(Over(file, 1), 0) = Over(Over(file, 0), 1)
        <5>1. CASE Piece(0) = <<>>
          BY <5>1, OverNothing
        <5>2. CASE Piece(0) # <<>>
          <6>1. /\ Piece(0) \in Seq(Bytes) /\ Piece(1) \in Seq(Bytes)
                /\ bufferOffset[0] \in Nat /\ bufferOffset[1] \in Nat
                /\ 0 \in Pending /\ 1 \in Pending
                /\ Len(Piece(0)) = BufSize /\ Len(Piece(1)) = BufSize
            BY <1>2, <3>2, <4>1, <5>2, PieceTypes DEF Piece, CallInv
          <6>2. \/ bufferOffset[0] + BufSize <= bufferOffset[1]
                \/ bufferOffset[1] + BufSize <= bufferOffset[0]
            BY <6>1 DEF IInv, Behind
          <6> QED BY <6>1, <6>2, Commute DEF Over, ByteTypes
        <5> QED BY <5>1, <5>2
      <4> QED BY <2>2, <3>2, <4>2, <4>3 DEF Beneath
    <3> QED BY <3>1, <3>2 DEF Buffers
  <2>5. Left' = Left
    BY <1>1 DEF Left
  <2>6. WithBuffers' = File!Overwritten(Beneath', currentOffset', Left')
    BY WithBuffersWillBe
  <2>7. WithBuffers' = WithBuffers
    BY <1>1, <2>4, <2>5, <2>6, WithBuffersIs DEF File!Overwritten
  <2> QED BY <1>1, <2>7 DEF Stream!vars
<1> QED BY <1>5, <1>6 DEF Promised

(* A write has something to write.                                         *)
LEMMA WriteNotEmpty ==
  ASSUME NEW c \in File!Calls, c.op = "write"
  PROVE  Len(c.data) \in Nat \ {0} /\ DOMAIN c.data = 1..Len(c.data)
<1> DEFINE Data == UNION {[1..n -> Bytes] : n \in 1..MaxWrite}
<1>1. c \in [op : {"write"}, pos : Offsets, data : Data]
  BY DEF File!Calls
<1>2. c.data \in Data
  <2> HIDE DEF Data
  <2> QED BY <1>1
<1>3. PICK n \in 1..MaxWrite : c.data \in [1..n -> Bytes]
  BY <1>2
<1>4. n \in Nat \ {0} /\ DOMAIN c.data = 1..n
  BY <1>3, BufferAssumption
<1>5. Len(c.data) = n
  BY <1>3, <1>4
<1> QED BY <1>4, <1>5

(* What is copied lands where the last write ended, whether it stays with  *)
(* the caller or goes with a full buffer to the pool.                      *)
LEMMA CopyIs ==
  ASSUME IInv, IInv', ByteTypes, CallInv, Copy
  PROVE  CallInv' /\ Promised
<1> DEFINE more == SubSeq(call.data, 1, Accepted)
           both == Left \o more
<1>1. /\ pc = "copy" /\ pc' = "idle" /\ call' = NoCall /\ call \in File!Calls
      /\ call.op = "write" /\ call.pos = currentOffset + bufpos
      /\ UNCHANGED <<seen, file, filling, error, task, failures>>
      /\ buf' = [buf EXCEPT ![filling] = both]
  BY DEF Copy, CallInv, Position, IInv, CallerHolds
<1>2. /\ call.data \in Seq(Bytes) /\ DOMAIN call.data = 1..Len(call.data) /\ Len(call.data) \in Nat \ {0}
      /\ bufpos \in Nat /\ bufpos < BufSize /\ BufSize \in Nat /\ currentOffset \in Nat
      /\ filling \in Buffers
  BY <1>1, CallData, WriteNotEmpty, BufferAssumption DEF IInv, Types
<1>3. Accepted \in DOMAIN call.data /\ Accepted \in Nat /\ bufpos + Accepted <= BufSize
  BY <1>2 DEF Accepted
<1>4. more \in Seq(Bytes) /\ Len(more) = Accepted
  <2>1. Accepted <= Len(call.data)
    BY <1>2, <1>3
  <2> QED BY <1>2, <1>3, <2>1, Prefix
<1>5. Left \in Seq(Bytes) /\ Len(Left) = bufpos
  BY LeftTypes DEF IInv
<1>6. both \in Seq(Bytes) /\ Len(both) = bufpos + Accepted
  BY <1>4, <1>5, ConcatProperties
<1>7. filling \notin Pending /\ filling \notin Queued /\ Pending \subseteq Buffers
  BY <1>1, QueuedAreBuffers DEF IInv, CallerHolds, BusyWhileInPool, Running, Pending
<1>8. Beneath \in Streams /\ file \in Streams /\ Over(file, 0) \in Streams
  BY BeneathTypes DEF ByteTypes
<1>9. \A v \in Buffers \ {filling} : buf'[v] = buf[v]
  BY <1>1 DEF ByteTypes
<1>10. buf'[filling] = both
  BY <1>1, <1>2 DEF ByteTypes
<1> HIDE DEF both, more
<1>11. File!Overwritten(WithBuffers, call.pos, more) = File!Overwritten(Beneath, currentOffset, both)
  <2>1. WithBuffers = File!Overwritten(Beneath, currentOffset, Left)
    BY WithBuffersIs
  <2>2. call.pos = currentOffset + Len(Left)
    BY <1>1, <1>5
  <2>3. File!Overwritten(File!Overwritten(Beneath, currentOffset, Left), currentOffset + Len(Left), more)
          = File!Overwritten(Beneath, currentOffset, Left \o more)
    <3>1. currentOffset \in Nat /\ Beneath \in Streams /\ Left \in Seq(Bytes) /\ more \in Seq(Bytes)
      BY <1>2, <1>4, <1>5, <1>8
    <3> QED BY <3>1, Consecutive, Zenon
  <2> QED BY <2>1, <2>2, <2>3 DEF both
<1>12. CallInv' /\ WithBuffers' = File!Overwritten(Beneath, currentOffset, both)
  <2>1. CASE bufpos + Accepted # BufSize
    <3>1. bufpos' = bufpos + Accepted /\ UNCHANGED <<busy, bufferOffset, currentOffset, queue>>
      BY <2>1 DEF Copy
    <3>2. Pending' = Pending
      BY <1>1, <3>1 DEF Pending, Queued, Elements
    <3>3. Left' = both
      BY <1>1, <1>6, <1>10, <3>1, SubSeqFull DEF Left
    <3>4. \A v \in Buffers : Piece(v)' = Piece(v)
      BY <1>7, <1>9, <3>2 DEF Piece
    <3>5. Beneath' = Beneath
      <4>1. 0 \in Buffers /\ 1 \in Buffers
        BY DEF Buffers
      <4> QED BY <1>1, <3>1, <3>4, <4>1 DEF Beneath, Over, File!Overwritten
    <3>6. WithBuffers' = File!Overwritten(Beneath', currentOffset', Left')
      BY WithBuffersWillBe
    <3>7. WithBuffers' = File!Overwritten(Beneath, currentOffset, both)
      BY <3>1, <3>3, <3>5, <3>6
    <3>8. CallInv'
      BY <1>1, <1>7, <1>9, <3>2 DEF CallInv
    <3> QED BY <3>7, <3>8
  <2>2. CASE bufpos + Accepted = BufSize
    <3>1. /\ bufferOffset' = [bufferOffset EXCEPT ![filling] = currentOffset]
          /\ queue' = Append(queue, filling) /\ bufpos' = 0
      BY <2>2 DEF Copy
    <3>2. /\ \A v \in Buffers \ {filling} : bufferOffset'[v] = bufferOffset[v]
          /\ bufferOffset'[filling] = currentOffset
      BY <1>2, <3>1 DEF IInv, Types
    <3>3. Queued' = Queued \cup {filling}
      BY <1>2, <1>7, <3>1, LastJoins DEF IInv, Queued
    <3>4. Pending' = Pending \cup {filling}
      BY <1>1, <3>3 DEF Pending
    <3>5. \A v \in Buffers :
            /\ v = filling => Piece(v) = <<>> /\ Piece(v)' = both /\ bufferOffset'[v] = currentOffset
            /\ v # filling => Piece(v)' = Piece(v)
      BY <1>2, <1>7, <1>9, <1>10, <3>2, <3>4 DEF Piece
    <3>6. Left' = <<>>
      BY <3>1 DEF Left
    <3>7. WithBuffers' = Beneath'
      <4>1. WithBuffers' = File!Overwritten(Beneath', currentOffset', Left')
        BY WithBuffersWillBe
      <4> QED BY <3>6, <4>1 DEF File!Overwritten
    <3>8. Beneath' = File!Overwritten(Beneath, currentOffset, both)
      <4>1. CASE filling = 1
        <5>1. 0 \in Buffers \ {filling} /\ 1 \in Buffers
          BY <4>1 DEF Buffers
        <5>2. Over(file, 0)' = Over(file, 0)
          BY <1>1, <3>2, <3>5, <5>1 DEF Over, File!Overwritten
        <5>3. Beneath' = File!Overwritten(Over(file, 0), currentOffset, both)
          <6>1. Piece(1)' = both /\ bufferOffset'[1] = currentOffset
            BY <3>5, <4>1, <5>1
          <6> QED BY <5>2, <6>1 DEF Beneath, Over
        <5>4. Beneath = Over(file, 0)
          BY <3>5, <4>1, <5>1, OverNothing DEF Beneath
        <5> QED BY <5>3, <5>4
      <4>2. CASE filling = 0
        <5>1. 1 \in Buffers \ {filling} /\ 1 \in Buffers /\ 0 \in Buffers
          BY <4>2 DEF Buffers
        <5>2. Beneath = Over(file, 1)
          BY <3>5, <4>2, <5>1, OverNothing DEF Beneath
        <5>3. Over(file, 0)' = File!Overwritten(file, currentOffset, both)
          <6>1. Piece(0)' = both /\ bufferOffset'[0] = currentOffset
            BY <3>5, <4>2, <5>1
          <6> QED BY <1>1, <6>1 DEF Over
        <5>4. Beneath' = Over(File!Overwritten(file, currentOffset, both), 1)
          BY <3>2, <3>5, <5>1, <5>3 DEF Beneath, Over, File!Overwritten
        <5>5. CASE Piece(1) = <<>>
          BY <5>2, <5>4, <5>5, OverNothing
        <5>6. CASE Piece(1) # <<>>
          <6>1. /\ Piece(1) \in Seq(Bytes) /\ bufferOffset[1] \in Nat
                /\ 1 \in Pending /\ Len(Piece(1)) = BufSize
            BY <5>1, <5>6, PieceTypes
          <6>2. bufferOffset[1] + Len(Piece(1)) <= currentOffset
            BY <6>1 DEF IInv, Behind
          <6> QED BY <1>2, <1>6, <1>8, <5>2, <5>4, <6>1, <6>2, Commute DEF Over
        <5> QED BY <5>5, <5>6
      <4> QED BY <1>2, <4>1, <4>2 DEF Buffers
    <3>9. CallInv'
      <4>1. \A v \in Pending' : Len(buf'[v]) = BufSize
        BY <1>6, <1>7, <1>9, <1>10, <2>2, <3>4 DEF CallInv
      <4> QED BY <1>1, <4>1 DEF CallInv
    <3> QED BY <3>7, <3>8, <3>9
  <2> QED BY <2>1, <2>2
<1>13. Stream!Write
  <2>1. call # NoCall
    BY <1>1, NoCallAssumption
  <2>2. WithBuffers' = Stream!Overwritten(WithBuffers, call.pos, SubSeq(call.data, 1, Accepted))
    BY <1>11, <1>12, SameOperators DEF more
  <2> QED BY <1>1, <1>3, <2>1, <2>2 DEF Stream!Write, Stream!In
<1> QED BY <1>12, <1>13 DEF Promised, Stream!Next

LEMMA StepIsPromised ==
  ASSUME IInv, IInv', ByteTypes, CallInv, [Next]_vars
  PROVE  CallInv' /\ Promised
<1>1. CASE UNCHANGED vars
  <2>1. /\ UNCHANGED <<call, pc, seen, file, filling, bufpos, currentOffset, buf, bufferOffset>>
        /\ UNCHANGED <<queue, task, error, failures>>
    BY <1>1 DEF vars, callerVars, fillVars, bufferVars, poolVars
  <2>2. Position' = Position /\ Pending' = Pending /\ Left' = Left
    BY <2>1 DEF Position, Pending, Queued, Elements, Left
  <2>3. CallInv'
    BY <2>1, <2>2 DEF CallInv
  <2>4. WithBuffers' = WithBuffers
    BY <2>1, <2>2, SameBytes DEF Piece
  <2> QED BY <2>1, <2>3, <2>4 DEF Promised, Stream!vars
<1>2. CASE Caller
  BY <1>2, BeginIs, FlushIs, ChooseBufferIs, CopyIs DEF Caller
<1>3. CASE Pool
  BY <1>3, StartTaskIs, WriteIs, ReleaseIs DEF Pool
<1> QED BY <1>1, <1>2, <1>3 DEF Next

(* As long as no write underneath fails, a caller cannot tell the buffered *)
(* stream from the stream itself, for every buffer size, every pool and    *)
(* every order of its threads: reads see every write before them, and all  *)
(* of them are in the file when the destructor returns.                    *)
THEOREM BufferIsTheStream == Spec => ImplementsFile
<1>1. Init => CallInv /\ Stream!Init
  BY InitBytes
<1>2. /\ IInv /\ ByteTypes /\ CallInv /\ [Next]_vars
      => /\ CallInv' /\ [failures' = 0 => Stream!Next \/ UNCHANGED Stream!vars]_vars
  <2>1. IInv /\ [Next]_vars => IInv'
    BY StepKeeps
  <2> QED BY <2>1, StepIsPromised DEF Promised
<1> QED BY <1>1, <1>2, Invariance, ByteInit, ByteStep, PTL DEF Spec, ImplementsFile

=============================================================================
