--------------------------- MODULE Ripping_proofs ---------------------------
(***************************************************************************)
(* What holds of a track on its way into any number of files, through a    *)
(* pool of any size and with any failures: no encoding task runs twice at  *)
(* a time, and each file is renamed once, when nobody writes it any more.  *)
(***************************************************************************)
EXTENDS Ripping, FiniteSetTheorems, SequenceTheorems, TLAPS

Elements(q) == {q[i] : i \in DOMAIN q}
Distinct(q) == \A i, j \in DOMAIN q : q[i] = q[j] => i = j
Queued      == Elements(cpu)

(* The places a task can be in; the callback that the writer has taken out *)
(* of its slot is still there until the slot is cleared.                   *)
PlacesExclude ==
  /\ Distinct(cpu)
  /\ Queued \cap callbacks = {}
  /\ \A o \in Queued \cup callbacks : enc[o].at = "idle"

(* The writer calls only who is still waiting.                             *)
WriterKnows ==
  /\ swap.cb => swap.of \subseteq callbacks
  /\ Writing => rip.at = "write"

(* A task that was never pushed is nowhere else.                           *)
UnpushedAreNowhere ==
  /\ rip.at \in {"start", "push", "failed"} \/ rip.left = {}
  /\ \A o \in rip.left : o \notin Queued \cup callbacks /\ enc[o].at = "idle"

(* How far a task has come, as its file and its flags tell it.             *)
Follows(e, f) ==
  /\ e.late <=> e.at = "done"
  /\ e.at \in {"run", "wait", "finish", "done"} => e.state = "RUNNING"
  /\ e.state = "RUNNING" => f.name # "none"
  /\ e.at \in {"finish", "done"} => ~f.open
  /\ e.at = "done" => ~e.wanted
  /\ f.renames = IF f.name \in Outcomes THEN 1 ELSE 0
  /\ f.name \in Outcomes => e.at = "done"
FilesFollowTasks == \A o \in Outputs : Follows(enc[o], file[o])

(* RenameAndTag is called once of each task, and leads to one renaming.    *)
RenamedOnce ==
  /\ \A o \in disk : enc[o].at = "done" /\ file[o].name = "temporary"
  /\ \A o \in Outputs : enc[o].wanted \/ o \in disk \/ file[o].name \in Outcomes => o \in asked

EncType  == [at : EncPlaces, state : {"STARTING", "RUNNING"}, late : BOOLEAN, wanted : BOOLEAN]
FileType == [open : BOOLEAN, name : {"none", "temporary"} \cup Outcomes, renames : 0..1]

IInv == TypeOK /\ PlacesExclude /\ WriterKnows /\ UnpushedAreNowhere /\ FilesFollowTasks /\ RenamedOnce
-----------------------------------------------------------------------------
(* Queues without repetitions *)

LEMMA TailFacts ==
  ASSUME NEW S, NEW q \in Seq(S), q # <<>>, Distinct(q)
  PROVE  /\ Head(q) \in Elements(q) /\ Tail(q) \in Seq(S)
         /\ Elements(Tail(q)) = Elements(q) \ {Head(q)}
         /\ Distinct(Tail(q))
<1> DEFINE t == Tail(q)
<1>1. /\ Len(q) \in Nat /\ Len(q) > 0 /\ DOMAIN q = 1..Len(q)
      /\ t \in Seq(S) /\ Len(t) = Len(q) - 1 /\ DOMAIN t = 1..Len(t)
      /\ \A i \in 1..Len(t) : t[i] = q[i + 1]
      /\ Head(q) = q[1]
  BY HeadTailProperties, EmptySeq
<1>2. \A i \in DOMAIN t : i + 1 \in DOMAIN q /\ t[i] = q[i + 1] /\ t[i] # q[1]
  BY <1>1 DEF Distinct
<1>3. \A i \in DOMAIN q : i # 1 => i - 1 \in DOMAIN t /\ t[i - 1] = q[i]
  BY <1>1
<1> HIDE DEF t
<1>4. Elements(t) = Elements(q) \ {q[1]}
  <2>1. \A i \in DOMAIN t : t[i] \in Elements(q) \ {q[1]}
    BY <1>2 DEF Elements
  <2>2. \A i \in DOMAIN q : q[i] # q[1] => q[i] \in Elements(t)
    BY <1>3 DEF Elements
  <2> QED BY <2>1, <2>2 DEF Elements
<1>5. Distinct(t)
  BY <1>1, <1>2 DEF Distinct
<1>6. q[1] \in Elements(q)
  BY <1>1 DEF Elements
<1> QED BY <1>1, <1>4, <1>5, <1>6 DEF t

LEMMA AppendFacts ==
  ASSUME NEW S, NEW q \in Seq(S), Distinct(q), NEW o \in S, o \notin Elements(q)
  PROVE  /\ Append(q, o) \in Seq(S)
         /\ Elements(Append(q, o)) = Elements(q) \cup {o}
         /\ Distinct(Append(q, o))
<1> DEFINE a == Append(q, o)
<1>1. /\ Len(q) \in Nat /\ DOMAIN q = 1..Len(q)
      /\ a \in Seq(S) /\ Len(a) = Len(q) + 1 /\ DOMAIN a = 1..(Len(q) + 1)
      /\ \A i \in 1..Len(q) : a[i] = q[i]
      /\ a[Len(q) + 1] = o
  BY AppendProperties
<1>2. \A i \in DOMAIN q : q[i] # o
  BY DEF Elements
<1> HIDE DEF a
<1>3. Elements(a) = Elements(q) \cup {o}
  BY <1>1 DEF Elements
<1>4. Distinct(a)
  BY <1>1, <1>2 DEF Distinct
<1> QED BY <1>1, <1>3, <1>4 DEF a

LEMMA PrependFacts ==
  ASSUME NEW S, NEW q \in Seq(S), Distinct(q), NEW o \in S, o \notin Elements(q)
  PROVE  /\ <<o>> \o q \in Seq(S)
         /\ Elements(<<o>> \o q) = Elements(q) \cup {o}
         /\ Distinct(<<o>> \o q)
<1> DEFINE p == <<o>> \o q
<1>1. <<o>> \in Seq(S) /\ Len(<<o>>) = 1 /\ <<o>>[1] = o
  OBVIOUS
<1>2. /\ Len(q) \in Nat /\ DOMAIN q = 1..Len(q)
      /\ p \in Seq(S) /\ Len(p) = 1 + Len(q) /\ DOMAIN p = 1..(1 + Len(q))
      /\ \A i \in 1..(1 + Len(q)) : p[i] = IF i <= 1 THEN <<o>>[i] ELSE q[i - 1]
  BY <1>1, ConcatProperties
<1> HIDE DEF p
<1>3. p[1] = o /\ \A i \in DOMAIN q : i + 1 \in DOMAIN p /\ p[i + 1] = q[i]
  BY <1>1, <1>2
<1>4. \A i \in DOMAIN p : i # 1 => i - 1 \in DOMAIN q /\ p[i] = q[i - 1]
  BY <1>2
<1>5. \A i \in DOMAIN q : q[i] # o
  BY DEF Elements
<1>6. Elements(p) = Elements(q) \cup {o}
  <2>1. \A i \in DOMAIN p : p[i] \in Elements(q) \cup {o}
    BY <1>3, <1>4 DEF Elements
  <2>2. 1 \in DOMAIN p
    BY <1>2
  <2>3. o \in Elements(p)
    BY <1>3, <2>2 DEF Elements
  <2>4. \A i \in DOMAIN q : q[i] \in Elements(p)
    BY <1>3 DEF Elements
  <2> QED BY <2>1, <2>3, <2>4 DEF Elements
<1>7. Distinct(p)
  BY <1>2, <1>3, <1>4, <1>5 DEF Distinct
<1> QED BY <1>2, <1>6, <1>7 DEF p
-----------------------------------------------------------------------------
LEMMA InitEstablishes == Init => IInv
<1> SUFFICES ASSUME Init PROVE IInv
  OBVIOUS
<1> USE RippingAssumption DEF Init, StreamInit, NoSwap
<1>1. TypeOK
  BY DEF TypeOK, RipPlaces, EncPlaces
<1>2. PlacesExclude /\ WriterKnows /\ UnpushedAreNowhere
  BY DEF PlacesExclude, WriterKnows, UnpushedAreNowhere, Queued, Elements, Distinct, Writing
<1>3. FilesFollowTasks /\ RenamedOnce
  BY DEF FilesFollowTasks, Follows, RenamedOnce, Outcomes
<1> QED BY <1>1, <1>2, <1>3 DEF IInv

(* A step of one task, whatever else it does.                              *)
LEMMA OneTaskMoves ==
  ASSUME IInv, NEW o \in Outputs, NEW e \in EncType, NEW f \in FileType, Follows(e, f),
         enc' = [enc EXCEPT ![o] = e], file' = [file EXCEPT ![o] = f]
  PROVE  /\ enc' \in [Outputs -> EncType] /\ file' \in [Outputs -> FileType]
         /\ enc'[o] = e /\ file'[o] = f
         /\ \A p \in Outputs \ {o} : enc'[p] = enc[p] /\ file'[p] = file[p]
         /\ FilesFollowTasks'
<1>1. enc \in [Outputs -> EncType] /\ file \in [Outputs -> FileType]
  BY DEF IInv, TypeOK, EncType, FileType
<1>2. /\ enc' \in [Outputs -> EncType] /\ file' \in [Outputs -> FileType]
      /\ enc'[o] = e /\ file'[o] = f
      /\ \A p \in Outputs \ {o} : enc'[p] = enc[p] /\ file'[p] = file[p]
  BY <1>1
<1>3. FilesFollowTasks'
  BY <1>2 DEF IInv, FilesFollowTasks
<1> QED BY <1>2, <1>3
-----------------------------------------------------------------------------
(* The drive's thread *)

(* Steps that only move the drive's thread, with nothing left unpushed or  *)
(* with nothing pushed yet.                                                *)
LEMMA DriveGoesKeeps ==
  ASSUME IInv, UNCHANGED <<streamVars, enc, cpu, disk, file, asked>>, ~Writing,
         rip' \in [at : RipPlaces, left : SUBSET Outputs], rip'.left = rip.left,
         rip'.at \in {"start", "push", "failed"} \/ rip.left = {}
  PROVE  IInv'
<1> USE DEF IInv, streamVars
<1>1. TypeOK'
  BY DEF TypeOK
<1>2. PlacesExclude' /\ WriterKnows' /\ UnpushedAreNowhere'
  BY DEF PlacesExclude, WriterKnows, UnpushedAreNowhere, Queued, Writing
<1>3. FilesFollowTasks' /\ RenamedOnce'
  BY DEF FilesFollowTasks, RenamedOnce
<1> QED BY <1>1, <1>2, <1>3

LEMMA RipGoes3Keeps == ASSUME IInv, RipBegins \/ RipOpens \/ RipFails PROVE IInv'
<1> USE DEF RipBegins, RipOpens, RipFails, RipGoes
<1>1. UNCHANGED <<streamVars, enc, cpu, disk, file, asked>> /\ ~Writing
  BY DEF IInv, WriterKnows
<1>2. /\ rip' \in [at : RipPlaces, left : SUBSET Outputs] /\ rip'.left = rip.left
      /\ rip'.at \in {"start", "push", "failed"} \/ rip.left = {}
  BY DEF IInv, TypeOK, RipPlaces, UnpushedAreNowhere
<1> QED BY <1>1, <1>2, DriveGoesKeeps

LEMMA RipPushesKeeps == ASSUME IInv, NEW o \in Outputs, RipPushes(o) PROVE IInv'
<1> USE DEF IInv, streamVars
<1>1. /\ o \in rip.left /\ rip.at = "push" /\ rip.left \subseteq Outputs
      /\ rip' = [at |-> IF rip.left = {o} THEN "open" ELSE "push", left |-> rip.left \ {o}]
      /\ cpu' = Append(cpu, o)
      /\ UNCHANGED <<streamVars, enc, disk, file, asked>>
  BY DEF RipPushes, NextOf, TypeOK
<1>2. o \notin Queued /\ o \notin callbacks /\ enc[o].at = "idle"
  BY <1>1 DEF UnpushedAreNowhere
<1>3. cpu' \in Seq(Outputs) /\ Queued' = Queued \cup {o} /\ Distinct(cpu')
  BY <1>1, <1>2, AppendFacts DEF TypeOK, PlacesExclude, Queued
<1>4. TypeOK'
  BY <1>1, <1>3 DEF TypeOK, RipPlaces
<1>5. PlacesExclude'
  BY <1>1, <1>2, <1>3 DEF PlacesExclude
<1>6. WriterKnows'
  BY <1>1 DEF WriterKnows, Writing
<1>7. UnpushedAreNowhere'
  BY <1>1, <1>3 DEF UnpushedAreNowhere
<1>8. FilesFollowTasks' /\ RenamedOnce'
  BY <1>1 DEF FilesFollowTasks, RenamedOnce
<1> QED BY <1>4, <1>5, <1>6, <1>7, <1>8

LEMMA RipWritesKeeps == ASSUME IInv, RipWrites PROVE IInv'
<1> USE DEF IInv, RipWrites, WriteLump, RipGoes, NoSwap
<1>1. TypeOK'
  <2>1. inputpos' \in 0..Total /\ outputpos' \in [Outputs -> 0..inputpos']
    BY RippingAssumption DEF TypeOK
  <2> QED BY <2>1 DEF TypeOK, RipPlaces
<1>2. PlacesExclude' /\ WriterKnows' /\ UnpushedAreNowhere'
  BY DEF TypeOK, PlacesExclude, WriterKnows, UnpushedAreNowhere, Queued
<1>3. FilesFollowTasks' /\ RenamedOnce'
  BY DEF FilesFollowTasks, RenamedOnce
<1> QED BY <1>1, <1>2, <1>3

LEMMA RipSwapsKeeps == ASSUME IInv, NEW o \in Outputs, RipSwaps(o) PROVE IInv'
<1> USE DEF IInv, RipSwaps, BeginSwap, NextOf
<1>1. TypeOK'
  BY DEF TypeOK
<1>2. PlacesExclude' /\ WriterKnows' /\ UnpushedAreNowhere'
  BY DEF PlacesExclude, WriterKnows, UnpushedAreNowhere, Queued
<1>3. FilesFollowTasks' /\ RenamedOnce'
  BY DEF FilesFollowTasks, RenamedOnce
<1> QED BY <1>1, <1>2, <1>3

LEMMA RipCallsKeeps == ASSUME IInv, NEW o \in Outputs, RipCalls(o) PROVE IInv'
<1> USE DEF IInv
<1>1. /\ rip.at = "write" /\ swap.of = {o} /\ rip.left = {}
      /\ callbacks' = callbacks \ {o}
      /\ lost' \subseteq lost \cup callbacks
      /\ swap' = IF swap.left = {} THEN NoSwap ELSE [swap EXCEPT !.of = {}, !.cb = FALSE]
      /\ cpu' = IF swap.cb THEN <<o>> \o cpu ELSE cpu
      /\ rip' = IF swap.left # {} THEN rip
                ELSE [rip EXCEPT !.at = IF inputpos = Total THEN "done" ELSE "read"]
      /\ UNCHANGED <<inputpos, outputpos, enc, disk, file, asked>>
  BY DEF RipCalls, EndSwap, Cleared, UnpushedAreNowhere
<1>2. swap.cb => o \in callbacks /\ o \notin Queued /\ enc[o].at = "idle"
  BY <1>1 DEF WriterKnows, PlacesExclude
<1>3. /\ cpu' \in Seq(Outputs) /\ Distinct(cpu')
      /\ Queued' = IF swap.cb THEN Queued \cup {o} ELSE Queued
  <2>1. cpu \in Seq(Outputs) /\ Distinct(cpu)
    BY DEF TypeOK, PlacesExclude
  <2>2. CASE swap.cb
    BY <1>1, <1>2, <2>1, <2>2, PrependFacts DEF Queued
  <2>3. CASE ~swap.cb
    BY <1>1, <2>1, <2>3 DEF Queued
  <2> QED BY <2>2, <2>3
<1>4. swap' \in [left : SUBSET Outputs, of : SUBSET Outputs, cb : BOOLEAN] /\ ~swap'.cb
  BY <1>1 DEF TypeOK, NoSwap
<1>5. rip' \in [at : RipPlaces, left : SUBSET Outputs] /\ rip'.left = {}
  BY <1>1 DEF TypeOK, RipPlaces
<1>6. TypeOK'
  BY <1>1, <1>3, <1>4, <1>5 DEF TypeOK
<1>7. PlacesExclude'
  BY <1>1, <1>2, <1>3 DEF PlacesExclude
<1>8. WriterKnows'
  BY <1>1, <1>4 DEF WriterKnows, Writing
<1>9. UnpushedAreNowhere'
  BY <1>5 DEF UnpushedAreNowhere
<1>10. FilesFollowTasks' /\ RenamedOnce'
  BY <1>1 DEF FilesFollowTasks, RenamedOnce
<1> QED BY <1>6, <1>7, <1>8, <1>9, <1>10
-----------------------------------------------------------------------------
(* The encoding tasks *)

LEMMA StartsKeeps == ASSUME IInv, Starts PROVE IInv'
<1> USE DEF IInv
<1> DEFINE o == Head(cpu)
<1>1. /\ o \in Queued /\ cpu' = Tail(cpu) /\ cpu' \in Seq(Outputs)
      /\ Queued' = Queued \ {o} /\ Distinct(cpu')
      /\ UNCHANGED <<streamVars, rip, disk, asked>>
  BY TailFacts DEF Starts, TypeOK, PlacesExclude, Queued
<1>2. o \in Outputs /\ enc[o].at = "idle" /\ o \notin callbacks /\ o \notin rip.left
  BY <1>1, HeadTailProperties DEF Starts, TypeOK, PlacesExclude, UnpushedAreNowhere
<1>3. enc[o] \in EncType /\ file[o] \in FileType /\ Follows(enc[o], file[o])
  BY <1>2 DEF TypeOK, EncType, FileType, FilesFollowTasks
<1> HIDE DEF o
<1>4. PICK e \in EncType, f \in FileType :
        /\ enc' = [enc EXCEPT ![o] = e] /\ file' = [file EXCEPT ![o] = f]
        /\ Follows(e, f) /\ e.at # "done" /\ e.wanted = enc[o].wanted
  <2>1. CASE enc[o].state = "RUNNING"
    <3> DEFINE e == [enc[o] EXCEPT !.at = "run"]
    <3>1. enc' = [enc EXCEPT ![o] = e] /\ file' = [file EXCEPT ![o] = file[o]]
      BY <1>2, <2>1 DEF Starts, Goes, o, TypeOK
    <3>2. e \in EncType /\ e.at # "done" /\ e.wanted = enc[o].wanted /\ Follows(e, file[o])
      BY <1>2, <1>3, <2>1 DEF EncType, EncPlaces, Follows
    <3> QED BY <1>3, <3>1, <3>2
  <2>2. CASE enc[o].state # "RUNNING"
    <3> DEFINE f  == [file[o] EXCEPT !.open = TRUE, !.name = "temporary"]
               e1 == [enc[o] EXCEPT !.at = "run", !.state = "RUNNING"]
               e2 == [enc[o] EXCEPT !.at = "failed"]
    <3>1. /\ enc' = [enc EXCEPT ![o] = e1] \/ enc' = [enc EXCEPT ![o] = e2]
          /\ file' = [file EXCEPT ![o] = f]
      BY <1>2, <2>2 DEF Starts, Goes, o, TypeOK
    <3>2. f \in FileType /\ f.renames = 0 /\ f.name = "temporary"
      BY <1>2, <1>3 DEF FileType, Follows
    <3>3. /\ e1 \in EncType /\ e1.at # "done" /\ e1.wanted = enc[o].wanted /\ Follows(e1, f)
          /\ e2 \in EncType /\ e2.at # "done" /\ e2.wanted = enc[o].wanted /\ Follows(e2, f)
      BY <1>2, <1>3, <3>2 DEF EncType, EncPlaces, Follows, Outcomes
    <3> HIDE DEF e1, e2, f
    <3> QED BY <3>1, <3>2, <3>3
  <2> QED BY <2>1, <2>2
<1>5. /\ enc' \in [Outputs -> EncType] /\ file' \in [Outputs -> FileType]
      /\ enc'[o] = e /\ file'[o] = f
      /\ \A p \in Outputs \ {o} : enc'[p] = enc[p] /\ file'[p] = file[p]
      /\ FilesFollowTasks'
  BY <1>2, <1>4, OneTaskMoves
<1>6. TypeOK'
  BY <1>1, <1>5 DEF TypeOK, streamVars, EncType, FileType
<1>7. Queued \subseteq Outputs /\ callbacks \subseteq Outputs /\ rip.left \subseteq Outputs /\ disk \subseteq Outputs
  BY DEF TypeOK, Queued, Elements
<1>8. PlacesExclude'
  BY <1>1, <1>2, <1>5, <1>7 DEF PlacesExclude, streamVars
<1>9. WriterKnows' /\ UnpushedAreNowhere'
  BY <1>1, <1>2, <1>5, <1>7 DEF WriterKnows, Writing, UnpushedAreNowhere, streamVars
<1>10. RenamedOnce'
  BY <1>1, <1>2, <1>4, <1>5, <1>7 DEF RenamedOnce, Follows
<1> QED BY <1>5, <1>6, <1>8, <1>9, <1>10

(* A step of a running task that stays out of the places where others wait. *)
LEMMA EncoderMoves ==
  ASSUME IInv, NEW o \in Outputs, enc[o].at # "idle",
         NEW e \in EncType, NEW f \in FileType, Follows(e, f),
         enc' = [enc EXCEPT ![o] = e], file' = [file EXCEPT ![o] = f],
         e.at # "idle", enc[o].at # "done", e.at # "done" => e.wanted = enc[o].wanted,
         f.name \in Outcomes => enc[o].wanted,
         UNCHANGED <<inputpos, callbacks, swap, lost, rip, cpu, disk, asked>>,
         outputpos' \in [Outputs -> 0..inputpos]
  PROVE  IInv'
<1> USE DEF IInv
<1>1. /\ enc' \in [Outputs -> EncType] /\ file' \in [Outputs -> FileType]
      /\ enc'[o] = e /\ file'[o] = f
      /\ \A p \in Outputs \ {o} : enc'[p] = enc[p] /\ file'[p] = file[p]
      /\ FilesFollowTasks'
  BY OneTaskMoves
<1>2. TypeOK'
  BY <1>1 DEF TypeOK, EncType, FileType
<1>3. Queued \subseteq Outputs /\ callbacks \subseteq Outputs /\ rip.left \subseteq Outputs /\ disk \subseteq Outputs
  BY DEF TypeOK, Queued, Elements
<1>4. o \notin Queued \cup callbacks /\ o \notin rip.left /\ o \notin disk
  BY DEF PlacesExclude, UnpushedAreNowhere, RenamedOnce
<1>5. PlacesExclude'
  BY <1>1, <1>3, <1>4 DEF PlacesExclude, Queued
<1>6. WriterKnows' /\ UnpushedAreNowhere'
  BY <1>1, <1>3, <1>4 DEF WriterKnows, Writing, UnpushedAreNowhere, Queued
<1>7. e.wanted => enc[o].wanted
  BY DEF Follows
<1>8. RenamedOnce'
  BY <1>1, <1>3, <1>4, <1>7 DEF RenamedOnce
<1> QED BY <1>1, <1>2, <1>5, <1>6, <1>8

LEMMA TaskTypes ==
  ASSUME IInv, NEW o \in Outputs
  PROVE  /\ enc[o] \in EncType /\ file[o] \in FileType /\ Follows(enc[o], file[o])
         /\ outputpos \in [Outputs -> 0..inputpos] /\ inputpos \in Nat
  BY RippingAssumption DEF IInv, TypeOK, EncType, FileType, FilesFollowTasks

LEMMA RenamedFile ==
  ASSUME NEW f \in FileType, f.renames = 0, NEW outcome \in Outcomes, NEW g,
         g = [open |-> f.open, name |-> outcome, renames |-> f.renames + 1]
  PROVE  g \in FileType /\ g.name = outcome /\ g.renames = 1 /\ g.open = f.open
<1>1. g = [open |-> f.open, name |-> outcome, renames |-> 1]
  OBVIOUS
<1>2. f.open \in BOOLEAN
  BY DEF FileType
<1> QED BY <1>1, <1>2 DEF FileType

LEMMA EncodesKeeps == ASSUME IInv, NEW o \in Outputs, Encodes(o) PROVE IInv'
<1>1. /\ enc[o].at = "run" /\ UNCHANGED <<inputpos, callbacks, swap, lost, rip, cpu, disk, file, asked>>
      /\ outputpos[o] < inputpos /\ outputpos' = [outputpos EXCEPT ![o] = @ + 1]
  BY DEF Encodes, OutputRead, HasMore
<1>2. outputpos' \in [Outputs -> 0..inputpos]
  BY <1>1, TaskTypes
<1>3. PICK at \in {"run", "failed"} : enc' = [enc EXCEPT ![o].at = at]
  BY DEF Encodes, Goes
<1> DEFINE e == [enc[o] EXCEPT !.at = at]
<1>4. enc' = [enc EXCEPT ![o] = e] /\ file' = [file EXCEPT ![o] = file[o]]
  BY <1>1, <1>3 DEF IInv, TypeOK
<1>5. e \in EncType /\ e.at = at /\ e.wanted = enc[o].wanted /\ Follows(e, file[o]) /\ file[o].name \notin Outcomes
  BY <1>1, TaskTypes DEF EncType, EncPlaces, Follows
<1> HIDE DEF e
<1> QED BY <1>1, <1>2, <1>4, <1>5, TaskTypes, EncoderMoves

LEMMA BlocksKeeps == ASSUME IInv, NEW o \in Outputs, Blocks(o) PROVE IInv'
<1> DEFINE e == [enc[o] EXCEPT !.at = "wait"]
<1>1. enc[o].at = "run" /\ UNCHANGED <<inputpos, outputpos, callbacks, swap, lost, rip, cpu, disk, file, asked>>
  BY DEF Blocks, streamVars
<1>2. enc' = [enc EXCEPT ![o] = e] /\ file' = [file EXCEPT ![o] = file[o]]
  BY <1>1 DEF IInv, TypeOK, Blocks, Goes
<1>3. e \in EncType /\ e.at = "wait" /\ e.wanted = enc[o].wanted /\ Follows(e, file[o]) /\ file[o].name \notin Outcomes
  BY <1>1, TaskTypes DEF EncType, EncPlaces, Follows
<1> HIDE DEF e
<1> QED BY <1>1, <1>2, <1>3, TaskTypes, EncoderMoves

LEMMA FinishesKeeps == ASSUME IInv, NEW o \in Outputs, Finishes(o) PROVE IInv'
<1>1. enc[o].at = "run" /\ UNCHANGED <<inputpos, outputpos, callbacks, swap, lost, rip, cpu, disk, asked>>
  BY DEF Finishes, streamVars
<1>2. PICK at \in {"finish", "failed"}, f \in {file[o], [file[o] EXCEPT !.open = FALSE]} :
        /\ enc' = [enc EXCEPT ![o].at = at] /\ file' = [file EXCEPT ![o] = f]
        /\ at = "finish" => ~f.open
  <2>1. CASE Goes(o, "finish") /\ file' = [file EXCEPT ![o].open = FALSE]
    BY <2>1, TaskTypes DEF Goes, FileType
  <2>2. CASE Goes(o, "failed") /\ UNCHANGED file
    BY <2>2 DEF Goes, IInv, TypeOK
  <2> QED BY <2>1, <2>2 DEF Finishes
<1> DEFINE e == [enc[o] EXCEPT !.at = at]
<1>3. enc' = [enc EXCEPT ![o] = e]
  BY <1>1, <1>2 DEF IInv, TypeOK
<1>4. f \in FileType /\ f.name = file[o].name /\ f.renames = file[o].renames
  BY <1>2, TaskTypes DEF FileType
<1>5. e \in EncType /\ e.at = at /\ e.wanted = enc[o].wanted /\ e.late = enc[o].late /\ e.state = enc[o].state
  BY TaskTypes DEF EncType, EncPlaces
<1> HIDE DEF e
<1>6. Follows(e, f) /\ f.name \notin Outcomes
  BY <1>1, <1>2, <1>4, <1>5, TaskTypes DEF Follows
<1> QED BY <1>1, <1>2, <1>3, <1>4, <1>5, <1>6, TaskTypes, EncoderMoves

LEMMA TurnsLateKeeps == ASSUME IInv, NEW o \in Outputs, TurnsLate(o) PROVE IInv'
<1>1. /\ enc[o].at = "finish" /\ UNCHANGED <<inputpos, outputpos, callbacks, swap, lost, rip, cpu, disk, asked>>
      /\ enc' = [enc EXCEPT ![o].at = "done", ![o].late = TRUE, ![o].wanted = FALSE]
  BY DEF TurnsLate, streamVars
<1>2. PICK outcome \in Outcomes : IF enc[o].wanted THEN file' = Renamed(o, outcome) ELSE file' = file
  BY DEF TurnsLate, Outcomes
<1> DEFINE e == [enc[o] EXCEPT !.at = "done", !.late = TRUE, !.wanted = FALSE]
           f == IF enc[o].wanted
                THEN [open |-> file[o].open, name |-> outcome, renames |-> file[o].renames + 1]
                ELSE file[o]
<1>3. enc' = [enc EXCEPT ![o] = e] /\ file' = [file EXCEPT ![o] = f]
  BY <1>1, <1>2 DEF Renamed, IInv, TypeOK
<1>4. e \in EncType /\ e.at = "done" /\ e.late /\ ~e.wanted /\ e.state = enc[o].state
  BY TaskTypes DEF EncType, EncPlaces
<1>5. file[o].name = "temporary" /\ file[o].renames = 0 /\ ~file[o].open /\ enc[o].state = "RUNNING"
  BY <1>1, TaskTypes DEF Follows, FileType, Outcomes
<1>6. /\ f \in FileType /\ ~f.open /\ f.name # "none" /\ f.renames = IF f.name \in Outcomes THEN 1 ELSE 0
      /\ f.name \in Outcomes => enc[o].wanted
  <2>1. CASE enc[o].wanted
    <3>1. f = [open |-> file[o].open, name |-> outcome, renames |-> file[o].renames + 1]
      BY <2>1
    <3>2. f \in FileType /\ f.name = outcome /\ f.renames = 1 /\ f.open = file[o].open
      <4>1. file[o] \in FileType /\ file[o].renames = 0 /\ outcome \in Outcomes
        BY <1>2, <1>5, TaskTypes
      <4> HIDE DEF f
      <4> QED BY <3>1, <4>1, RenamedFile
    <3> HIDE DEF f
    <3> QED BY <1>2, <1>5, <2>1, <3>2 DEF Outcomes
  <2>2. CASE ~enc[o].wanted
    BY <1>5, <2>2, TaskTypes DEF Outcomes
  <2> QED BY <2>1, <2>2
<1> HIDE DEF e, f
<1>7. Follows(e, f)
  BY <1>4, <1>5, <1>6 DEF Follows
<1> QED BY <1>1, <1>3, <1>4, <1>6, <1>7, TaskTypes, EncoderMoves

LEMMA WaitsKeeps == ASSUME IInv, NEW o \in Outputs, Waits(o) PROVE IInv'
<1> DEFINE e == [enc[o] EXCEPT !.at = "idle"]
<1> USE DEF IInv
<1>1. /\ enc[o].at = "wait" /\ UNCHANGED <<inputpos, outputpos, swap, lost, rip, disk, file, asked>>
      /\ callbacks' = IF Arrived(o) THEN callbacks ELSE callbacks \cup {o}
      /\ cpu' = IF Arrived(o) THEN <<o>> \o cpu ELSE cpu
  BY DEF Waits, OutputWait
<1>2. enc' = [enc EXCEPT ![o] = e] /\ file' = [file EXCEPT ![o] = file[o]]
  BY <1>1 DEF TypeOK, Waits, Goes
<1>3. e \in EncType /\ e.at = "idle" /\ e.wanted = enc[o].wanted /\ Follows(e, file[o])
  BY <1>1, TaskTypes DEF EncType, EncPlaces, Follows
<1> HIDE DEF e
<1>4. /\ enc' \in [Outputs -> EncType] /\ file' \in [Outputs -> FileType]
      /\ enc'[o] = e
      /\ \A p \in Outputs \ {o} : enc'[p] = enc[p]
      /\ FilesFollowTasks'
  BY <1>2, <1>3, TaskTypes, OneTaskMoves
<1>5. o \notin Queued \cup callbacks /\ o \notin rip.left /\ o \notin disk
  BY <1>1 DEF PlacesExclude, UnpushedAreNowhere, RenamedOnce
<1>6. Queued \subseteq Outputs /\ callbacks \subseteq Outputs /\ rip.left \subseteq Outputs /\ disk \subseteq Outputs
  BY DEF TypeOK, Queued, Elements
<1>7. /\ cpu' \in Seq(Outputs) /\ Distinct(cpu')
      /\ Queued' = IF Arrived(o) THEN Queued \cup {o} ELSE Queued
  <2>1. cpu \in Seq(Outputs) /\ Distinct(cpu) /\ o \notin Elements(cpu)
    BY <1>5 DEF TypeOK, PlacesExclude, Queued
  <2>2. CASE Arrived(o)
    BY <1>1, <2>1, <2>2, PrependFacts DEF Queued
  <2>3. CASE ~Arrived(o)
    BY <1>1, <2>1, <2>3 DEF Queued
  <2> QED BY <2>2, <2>3
<1>8. TypeOK'
  BY <1>1, <1>4, <1>7 DEF TypeOK, EncType, FileType
<1>9. PlacesExclude'
  BY <1>1, <1>3, <1>4, <1>5, <1>6, <1>7 DEF PlacesExclude
<1>10. WriterKnows'
  BY <1>1, <1>5 DEF WriterKnows, Writing
<1>11. UnpushedAreNowhere'
  BY <1>1, <1>4, <1>5, <1>6, <1>7 DEF UnpushedAreNowhere
<1>12. RenamedOnce'
  BY <1>1, <1>3, <1>4, <1>5, <1>6 DEF RenamedOnce
<1> QED BY <1>4, <1>8, <1>9, <1>10, <1>11, <1>12
-----------------------------------------------------------------------------
(* The user is done *)

LEMMA RenameAndTagKeeps == ASSUME IInv, NEW o \in Outputs, RenameAndTag(o) PROVE IInv'
<1> USE DEF IInv
<1>1. o \notin asked /\ asked' = asked \cup {o} /\ UNCHANGED <<streamVars, rip, cpu, file>>
  BY DEF RenameAndTag, NextOf
<1>2. ~enc[o].wanted /\ o \notin disk /\ file[o].name \notin Outcomes
  BY <1>1 DEF RenamedOnce
<1>3. Queued \subseteq Outputs /\ callbacks \subseteq Outputs /\ rip.left \subseteq Outputs /\ disk \subseteq Outputs
  BY DEF TypeOK, Queued, Elements
<1>4. CASE enc[o].late
  <2>1. disk' = disk \cup {o} /\ UNCHANGED enc
    BY <1>4 DEF RenameAndTag, IsLate
  <2>2. enc[o].at = "done" /\ file[o].name = "temporary"
    BY <1>2, <1>4, TaskTypes DEF Follows, FileType
  <2>3. TypeOK'
    BY <1>1, <2>1 DEF TypeOK, streamVars
  <2>4. PlacesExclude' /\ WriterKnows' /\ UnpushedAreNowhere' /\ FilesFollowTasks'
    BY <1>1, <2>1 DEF PlacesExclude, WriterKnows, Writing, UnpushedAreNowhere, FilesFollowTasks, Queued, streamVars
  <2>5. RenamedOnce'
    BY <1>1, <2>1, <2>2 DEF RenamedOnce
  <2> QED BY <2>3, <2>4, <2>5
<1>5. CASE ~enc[o].late
  <2> DEFINE e == [enc[o] EXCEPT !.wanted = TRUE]
  <2>1. enc' = [enc EXCEPT ![o] = e] /\ file' = [file EXCEPT ![o] = file[o]] /\ UNCHANGED disk
    BY <1>1, <1>5 DEF RenameAndTag, IsLate, TypeOK
  <2>2. e \in EncType /\ e.at = enc[o].at /\ Follows(e, file[o])
    BY <1>5, TaskTypes DEF EncType, Follows
  <2> HIDE DEF e
  <2>3. /\ enc' \in [Outputs -> EncType] /\ file' \in [Outputs -> FileType]
        /\ enc'[o] = e
        /\ \A p \in Outputs \ {o} : enc'[p] = enc[p]
        /\ FilesFollowTasks'
    BY <2>1, <2>2, TaskTypes, OneTaskMoves
  <2>4. \A p \in Outputs : enc'[p].at = enc[p].at
    BY <2>2, <2>3
  <2>5. TypeOK'
    BY <1>1, <2>1, <2>3 DEF TypeOK, EncType, FileType, streamVars
  <2>6. PlacesExclude' /\ WriterKnows' /\ UnpushedAreNowhere'
    BY <1>1, <1>3, <2>4 DEF PlacesExclude, WriterKnows, Writing, UnpushedAreNowhere, Queued, streamVars
  <2>7. RenamedOnce'
    BY <1>1, <1>3, <2>1, <2>3, <2>4 DEF RenamedOnce
  <2> QED BY <2>3, <2>5, <2>6, <2>7
<1> QED BY <1>4, <1>5

LEMMA DiskRenamesKeeps == ASSUME IInv, NEW o \in Outputs, DiskRenames(o) PROVE IInv'
<1> USE DEF IInv
<1>1. o \in disk /\ disk' = disk \ {o} /\ UNCHANGED <<streamVars, rip, enc, cpu, asked>>
  BY DEF DiskRenames
<1>2. PICK outcome \in Outcomes : file' = Renamed(o, outcome)
  BY DEF DiskRenames
<1> DEFINE f == [open |-> file[o].open, name |-> outcome, renames |-> file[o].renames + 1]
<1>3. enc' = [enc EXCEPT ![o] = enc[o]] /\ file' = [file EXCEPT ![o] = f]
  BY <1>1, <1>2 DEF Renamed, TypeOK
<1>4. enc[o].at = "done" /\ file[o].name = "temporary" /\ o \in asked
  BY <1>1 DEF RenamedOnce
<1>5. f \in FileType /\ Follows(enc[o], f)
  <2>1. file[o].renames = 0
    BY <1>4, TaskTypes DEF Follows, Outcomes
  <2>2. f \in FileType /\ f.name = outcome /\ f.renames = 1 /\ f.open = file[o].open
    <3>1. file[o] \in FileType /\ file[o].renames = 0 /\ outcome \in Outcomes
      BY <1>2, <2>1, TaskTypes
    <3> QED BY <3>1, RenamedFile
  <2> HIDE DEF f
  <2> QED BY <1>2, <1>4, <2>2, TaskTypes DEF Follows, Outcomes
<1> HIDE DEF f
<1>6. /\ file' \in [Outputs -> FileType]
      /\ \A p \in Outputs \ {o} : file'[p] = file[p]
      /\ FilesFollowTasks'
  BY <1>3, <1>5, TaskTypes, OneTaskMoves
<1>7. TypeOK'
  BY <1>1, <1>6 DEF TypeOK, FileType, streamVars
<1>8. PlacesExclude' /\ WriterKnows' /\ UnpushedAreNowhere'
  BY <1>1 DEF PlacesExclude, WriterKnows, Writing, UnpushedAreNowhere, Queued, streamVars
<1>9. RenamedOnce'
  BY <1>1, <1>4, <1>6 DEF RenamedOnce, TypeOK
<1> QED BY <1>6, <1>7, <1>8, <1>9
-----------------------------------------------------------------------------
(* Every step keeps the invariant, and so does a stutter.                  *)
LEMMA StepKeeps == IInv /\ [Next]_vars => IInv'
<1> SUFFICES ASSUME IInv, [Next]_vars PROVE IInv'
  OBVIOUS
<1>1. CASE Drive
  BY <1>1, RipGoes3Keeps, RipPushesKeeps, RipWritesKeeps, RipSwapsKeeps, RipCallsKeeps DEF Drive
<1>2. CASE Starts
  BY <1>2, StartsKeeps
<1>3. CASE \E o \in Outputs : Encoder(o)
  BY <1>3, EncodesKeeps, BlocksKeeps, WaitsKeeps, FinishesKeeps, TurnsLateKeeps DEF Encoder
<1>4. CASE Done
  BY <1>4, RenameAndTagKeeps DEF Done
<1>5. CASE Disk
  BY <1>5, DiskRenamesKeeps DEF Disk
<1>6. CASE UNCHANGED vars
  BY <1>6 DEF vars, streamVars, IInv, TypeOK, PlacesExclude, WriterKnows, Writing, UnpushedAreNowhere,
     FilesFollowTasks, RenamedOnce, Queued
<1> QED BY <1>1, <1>2, <1>3, <1>4, <1>5, <1>6 DEF Next

LEMMA Invariance == Spec => []IInv
  BY InitEstablishes, StepKeeps, PTL DEF Spec
-----------------------------------------------------------------------------
LEMMA AtMostOne ==
  ASSUME NEW S, \A x, y \in S : x = y
  PROVE  Cardinality(S) <= 1
<1>1. CASE S = {}
  BY <1>1, FS_EmptySet
<1>2. CASE S # {}
  <2>1. PICK x \in S : TRUE
    BY <1>2
  <2>2. S = {x}
    BY <2>1
  <2> QED BY <2>2, FS_Singleton
<1> QED BY <1>1, <1>2

LEMMA OneRun == ASSUME IInv PROVE OneRunEach
<1> SUFFICES ASSUME NEW o \in Outputs
             PROVE  LET queued == {i \in DOMAIN cpu : cpu[i] = o} IN
                    /\ Cardinality(queued) <= 1
                    /\ Cardinality({p \in {"queue", "thread", "callback"} :
                         \/ p = "queue"    /\ queued # {}
                         \/ p = "thread"   /\ o \in Running
                         \/ p = "callback" /\ o \in callbacks}) <= 1
  BY DEF OneRunEach
<1> DEFINE queued == {i \in DOMAIN cpu : cpu[i] = o}
           places == {p \in {"queue", "thread", "callback"} :
                         \/ p = "queue"    /\ queued # {}
                         \/ p = "thread"   /\ o \in Running
                         \/ p = "callback" /\ o \in callbacks}
<1>1. Cardinality(queued) <= 1
  <2>1. \A i, j \in queued : i = j
    BY DEF IInv, PlacesExclude, Distinct
  <2> QED BY <2>1, AtMostOne
<1>2. Cardinality(places) <= 1
  <2>1. queued # {} => o \in Queued
    BY DEF Queued, Elements
  <2>2. /\ ~(o \in Queued /\ o \in callbacks)
        /\ o \in Queued \cup callbacks => o \notin Running
    BY DEF IInv, PlacesExclude, Running
  <2> HIDE DEF queued
  <2>3. \A p, q \in places : p = q
    BY <2>1, <2>2
  <2> QED BY <2>3, AtMostOne
<1> QED BY <1>1, <1>2

(* However many encoders share however small a pool, and whatever fails:   *)
(* an EncodingTask is queued, run or waited with at one place only, and    *)
(* its file is renamed by one of the two that may, after it was closed.    *)
THEOREM TasksAlwaysExclude == Spec => []TasksExclude
<1>1. ASSUME IInv PROVE TasksExclude
  <2>1. TypeOK /\ OneRunEach
    BY <1>1, OneRun DEF IInv
  <2>2. ASSUME NEW o \in Outputs
        PROVE  /\ o \in disk \/ file[o].name \in Outcomes => ~file[o].open /\ ~enc[o].wanted
               /\ o \in disk => file[o].name = "temporary"
    BY <1>1, TaskTypes DEF IInv, RenamedOnce, Follows
  <2> QED BY <2>1, <2>2 DEF TasksExclude
<1> QED BY <1>1, Invariance, PTL
=============================================================================
