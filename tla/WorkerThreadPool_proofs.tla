---------------------- MODULE WorkerThreadPool_proofs ----------------------
(***************************************************************************)
(* Proofs about WorkerThreadPool for any number of clients, threads and    *)
(* tasks, with or without timeouts.                                        *)
(***************************************************************************)
EXTENDS WorkerThreadPool, FiniteSetTheorems, SequenceTheorems, TLAPS

Waiters == {w \in Workers : wpc[w] \in InWait}

(* m_max_threads is zero from the moment Shutdown begins, and the list is  *)
(* empty from the moment it returns.                                       *)
ShutdownState == /\ maxThreads = IF owner = "up" THEN MaxThreads ELSE 0
                 /\ owner \in {"down", "destroyed"} => threads = {}

(* The inductive invariant.  The lists have to match the threads for the   *)
(* sizes to be right, and the sizes for the types.                         *)
IInv == /\ TypeOK
        /\ ListsMatchThreads
        /\ ShutdownState
        /\ ThreadsWithinLimit
        /\ WaitingIsAccurate

-----------------------------------------------------------------------------
(* A set of workers is finite, and so has a size. *)
LEMMA WorkerSets ==
  ASSUME NEW S \in SUBSET Workers
  PROVE  IsFiniteSet(S) /\ Cardinality(S) \in Nat
  BY PoolAssumption, FS_Subset, FS_CardinalityType

(* One more waiter is one more in its size. *)
LEMMA OneMore ==
  ASSUME NEW S \in SUBSET Workers, NEW w \in Workers, w \notin S
  PROVE  Cardinality(S \cup {w}) = Cardinality(S) + 1
  BY WorkerSets, FS_AddElement

(* One waiter fewer is one fewer in its size, which was not zero. *)
LEMMA OneLess ==
  ASSUME NEW S \in SUBSET Workers, NEW w \in S
  PROVE  /\ Cardinality(S \ {w}) = Cardinality(S) - 1
         /\ Cardinality(S) > 0
<1>1. Cardinality(S \ {w}) = Cardinality(S) - 1
  BY WorkerSets, FS_RemoveElement
<1>2. Cardinality(S \ {w}) \in Nat
  BY WorkerSets
<1>3. Cardinality(S) \in Nat
  BY WorkerSets
<1> QED BY <1>1, <1>2, <1>3

-----------------------------------------------------------------------------
(* What a notification does to the threads: somebody asleep wakes, or      *)
(* nobody does; it moves no thread in or out of the wait.                  *)
LEMMA NotifyKeepsWaiters ==
  ASSUME TypeOK, NotifyOne(wpc)
  PROVE  /\ wpc' \in [Workers -> {"none", "exit", "exited"} \cup AtWork]
         /\ \A w \in Workers : wpc'[w] \in InWait <=> wpc[w] \in InWait
         /\ \A w \in Workers : wpc[w] \notin InWait => wpc'[w] = wpc[w]
<1>1. CASE wpc' = wpc
  BY <1>1 DEF TypeOK
<1>2. CASE \E w \in Workers : /\ wpc[w] = "asleep"
                              /\ wpc' = [wpc EXCEPT ![w] = "woken"]
  BY <1>2 DEF TypeOK, InWait, AtWork
<1> QED BY <1>1, <1>2 DEF NotifyOne

(* If every worker is as much in or out of the wait as before, and the     *)
(* count is unchanged, the count is still right.                           *)
LEMMA SameWaiters ==
  ASSUME WaitingIsAccurate, waiting' = waiting,
         \A w \in Workers : wpc'[w] \in InWait <=> wpc[w] \in InWait
  PROVE  WaitingIsAccurate'
<1>1. Waiters' = Waiters
  BY DEF Waiters
<1> QED BY <1>1 DEF WaitingIsAccurate, Waiters

(* The same for the lists: it matters only where each worker is. *)
LEMMA SameLists ==
  ASSUME ListsMatchThreads, threads' = threads, deadThreads' = deadThreads,
         \A w \in Workers : /\ wpc'[w] \in AtWork <=> wpc[w] \in AtWork
                            /\ wpc'[w] \in {"exit", "exited"} <=> wpc[w] \in {"exit", "exited"}
  PROVE  ListsMatchThreads'
  BY DEF ListsMatchThreads

(* The initial state satisfies the inductive invariant. *)
LEMMA InitIInv == Init => IInv
<1> SUFFICES ASSUME Init PROVE IInv
  OBVIOUS
<1>1. TypeOK
  BY PoolAssumption DEF Init, TypeOK, AtWork, Callers
<1>2. ListsMatchThreads
  BY DEF Init, ListsMatchThreads, AtWork, InWait
<1>3. ShutdownState
  BY DEF Init, ShutdownState
<1>4. Cardinality({}) = 0
  BY FS_EmptySet
<1>5. ThreadsWithinLimit
  BY <1>4, PoolAssumption DEF Init, ThreadsWithinLimit
<1>6. Waiters = {}
  BY DEF Init, Waiters, InWait
<1>7. WaitingIsAccurate
  BY <1>4, <1>6 DEF Init, WaitingIsAccurate, Waiters
<1> QED BY <1>1, <1>2, <1>3, <1>5, <1>7 DEF IInv
-----------------------------------------------------------------------------
(* The type half of a step: every action keeps every variable in its range, *)
(* given that a thread that gives up waiting was counted.                  *)
LEMMA TakeTypes ==
  ASSUME TypeOK, NEW w \in Workers, Take(w)
  PROVE  /\ deque' \in Seq(Tasks \cup {Null})
         /\ cb' \in [Workers -> Tasks \cup {Null}]
         /\ wpc' \in [Workers -> {"none", "exit", "exited"} \cup AtWork]
         /\ wpc' = [wpc EXCEPT ![w] = wpc'[w]]
         /\ wpc'[w] \in {"quit", "run"}
<1>1. deque \in Seq(Tasks \cup {Null}) /\ deque # <<>>
  BY DEF TypeOK, Take
<1>2. Head(deque) \in Tasks \cup {Null} /\ Tail(deque) \in Seq(Tasks \cup {Null})
  BY <1>1
<1>3. deque' \in Seq(Tasks \cup {Null})
  BY <1>2 DEF Take, Remaining
<1>4. cb' \in [Workers -> Tasks \cup {Null}]
  BY <1>2 DEF Take, TypeOK
<1>5. PICK x \in {"quit", "run"} : wpc' = [wpc EXCEPT ![w] = x]
  BY DEF Take
<1>6. wpc \in [Workers -> {"none", "exit", "exited"} \cup AtWork]
  BY DEF TypeOK
<1> QED BY <1>3, <1>4, <1>5, <1>6 DEF AtWork

(* A worker that leaves the wait is one waiter fewer, and was counted. *)
LEMMA LeaveWait ==
  ASSUME TypeOK, WaitingIsAccurate, NEW w \in Workers, wpc[w] \in InWait,
         NEW x \in {"quit", "run"}, wpc' = [wpc EXCEPT ![w] = x],
         waiting' = GiveUp
  PROVE  WaitingIsAccurate' /\ waiting' \in Nat
<1>1. Waiters' = Waiters \ {w} /\ w \in Waiters
  BY DEF Waiters, InWait, TypeOK
<1>2. Waiters \in SUBSET Workers
  BY DEF Waiters
<1>3. Cardinality(Waiters') = Cardinality(Waiters) - 1 /\ Cardinality(Waiters) > 0
  BY <1>1, <1>2, OneLess
<1>4. waiting = Cardinality(Waiters) /\ waiting \in Nat
  BY DEF WaitingIsAccurate, Waiters, TypeOK
<1> QED BY <1>3, <1>4 DEF WaitingIsAccurate, Waiters, GiveUp

(* PopTask by a worker that has just asked for a task. *)
LEMMA EnterPopStep ==
  ASSUME IInv, NEW w \in Workers, EnterPop(w)
  PROVE  IInv'
<1> USE DEF IInv
<1>1. CASE Take(w) /\ UNCHANGED waiting
  <2>1. PICK x \in {"quit", "run"} : wpc' = [wpc EXCEPT ![w] = x]
    BY <1>1 DEF Take
  <2>2. TypeOK'
    BY <1>1, TakeTypes DEF TypeOK, EnterPop, listVars, pushVars, ownVars, taskVars
  <2>3. \A v \in Workers : /\ wpc'[v] \in InWait <=> wpc[v] \in InWait
                           /\ wpc'[v] \in AtWork <=> wpc[v] \in AtWork
                           /\ wpc'[v] \in {"exit", "exited"} <=> wpc[v] \in {"exit", "exited"}
    BY <2>1 DEF EnterPop, InWait, AtWork, TypeOK
  <2>4. WaitingIsAccurate'
    BY <1>1, <2>3, SameWaiters
  <2>5. ListsMatchThreads'
    BY <2>3, SameLists DEF EnterPop, listVars
  <2> QED BY <2>2, <2>4, <2>5 DEF EnterPop, listVars, ownVars, ShutdownState, ThreadsWithinLimit
<1>2. CASE /\ waiting' = waiting + 1
           /\ wpc' = [wpc EXCEPT ![w] = "asleep"]
           /\ UNCHANGED <<deque, cb>>
  <2>1. TypeOK'
    BY <1>2 DEF TypeOK, EnterPop, listVars, pushVars, ownVars, taskVars, AtWork, InWait
  <2>2. Waiters' = Waiters \cup {w} /\ w \notin Waiters /\ Waiters \in SUBSET Workers
    BY <1>2 DEF Waiters, EnterPop, InWait, TypeOK
  <2>3. WaitingIsAccurate'
    BY <1>2, <2>2, OneMore DEF WaitingIsAccurate, Waiters
  <2>4. ListsMatchThreads'
    BY <1>2, SameLists DEF EnterPop, listVars, AtWork, InWait, TypeOK
  <2> QED BY <2>1, <2>3, <2>4 DEF EnterPop, listVars, ownVars, ShutdownState, ThreadsWithinLimit
<1> QED BY <1>1, <1>2 DEF EnterPop

(* A wait that returns keeps its worker in the wait. *)
LEMMA WakeUpStep ==
  ASSUME IInv, NEW w \in Workers, WakeUp(w)
  PROVE  IInv'
<1> USE DEF IInv
<1>1. PICK x \in InWait : wpc' = [wpc EXCEPT ![w] = x]
  BY DEF WakeUp, InWait
<1>2. wpc[w] \in InWait
  BY DEF WakeUp, InWait
<1>3. TypeOK'
  BY <1>1 DEF TypeOK, WakeUp, queueVars, listVars, pushVars, ownVars, taskVars, AtWork
<1>4. WaitingIsAccurate'
  BY <1>1, <1>2, SameWaiters DEF WakeUp, queueVars, TypeOK
<1>5. ListsMatchThreads'
  BY <1>1, <1>2, SameLists DEF WakeUp, listVars, AtWork, InWait, TypeOK
<1> QED BY <1>3, <1>4, <1>5 DEF WakeUp, listVars, ownVars, ShutdownState, ThreadsWithinLimit

(* The three ways out of a wait. *)
LEMMA ResumePopStep ==
  ASSUME IInv, NEW w \in Workers, ResumePop(w)
  PROVE  IInv'
<1> USE DEF IInv
<1>0. wpc[w] \in InWait
  BY DEF ResumePop, InWait
<1>1. CASE Take(w) /\ waiting' = GiveUp
  <2>1. PICK x \in {"quit", "run"} : wpc' = [wpc EXCEPT ![w] = x]
    BY <1>1 DEF Take
  <2>2. WaitingIsAccurate' /\ waiting' \in Nat
    BY <1>0, <1>1, <2>1, LeaveWait
  <2>3. TypeOK'
    BY <1>1, <2>2, TakeTypes DEF TypeOK, ResumePop, listVars, pushVars, ownVars, taskVars
  <2>4. ListsMatchThreads'
    BY <1>0, <2>1, SameLists DEF ResumePop, listVars, AtWork, InWait, TypeOK
  <2> QED BY <2>2, <2>3, <2>4 DEF ResumePop, listVars, ownVars, ShutdownState, ThreadsWithinLimit
<1>2. CASE /\ wpc[w] = "woken"
           /\ wpc' = [wpc EXCEPT ![w] = "asleep"]
           /\ UNCHANGED <<queueVars, cb>>
  <2>1. TypeOK'
    BY <1>2 DEF TypeOK, ResumePop, queueVars, listVars, pushVars, ownVars, taskVars, AtWork, InWait
  <2>2. WaitingIsAccurate'
    BY <1>2, SameWaiters DEF queueVars, TypeOK, InWait
  <2>3. ListsMatchThreads'
    BY <1>2, SameLists DEF ResumePop, listVars, AtWork, InWait, TypeOK
  <2> QED BY <2>1, <2>2, <2>3 DEF ResumePop, listVars, ownVars, ShutdownState, ThreadsWithinLimit
<1>3. CASE /\ waiting' = GiveUp
           /\ wpc' = [wpc EXCEPT ![w] = "quit"]
           /\ UNCHANGED <<deque, cb>>
  <2>1. WaitingIsAccurate' /\ waiting' \in Nat
    BY <1>0, <1>3, LeaveWait
  <2>2. TypeOK'
    BY <1>3, <2>1 DEF TypeOK, ResumePop, listVars, pushVars, ownVars, taskVars, AtWork
  <2>3. ListsMatchThreads'
    BY <1>0, <1>3, SameLists DEF ResumePop, listVars, AtWork, InWait, TypeOK
  <2> QED BY <2>1, <2>2, <2>3 DEF ResumePop, listVars, ownVars, ShutdownState, ThreadsWithinLimit
<1> QED BY <1>1, <1>2, <1>3 DEF ResumePop

(* A worker that is not in the wait goes to another place out of the wait: *)
(* the count of waiters is not touched.                                    *)
LEMMA MoveOutside ==
  ASSUME TypeOK, WaitingIsAccurate, UNCHANGED waiting,
         NEW w \in Workers, wpc[w] \notin InWait,
         NEW x \in {"none", "exit", "exited", "pop", "run", "quit"},
         wpc' = [wpc EXCEPT ![w] = x]
  PROVE  /\ wpc' \in [Workers -> {"none", "exit", "exited"} \cup AtWork]
         /\ WaitingIsAccurate'
<1>1. wpc' \in [Workers -> {"none", "exit", "exited"} \cup AtWork]
  BY DEF TypeOK, AtWork
<1>2. \A v \in Workers : wpc'[v] \in InWait <=> wpc[v] \in InWait
  BY DEF TypeOK, InWait
<1> QED BY <1>1, <1>2, SameWaiters

(* A task returns. *)
LEMMA FinishTaskStep ==
  ASSUME IInv, NEW w \in Workers, FinishTask(w), cb[w] \in Tasks
  PROVE  IInv'
<1> USE DEF IInv
<1>1. WaitingIsAccurate' /\ wpc' \in [Workers -> {"none", "exit", "exited"} \cup AtWork]
  BY MoveOutside DEF FinishTask, queueVars, InWait
<1>2. TypeOK'
  BY <1>1 DEF TypeOK, FinishTask, queueVars, listVars, pushVars, ownVars
<1>3. ListsMatchThreads'
  BY SameLists DEF FinishTask, listVars, AtWork, TypeOK
<1> QED BY <1>1, <1>2, <1>3 DEF FinishTask, listVars, ownVars, ShutdownState, ThreadsWithinLimit

(* A thread goes from one list to the other. *)
LEMMA QuitStep ==
  ASSUME IInv, NEW w \in Workers, Quit(w)
  PROVE  IInv'
<1> USE DEF IInv
<1>1. WaitingIsAccurate' /\ wpc' \in [Workers -> {"none", "exit", "exited"} \cup AtWork]
  BY MoveOutside DEF Quit, queueVars, InWait
<1>2. TypeOK'
  BY <1>1 DEF TypeOK, Quit, OthersThan, queueVars, pushVars, ownVars, taskVars
<1>3. ListsMatchThreads'
  BY DEF ListsMatchThreads, Quit, OthersThan, AtWork, InWait, TypeOK
<1>4. w \in threads
  BY DEF ListsMatchThreads, Quit, AtWork
<1>5. ThreadsWithinLimit'
  <2>1. Cardinality(threads') = Cardinality(threads) - 1
    BY <1>4, OneLess DEF TypeOK, Quit, OthersThan
  <2>2. Cardinality(threads) \in Nat
    BY WorkerSets DEF TypeOK
  <2> QED BY <2>1, <2>2, PoolAssumption DEF ThreadsWithinLimit
<1>6. ShutdownState'
  BY <1>4 DEF ShutdownState, Quit, OthersThan, ownVars
<1> QED BY <1>1, <1>2, <1>3, <1>5, <1>6

(* The thread function returns. *)
LEMMA ExitStep ==
  ASSUME IInv, NEW w \in Workers, Exit(w)
  PROVE  IInv'
<1> USE DEF IInv
<1>1. WaitingIsAccurate' /\ wpc' \in [Workers -> {"none", "exit", "exited"} \cup AtWork]
  BY MoveOutside DEF Exit, queueVars, InWait
<1>2. TypeOK'
  BY <1>1 DEF TypeOK, Exit, queueVars, listVars, pushVars, ownVars, taskVars
<1>3. ListsMatchThreads'
  BY SameLists DEF Exit, listVars, AtWork, InWait, TypeOK
<1> QED BY <1>1, <1>2, <1>3 DEF Exit, listVars, ownVars, ShutdownState, ThreadsWithinLimit

(* What ~WorkerThread does to the threads on the dead list. *)
LEMMA ReapEffect ==
  ASSUME IInv, Reap, UNCHANGED <<waiting, threads>>
  PROVE  /\ WaitingIsAccurate'
         /\ ListsMatchThreads'
         /\ wpc' \in [Workers -> {"none", "exit", "exited"} \cup AtWork]
         /\ deadThreads' \subseteq Workers
<1> USE DEF IInv
<1>1. wpc' \in [Workers -> {"none", "exit", "exited"} \cup AtWork]
  BY DEF TypeOK, Reap
<1>2. \A v \in Workers : wpc'[v] \in InWait <=> wpc[v] \in InWait
  BY DEF TypeOK, Reap, InWait
<1>3. WaitingIsAccurate'
  BY <1>2, SameWaiters
<1>4. ListsMatchThreads'
  BY DEF ListsMatchThreads, Reap, AtWork, InWait, TypeOK
<1> QED BY <1>1, <1>3, <1>4 DEF Reap

(* A push reaps. *)
LEMMA ReapDeadThreadsStep ==
  ASSUME IInv, NEW c \in Callers, ReapDeadThreads(c)
  PROVE  IInv'
<1> USE DEF IInv
<1>1. /\ WaitingIsAccurate' /\ ListsMatchThreads' /\ deadThreads' \subseteq Workers
      /\ wpc' \in [Workers -> {"none", "exit", "exited"} \cup AtWork]
  BY ReapEffect DEF ReapDeadThreads, queueVars
<1>2. TypeOK'
  BY <1>1 DEF TypeOK, ReapDeadThreads, queueVars, ownVars, taskVars
<1> QED BY <1>1, <1>2 DEF ReapDeadThreads, ownVars, ShutdownState, ThreadsWithinLimit

(* A push may start a thread; the limit is tested under the same lock. *)
LEMMA SuggestNewThreadStep ==
  ASSUME IInv, NEW c \in Callers, SuggestNewThread(c)
  PROVE  IInv'
<1> USE DEF IInv
<1>1. ppc' \in [Callers -> {"idle", "reap", "look", "suggest", "push"}]
  BY DEF SuggestNewThread, TypeOK
<1>2. CASE UNCHANGED <<threads, wpc>>
  <2>1. TypeOK'
    BY <1>1, <1>2 DEF TypeOK, SuggestNewThread, queueVars, ownVars, taskVars
  <2>2. WaitingIsAccurate' /\ ListsMatchThreads'
    BY <1>2 DEF WaitingIsAccurate, ListsMatchThreads, SuggestNewThread, queueVars
  <2> QED BY <1>2, <2>1, <2>2 DEF SuggestNewThread, ownVars, ShutdownState, ThreadsWithinLimit
<1>3. ASSUME NEW w \in Workers, MayStart, wpc[w] = "none", threads' = threads \cup {w},
             wpc' = [wpc EXCEPT ![w] = "pop"]
      PROVE  IInv'
  <2>1. WaitingIsAccurate' /\ wpc' \in [Workers -> {"none", "exit", "exited"} \cup AtWork]
    BY <1>3, MoveOutside DEF SuggestNewThread, queueVars, InWait
  <2>2. TypeOK'
    BY <1>1, <1>3, <2>1 DEF TypeOK, SuggestNewThread, queueVars, ownVars, taskVars
  <2>3. ListsMatchThreads'
    BY <1>3 DEF ListsMatchThreads, SuggestNewThread, AtWork, InWait, TypeOK
  <2>4. w \notin threads /\ threads \in SUBSET Workers
    BY <1>3 DEF ListsMatchThreads, AtWork, InWait, TypeOK
  <2>5. Cardinality(threads') = Cardinality(threads) + 1 /\ Cardinality(threads) \in Nat
    BY <1>3, <2>4, OneMore, WorkerSets
  <2>6. owner = "up" /\ maxThreads = MaxThreads
    <3>1. Cardinality(threads) < maxThreads
      BY <1>3 DEF MayStart
    <3> QED BY <2>5, <3>1 DEF ShutdownState
  <2>7. ThreadsWithinLimit'
    BY <1>3, <2>5, <2>6, PoolAssumption DEF ThreadsWithinLimit, MayStart
  <2>8. ShutdownState'
    BY <2>6 DEF ShutdownState, SuggestNewThread, ownVars
  <2> QED BY <2>1, <2>2, <2>3, <2>7, <2>8
<1> QED BY <1>2, <1>3 DEF SuggestNewThread

(* A push or a null task reaches the deque, and wakes somebody. *)
LEMMA EnqueueStep ==
  ASSUME IInv, NotifyOne(wpc), UNCHANGED <<waiting, threads, deadThreads>>
  PROVE  /\ WaitingIsAccurate'
         /\ ListsMatchThreads'
         /\ wpc' \in [Workers -> {"none", "exit", "exited"} \cup AtWork]
<1> USE DEF IInv
<1>1. /\ wpc' \in [Workers -> {"none", "exit", "exited"} \cup AtWork]
      /\ \A w \in Workers : wpc'[w] \in InWait <=> wpc[w] \in InWait
      /\ \A w \in Workers : wpc[w] \notin InWait => wpc'[w] = wpc[w]
  BY NotifyKeepsWaiters
<1>2. WaitingIsAccurate'
  BY <1>1, SameWaiters
<1>3. ListsMatchThreads'
  BY <1>1, SameLists DEF AtWork, InWait
<1> QED BY <1>1, <1>2, <1>3

LEMMA PushStepIInv ==
  ASSUME IInv, NEW c \in Callers, Push(c)
  PROVE  IInv'
<1> USE DEF IInv
<1>1. /\ WaitingIsAccurate' /\ ListsMatchThreads'
      /\ wpc' \in [Workers -> {"none", "exit", "exited"} \cup AtWork]
  BY EnqueueStep DEF Push, listVars
<1>2. parg[c] \in Tasks \cup {Null} /\ deque \in Seq(Tasks \cup {Null})
  BY DEF TypeOK
<1>3. deque' \in Seq(Tasks \cup {Null})
  <2>1. <<parg[c]>> \in Seq(Tasks \cup {Null})
    BY <1>2
  <2>2. <<parg[c]>> \o deque \in Seq(Tasks \cup {Null})
    BY <1>2, <2>1, ConcatProperties
  <2>3. Append(deque, parg[c]) \in Seq(Tasks \cup {Null})
    BY <1>2, AppendProperties
  <2> QED BY <2>2, <2>3 DEF Push
<1>4. TypeOK'
  BY <1>1, <1>3 DEF TypeOK, Push, listVars, ownVars, taskVars
<1> QED BY <1>1, <1>4 DEF Push, listVars, ownVars, ShutdownState, ThreadsWithinLimit

LEMMA PushNullStep ==
  ASSUME IInv, PushNull
  PROVE  IInv'
<1> USE DEF IInv
<1>1. /\ WaitingIsAccurate' /\ ListsMatchThreads'
      /\ wpc' \in [Workers -> {"none", "exit", "exited"} \cup AtWork]
  BY EnqueueStep DEF PushNull, listVars
<1>2. deque' \in Seq(Tasks \cup {Null})
  BY DEF PushNull, WithNull, TypeOK
<1>3. nulls' \in Nat
  BY DEF PushNull, TypeOK
<1>4. TypeOK'
  BY <1>1, <1>2, <1>3 DEF TypeOK, PushNull, listVars, pushVars, taskVars
<1> QED BY <1>1, <1>4 DEF PushNull, listVars, ShutdownState, ThreadsWithinLimit

(* The steps that touch neither a thread nor a list. *)
LEMMA QuietStep ==
  ASSUME IInv, TypeOK', UNCHANGED <<waiting, threads, deadThreads, wpc>>, ShutdownState'
  PROVE  IInv'
<1> USE DEF IInv
<1>1. WaitingIsAccurate' /\ ListsMatchThreads' /\ ThreadsWithinLimit'
  BY DEF WaitingIsAccurate, ListsMatchThreads, ThreadsWithinLimit
<1> QED BY <1>1

LEMMA BeginPushStep ==
  ASSUME IInv, NEW c \in Callers, NEW t \in Tasks, BeginPush(c, t)
  PROVE  IInv'
<1>1. TypeOK'
  BY DEF IInv, TypeOK, BeginPush, queueVars, listVars, workVars, ownVars, pushVars
<1>2. ShutdownState'
  BY DEF IInv, ShutdownState, BeginPush, listVars, ownVars
<1> QED BY <1>1, <1>2, QuietStep DEF BeginPush, queueVars, listVars, workVars

LEMMA LookStep ==
  ASSUME IInv, NEW c \in Callers, Look(c)
  PROVE  IInv'
<1>1. TypeOK'
  BY DEF IInv, TypeOK, Look, queueVars, listVars, workVars, ownVars, taskVars
<1>2. ShutdownState'
  BY DEF IInv, ShutdownState, Look, listVars, ownVars
<1> QED BY <1>1, <1>2, QuietStep DEF Look, queueVars, listVars, workVars

(* Shutdown, but for the null tasks. *)
LEMMA ShutdownSteps ==
  ASSUME IInv, BeginShutdown \/ LockShutdown \/ WaitForEmpty \/ ReturnShutdown
  PROVE  IInv'
<1> USE DEF IInv, queueVars, listVars, workVars, pushVars, taskVars
<1>1. CASE BeginShutdown
  <2>1. TypeOK'
    BY <1>1 DEF TypeOK, BeginShutdown
  <2>2. ShutdownState'
    BY <1>1 DEF ShutdownState, BeginShutdown
  <2> QED BY <1>1, <2>1, <2>2, QuietStep DEF BeginShutdown
<1>2. CASE LockShutdown
  <2>1. Cardinality(threads) \in Nat
    BY WorkerSets DEF TypeOK
  <2>2. TypeOK'
    BY <1>2, <2>1 DEF TypeOK, LockShutdown, NullsNeeded
  <2>3. ShutdownState'
    BY <1>2 DEF ShutdownState, LockShutdown
  <2> QED BY <1>2, <2>2, <2>3, QuietStep DEF LockShutdown
<1>3. CASE WaitForEmpty
  <2>1. TypeOK'
    BY <1>3 DEF TypeOK, WaitForEmpty
  <2>2. ShutdownState'
    BY <1>3 DEF ShutdownState, WaitForEmpty
  <2> QED BY <1>3, <2>1, <2>2, QuietStep DEF WaitForEmpty
<1>4. CASE ReturnShutdown
  <2>1. TypeOK'
    BY <1>4 DEF TypeOK, ReturnShutdown
  <2>2. ShutdownState'
    BY <1>4 DEF ShutdownState, ReturnShutdown, MayReturn
  <2> QED BY <1>4, <2>1, <2>2, QuietStep DEF ReturnShutdown
<1> QED BY <1>1, <1>2, <1>3, <1>4

LEMMA DestroyStep ==
  ASSUME IInv, Destroy
  PROVE  IInv'
<1>1. /\ WaitingIsAccurate' /\ ListsMatchThreads' /\ deadThreads' \subseteq Workers
      /\ wpc' \in [Workers -> {"none", "exit", "exited"} \cup AtWork]
  BY ReapEffect DEF Destroy
<1>2. TypeOK'
  BY <1>1 DEF IInv, TypeOK, Destroy, pushVars
<1> QED BY <1>1, <1>2 DEF IInv, Destroy, ShutdownState, ThreadsWithinLimit

-----------------------------------------------------------------------------
(* A worker that is running has a task to run: needed to say that what is  *)
(* finished was a task.                                                    *)
RunsATask == \A w \in Workers : wpc[w] = "run" => cb[w] \in Tasks

LEMMA TakeRunsATask ==
  ASSUME TypeOK, RunsATask, NEW w \in Workers, Take(w)
  PROVE  RunsATask'
<1>1. Head(deque) \in Tasks \cup {Null}
  BY DEF TypeOK, Take
<1>2. CASE Head(deque) = Null
  BY <1>2 DEF TypeOK, RunsATask, Take
<1>3. CASE Head(deque) # Null
  BY <1>1, <1>3 DEF TypeOK, RunsATask, Take
<1> QED BY <1>2, <1>3

LEMMA RunsATaskStep ==
  ASSUME IInv, RunsATask, [Next]_vars
  PROVE  RunsATask'
<1> USE DEF IInv
<1>1. ASSUME NEW w \in Workers, EnterPop(w) \/ ResumePop(w)
      PROVE  RunsATask'
  <2>1. CASE Take(w)
    BY <2>1, TakeRunsATask
  <2>2. CASE ~Take(w)
    BY <1>1, <2>2 DEF EnterPop, ResumePop, RunsATask, TypeOK
  <2> QED BY <2>1, <2>2
<1>2. ASSUME NEW w \in Workers, FinishTask(w) \/ Quit(w) \/ Exit(w) \/ WakeUp(w)
      PROVE  RunsATask'
  BY <1>2 DEF FinishTask, Quit, Exit, WakeUp, RunsATask, TypeOK
<1>3. ASSUME NEW c \in Callers, PushStep(c) \/ \E t \in Tasks : BeginPush(c, t)
      PROVE  RunsATask'
  <2>1. CASE Push(c)
    <3>1. \A w \in Workers : wpc[w] \notin InWait => wpc'[w] = wpc[w]
      BY <2>1, NotifyKeepsWaiters DEF Push
    <3>2. \A w \in Workers : wpc'[w] \in InWait <=> wpc[w] \in InWait
      BY <2>1, NotifyKeepsWaiters DEF Push
    <3> QED BY <2>1, <3>1, <3>2 DEF Push, RunsATask, InWait
  <2>2. CASE ~Push(c)
    BY <1>3, <2>2 DEF PushStep, ReapDeadThreads, Reap, Look, SuggestNewThread,
                      BeginPush, RunsATask, TypeOK, workVars
  <2> QED BY <2>1, <2>2
<1>4. CASE PushNull
  <2>1. \A w \in Workers : wpc[w] \notin InWait => wpc'[w] = wpc[w]
    BY <1>4, NotifyKeepsWaiters DEF PushNull
  <2>2. \A w \in Workers : wpc'[w] \in InWait <=> wpc[w] \in InWait
    BY <1>4, NotifyKeepsWaiters DEF PushNull
  <2> QED BY <1>4, <2>1, <2>2 DEF PushNull, RunsATask, InWait
<1>5. CASE BeginShutdown \/ LockShutdown \/ WaitForEmpty \/ ReturnShutdown
  BY <1>5 DEF BeginShutdown, LockShutdown, WaitForEmpty, ReturnShutdown, RunsATask, workVars
<1>6. CASE Destroy
  BY <1>6 DEF Destroy, Reap, RunsATask, TypeOK
<1>7. CASE UNCHANGED vars
  BY <1>7 DEF vars, workVars, RunsATask
<1> QED BY <1>1, <1>2, <1>3, <1>4, <1>5, <1>6, <1>7
        DEF Next, WorkerStep, ShutdownStep, Terminated

LEMMA NextIInv ==
  ASSUME IInv, RunsATask, [Next]_vars
  PROVE  IInv'
<1>1. ASSUME NEW w \in Workers, WorkerStep(w) \/ WakeUp(w)
      PROVE  IInv'
  <2>1. CASE FinishTask(w)
    <3>1. cb[w] \in Tasks
      BY <2>1 DEF FinishTask, RunsATask
    <3> QED BY <2>1, <3>1, FinishTaskStep
  <2> QED BY <1>1, <2>1, EnterPopStep, ResumePopStep, QuitStep, ExitStep, WakeUpStep
          DEF WorkerStep
<1>2. ASSUME NEW c \in Callers, PushStep(c) \/ \E t \in Tasks : BeginPush(c, t)
      PROVE  IInv'
  BY <1>2, ReapDeadThreadsStep, LookStep, SuggestNewThreadStep, PushStepIInv, BeginPushStep
     DEF PushStep
<1>3. CASE BeginShutdown \/ ShutdownStep
  BY <1>3, ShutdownSteps, PushNullStep DEF ShutdownStep
<1>4. CASE Destroy
  BY <1>4, DestroyStep
<1>5. CASE UNCHANGED vars
  <2>1. UNCHANGED <<waiting, threads, deadThreads, wpc>>
    BY <1>5 DEF vars, queueVars, listVars, workVars
  <2>2. TypeOK'
    BY <1>5 DEF IInv, TypeOK, vars, queueVars, listVars, workVars, pushVars, ownVars, taskVars
  <2>3. ShutdownState'
    BY <1>5 DEF IInv, ShutdownState, vars, listVars, ownVars
  <2> QED BY <2>1, <2>2, <2>3, QuietStep
<1> QED BY <1>1, <1>2, <1>3, <1>4, <1>5 DEF Next, Terminated

LEMMA InitRunsATask == Init => RunsATask
  BY DEF Init, RunsATask

LEMMA Invariance == Spec => [](IInv /\ RunsATask)
<1>1. Init => IInv /\ RunsATask
  BY InitIInv, InitRunsATask
<1>2. IInv /\ RunsATask /\ [Next]_vars => (IInv /\ RunsATask)'
  BY NextIInv, RunsATaskStep
<1> QED BY <1>1, <1>2, PTL DEF Spec

-----------------------------------------------------------------------------
(* Every variable of the pool keeps its type, in particular the unsigned   *)
(* m_waiting is never decremented below zero.                              *)
THEOREM TypeCorrect == Spec => []TypeOK
<1>1. IInv => TypeOK
  BY DEF IInv
<1> QED BY <1>1, Invariance, PTL

(* AnyWaiting's counter is exact for any number of threads and pushers. *)
THEOREM WaitingCorrect == Spec => []WaitingIsAccurate
<1>1. IInv => WaitingIsAccurate
  BY DEF IInv
<1> QED BY <1>1, Invariance, PTL

(* The pool never has more threads on its list than it was made for. *)
THEOREM LimitCorrect == Spec => []ThreadsWithinLimit
<1>1. IInv => ThreadsWithinLimit
  BY DEF IInv
<1> QED BY <1>1, Invariance, PTL

(* Only threads past their last lock are ever joined under m_mutex. *)
THEOREM ListsCorrect == Spec => []ListsMatchThreads
<1>1. IInv => ListsMatchThreads
  BY DEF IInv
<1> QED BY <1>1, Invariance, PTL

(* After Shutdown no thread takes or runs a task. *)
THEOREM ShutdownCorrect == Spec => []ShutdownQuiesces
<1>1. IInv => ShutdownQuiesces
  BY DEF IInv, ShutdownState, ShutdownQuiesces, ListsMatchThreads, TypeOK
<1> QED BY <1>1, Invariance, PTL

(* The unsigned sum in Count does not wrap. *)
THEOREM CountCorrect == Spec => []CountNeverWraps
<1>1. IInv => CountNeverWraps
  <2> SUFFICES ASSUME IInv PROVE CountNeverWraps
    OBVIOUS
  <2>1. Waiters \subseteq threads /\ threads \subseteq Workers
    BY DEF IInv, Waiters, ListsMatchThreads, AtWork, TypeOK
  <2>2. Cardinality(Waiters) <= Cardinality(threads)
    BY <2>1, WorkerSets, FS_Subset
  <2>3. Len(deque) \in Nat /\ Cardinality(threads) \in Nat /\ Cardinality(Waiters) \in Nat
    BY <2>1, WorkerSets, LenProperties DEF IInv, TypeOK, Waiters
  <2> QED BY <2>2, <2>3 DEF IInv, WaitingIsAccurate, Waiters, CountNeverWraps, Count
<1> QED BY <1>1, Invariance, PTL

(* No thread starts once Shutdown has begun: a push that passed the        *)
(* unlocked test finds the limit at zero when it has the lock.             *)
THEOREM NoLateStart == Spec => NoStartAfterShutdown
<1>1. IInv /\ [Next]_vars => [maxThreads = 0 => threads' \subseteq threads]_vars
  <2> SUFFICES ASSUME IInv, Next, maxThreads = 0
               PROVE  threads' \subseteq threads
    OBVIOUS
  <2>1. ASSUME NEW c \in Callers, SuggestNewThread(c)
        PROVE  threads' \subseteq threads
    <3>1. Cardinality(threads) \in Nat
      BY WorkerSets DEF IInv, TypeOK
    <3>2. ~MayStart
      BY <3>1 DEF MayStart
    <3> QED BY <2>1, <3>2 DEF SuggestNewThread
  <2>2. CASE UNCHANGED threads
    BY <2>2
  <2>3. ASSUME NEW w \in Workers, Quit(w)
        PROVE  threads' \subseteq threads
    BY <2>3 DEF Quit, OthersThan
  <2> QED BY <2>1, <2>2, <2>3
          DEF Next, WorkerStep, PushStep, ShutdownStep, EnterPop, ResumePop, FinishTask,
              Exit, WakeUp, ReapDeadThreads, Look, Push, BeginPush, BeginShutdown,
              LockShutdown, PushNull, WaitForEmpty, ReturnShutdown, Destroy, Terminated,
              listVars, vars
<1> QED BY <1>1, Invariance, PTL DEF Spec, NoStartAfterShutdown
(* What decides when a thread is started and who is waited for is exact    *)
(* for any number of threads, clients and tasks.                           *)
THEOREM AccountsCorrect == Spec => []AccountsAreExact
  BY TypeCorrect, WaitingCorrect, LimitCorrect, ListsCorrect, CountCorrect, PTL
  DEF AccountsAreExact

(* After Shutdown no thread starts, and once it has returned none works.   *)
THEOREM FinalCorrect == Spec => ShutdownIsFinal
  BY ShutdownCorrect, NoLateStart, PTL DEF ShutdownIsFinal

-----------------------------------------------------------------------------
(***************************************************************************)
(* The pool does what a task queue promises.  What no step may do is put a *)
(* task in two places: a task is nobody's yet, or in the hands of one      *)
(* caller, or in the queue once, or run by one worker, or done.            *)
(***************************************************************************)
InHand(t) == \E c \in Callers : parg[c] = t
IsRun(t) == \E w \in Workers : cb[w] = t

(* Whoever has nothing to push or to run holds the null task. *)
HandsMatchPlaces ==
  /\ \A c \in Callers : ppc[c] # "idle" <=> parg[c] # Null
  /\ \A w \in Workers : cb[w] # Null => wpc[w] = "run"

OnePlace == \A t \in Tasks :
  /\ t \in fresh => ~InHand(t) /\ ~InDeque(t) /\ ~IsRun(t) /\ t \notin done
  /\ InHand(t) => ~InDeque(t) /\ ~IsRun(t) /\ t \notin done
  /\ InDeque(t) => ~IsRun(t) /\ t \notin done
  /\ IsRun(t) => t \notin done

Once ==
  /\ \A c, d \in Callers : parg[c] = parg[d] /\ parg[c] # Null => c = d
  /\ \A i, j \in DOMAIN deque : deque[i] = deque[j] /\ deque[i] # Null => i = j
  /\ \A v, w \in Workers : cb[v] = cb[w] /\ cb[v] # Null => v = w

Places == HandsMatchPlaces /\ OnePlace /\ Once

LEMMA InitPlaces == Init => Places
  BY PoolAssumption
  DEF Init, Places, HandsMatchPlaces, OnePlace, Once, InHand, InDeque, IsRun, Callers

(* A step that leaves tasks where they are. *)
LEMMA TasksStay ==
  ASSUME Places, UNCHANGED <<deque, cb, ppc, parg, fresh, done>>,
         \A w \in Workers : wpc[w] = "run" => wpc'[w] = "run"
  PROVE  Places'
<1>1. HandsMatchPlaces'
  BY DEF Places, HandsMatchPlaces
<1>2. OnePlace' /\ Once'
  BY DEF Places, OnePlace, Once, InHand, InDeque, IsRun
<1> QED BY <1>1, <1>2 DEF Places

(* What is in the queue when its first task has been taken from it. *)
LEMMA AfterTake ==
  ASSUME TypeOK, Once, deque # <<>>, deque' = Tail(deque)
  PROVE  /\ Head(deque) \in Tasks \cup {Null}
         /\ \A i, j \in DOMAIN deque' : deque'[i] = deque'[j] /\ deque'[i] # Null => i = j
         /\ \A t \in Tasks : InDeque(t)' <=> InDeque(t) /\ t # Head(deque)
<1>1. deque \in Seq(Tasks \cup {Null}) /\ Len(deque) \in Nat \ {0} /\ DOMAIN deque = 1..Len(deque)
  BY DEF TypeOK
<1>2. Head(deque) = deque[1] /\ Head(deque) \in Tasks \cup {Null}
  BY <1>1
<1>3. /\ DOMAIN deque' = 1..(Len(deque) - 1)
      /\ \A i \in DOMAIN deque' : deque'[i] = deque[i + 1] /\ i + 1 \in DOMAIN deque
  BY <1>1
<1>4. \A i, j \in DOMAIN deque' : deque'[i] = deque'[j] /\ deque'[i] # Null => i = j
  BY <1>1, <1>3 DEF Once
<1>5. ASSUME NEW t \in Tasks
      PROVE  InDeque(t)' <=> InDeque(t) /\ t # Head(deque)
  <2>1. ASSUME NEW i \in DOMAIN deque', deque'[i] = t
        PROVE  InDeque(t) /\ t # Head(deque)
    <3>1. deque[i + 1] = t /\ i + 1 \in DOMAIN deque /\ i + 1 # 1
      BY <1>1, <1>3, <2>1
    <3>2. 1 \in DOMAIN deque /\ t # Null
      BY <1>1, PoolAssumption
    <3> QED BY <1>2, <3>1, <3>2 DEF InDeque, Once
  <2>2. ASSUME NEW i \in DOMAIN deque, deque[i] = t, t # Head(deque)
        PROVE  InDeque(t)'
    <3>1. i - 1 \in DOMAIN deque' /\ (i - 1) + 1 = i
      BY <1>1, <1>2, <1>3, <2>2
    <3>2. deque'[i - 1] = t
      BY <1>3, <2>2, <3>1
    <3> QED BY <3>1, <3>2 DEF InDeque
  <2> QED BY <2>1, <2>2 DEF InDeque
<1> QED BY <1>2, <1>4, <1>5

(* What is in the queue when something was put at one of its ends. *)
LEMMA AfterPut ==
  ASSUME TypeOK, Once, NEW x \in Tasks \cup {Null}, x # Null => ~InDeque(x),
         deque' \in {Append(deque, x), <<x>> \o deque}
  PROVE  /\ \A i, j \in DOMAIN deque' : deque'[i] = deque'[j] /\ deque'[i] # Null => i = j
         /\ \A t \in Tasks : InDeque(t)' <=> InDeque(t) \/ t = x
<1>1. deque \in Seq(Tasks \cup {Null}) /\ Len(deque) \in Nat /\ DOMAIN deque = 1..Len(deque)
  BY DEF TypeOK
<1>2. CASE deque' = Append(deque, x)
  <2>1. /\ DOMAIN deque' = 1..(Len(deque) + 1)
        /\ \A i \in DOMAIN deque : deque'[i] = deque[i] /\ i \in DOMAIN deque'
        /\ deque'[Len(deque) + 1] = x
        /\ \A i \in DOMAIN deque' : i \in DOMAIN deque \/ i = Len(deque) + 1
    BY <1>1, <1>2, AppendProperties
  <2>2. Len(deque) + 1 \in DOMAIN deque'
    BY <1>1, <2>1
  <2> QED BY <2>1, <2>2 DEF Once, InDeque
<1>3. CASE deque' = <<x>> \o deque
  <2>0. <<x>> \in Seq(Tasks \cup {Null}) /\ Len(<<x>>) = 1 /\ <<x>>[1] = x
    OBVIOUS
  <2>1. /\ DOMAIN deque' = 1..(Len(deque) + 1)
        /\ deque'[1] = x
        /\ \A i \in DOMAIN deque' \ {1} : deque'[i] = deque[i - 1] /\ i - 1 \in DOMAIN deque
    BY <1>1, <1>3, <2>0, ConcatProperties
  <2>2. 1 \in DOMAIN deque' /\ \A i \in DOMAIN deque : i + 1 \in DOMAIN deque' \ {1}
    BY <1>1, <2>1
  <2>3. \A i \in DOMAIN deque : deque'[i + 1] = deque[i]
    <3>1. \A i \in DOMAIN deque : (i + 1) - 1 = i
      BY <1>1
    <3> QED BY <2>1, <2>2, <3>1
  <2>4. \A t \in Tasks : InDeque(t)' <=> InDeque(t) \/ t = x
    BY <2>1, <2>2, <2>3 DEF InDeque
  <2>5. ASSUME NEW i \in DOMAIN deque', NEW j \in DOMAIN deque',
               deque'[i] = deque'[j], deque'[i] # Null
        PROVE  i = j
    <3>1. CASE i = 1 \/ j = 1
      BY <2>1, <2>5, <3>1 DEF InDeque
    <3>2. CASE i # 1 /\ j # 1
      <4>1. i - 1 = j - 1
        BY <2>1, <2>5, <3>2 DEF Once
      <4> QED BY <1>1, <2>1, <4>1
    <3> QED BY <3>1, <3>2
  <2> QED BY <2>4, <2>5
<1> QED BY <1>2, <1>3

(* A worker takes the first task, which then is in no other place. *)
LEMMA TakePlaces ==
  ASSUME TypeOK, Places, NEW w \in Workers, Take(w), wpc[w] # "run",
         UNCHANGED <<ppc, parg, fresh, done>>
  PROVE  Places'
<1> USE DEF Places
<1>1. /\ Head(deque) \in Tasks \cup {Null}
      /\ \A i, j \in DOMAIN deque' : deque'[i] = deque'[j] /\ deque'[i] # Null => i = j
      /\ \A t \in Tasks : InDeque(t)' <=> InDeque(t) /\ t # Head(deque)
  BY AfterTake DEF Take, Remaining
<1>2. Head(deque) \in Tasks => InDeque(Head(deque))
  <2>1. 1 \in DOMAIN deque /\ Head(deque) = deque[1]
    BY DEF TypeOK, Take
  <2> QED BY <2>1 DEF InDeque
<1>3. cb' = [cb EXCEPT ![w] = Head(deque)] /\ cb \in [Workers -> Tasks \cup {Null}] /\ cb[w] = Null
  BY DEF Take, TypeOK, HandsMatchPlaces
<1>4. HandsMatchPlaces'
  BY <1>3 DEF HandsMatchPlaces, Take, TypeOK
<1>5. \A t \in Tasks : /\ InHand(t)' <=> InHand(t)
                       /\ IsRun(t)' <=> IsRun(t) \/ t = Head(deque)
  BY <1>3, PoolAssumption DEF InHand, IsRun
<1>6. OnePlace'
  BY <1>1, <1>2, <1>5 DEF OnePlace
<1>7. Once'
  <2>1. \A v, u \in Workers : cb'[v] = cb'[u] /\ cb'[v] # Null => v = u
    <3>1. \A v \in Workers : v # w /\ Head(deque) # Null => cb[v] # Head(deque)
      BY <1>1, <1>2 DEF OnePlace, IsRun
    <3> QED BY <1>3, <3>1 DEF Once
  <2> QED BY <1>1, <2>1 DEF Once
<1> QED BY <1>4, <1>6, <1>7

(* A task that has returned is not run by anybody else. *)
LEMMA FinishPlaces ==
  ASSUME TypeOK, Places, RunsATask, NEW w \in Workers, FinishTask(w)
  PROVE  /\ Places'
         /\ cb[w] \in Tasks
         /\ \A t \in Tasks : IsRun(t)' <=> IsRun(t) /\ t # cb[w]
<1> USE DEF Places
<1>1. /\ cb[w] \in Tasks /\ cb \in [Workers -> Tasks \cup {Null}]
      /\ cb' = [cb EXCEPT ![w] = Null] /\ done' = done \cup {cb[w]}
      /\ UNCHANGED <<deque, ppc, parg, fresh>>
  BY DEF FinishTask, RunsATask, TypeOK, queueVars, pushVars
<1>2. HandsMatchPlaces'
  BY <1>1 DEF HandsMatchPlaces, FinishTask, TypeOK
<1>3. \A t \in Tasks : IsRun(t)' <=> IsRun(t) /\ t # cb[w]
  BY <1>1, PoolAssumption DEF IsRun, Once
<1>4. \A t \in Tasks : (InHand(t)' <=> InHand(t)) /\ (InDeque(t)' <=> InDeque(t))
  BY <1>1 DEF InHand, InDeque
<1>5. OnePlace'
  <2>1. IsRun(cb[w])
    BY DEF IsRun
  <2> QED BY <1>1, <1>3, <1>4, <2>1 DEF OnePlace
<1>6. Once'
  BY <1>1 DEF Once
<1> QED BY <1>1, <1>2, <1>3, <1>5, <1>6

(* A caller begins a push: a fresh task is in its hands, or is dropped. *)
LEMMA BeginPlaces ==
  ASSUME TypeOK, Places, NEW c \in Callers, NEW t \in Tasks, BeginPush(c, t)
  PROVE  Places'
<1> USE DEF Places
<1>1. /\ t \in fresh /\ fresh' = fresh \ {t} /\ ppc[c] = "idle"
      /\ parg \in [Callers -> Tasks \cup {Null}]
      /\ UNCHANGED <<deque, cb, wpc, done>>
  BY DEF BeginPush, TypeOK, queueVars, workVars
<1>2. CASE UNCHANGED pushVars
  BY <1>1, <1>2 DEF pushVars, HandsMatchPlaces, OnePlace, Once, InHand, InDeque, IsRun
<1>3. CASE /\ ppc' = [ppc EXCEPT ![c] = "reap"]
           /\ parg' = [parg EXCEPT ![c] = t]
  <2>1. HandsMatchPlaces'
    BY <1>1, <1>3, PoolAssumption DEF HandsMatchPlaces, TypeOK
  <2>2. parg[c] = Null
    BY <1>1 DEF HandsMatchPlaces
  <2>3. \A u \in Tasks : /\ InHand(u)' <=> InHand(u) \/ u = t
                         /\ InDeque(u)' <=> InDeque(u)
                         /\ IsRun(u)' <=> IsRun(u)
    BY <1>1, <1>3, <2>2, PoolAssumption DEF InHand, InDeque, IsRun
  <2>4. OnePlace'
    BY <1>1, <2>3 DEF OnePlace
  <2>5. \A d \in Callers : parg[d] # t
    BY <1>1 DEF OnePlace, InHand
  <2>6. Once'
    BY <1>1, <1>3, <2>5 DEF Once
  <2> QED BY <2>1, <2>4, <2>6
<1> QED BY <1>2, <1>3 DEF BeginPush

(* The task leaves the caller's hands for the queue. *)
LEMMA PushPlaces ==
  ASSUME TypeOK, Places, NEW c \in Callers, Push(c)
  PROVE  /\ Places'
         /\ parg[c] \in Tasks /\ InHand(parg[c])
         /\ \A t \in Tasks : InDeque(t)' <=> InDeque(t) \/ t = parg[c]
<1> USE DEF Places
<1>1. /\ parg \in [Callers -> Tasks \cup {Null}] /\ parg[c] \in Tasks /\ InHand(parg[c])
      /\ parg' = [parg EXCEPT ![c] = Null] /\ ppc' = [ppc EXCEPT ![c] = "idle"]
      /\ deque' \in {Append(deque, parg[c]), <<parg[c]>> \o deque}
      /\ UNCHANGED <<cb, fresh, done>>
  BY DEF Push, TypeOK, HandsMatchPlaces, InHand, taskVars
<1>2. ~InDeque(parg[c])
  BY <1>1 DEF OnePlace
<1>3. /\ \A i, j \in DOMAIN deque' : deque'[i] = deque'[j] /\ deque'[i] # Null => i = j
      /\ \A t \in Tasks : InDeque(t)' <=> InDeque(t) \/ t = parg[c]
  BY <1>1, <1>2, AfterPut
<1>4. \A w \in Workers : wpc[w] = "run" => wpc'[w] = "run"
  BY NotifyKeepsWaiters DEF Push, InWait
<1>5. HandsMatchPlaces'
  BY <1>1, <1>4 DEF HandsMatchPlaces, TypeOK
<1>6. \A t \in Tasks : /\ InHand(t)' <=> InHand(t) /\ t # parg[c]
                       /\ IsRun(t)' <=> IsRun(t)
  BY <1>1, PoolAssumption DEF InHand, IsRun, Once
<1>7. OnePlace'
  BY <1>1, <1>3, <1>6 DEF OnePlace
<1>8. Once'
  BY <1>1, <1>3 DEF Once
<1> QED BY <1>1, <1>3, <1>5, <1>7, <1>8

(* A null task in the queue displaces nothing. *)
LEMMA NullPlaces ==
  ASSUME TypeOK, Places, PushNull
  PROVE  /\ Places'
         /\ \A t \in Tasks : InDeque(t)' <=> InDeque(t)
<1> USE DEF Places
<1>1. UNCHANGED <<cb, ppc, parg, fresh, done>> /\ deque' \in {Append(deque, Null), <<Null>> \o deque}
  BY DEF PushNull, WithNull, pushVars, taskVars
<1>2. /\ \A i, j \in DOMAIN deque' : deque'[i] = deque'[j] /\ deque'[i] # Null => i = j
      /\ \A t \in Tasks : InDeque(t)' <=> InDeque(t) \/ t = Null
  BY <1>1, AfterPut
<1>3. \A w \in Workers : wpc[w] = "run" => wpc'[w] = "run"
  BY NotifyKeepsWaiters DEF PushNull, InWait
<1>4. HandsMatchPlaces'
  BY <1>1, <1>3 DEF HandsMatchPlaces
<1>5. \A t \in Tasks : /\ InHand(t)' <=> InHand(t)
                       /\ IsRun(t)' <=> IsRun(t)
                       /\ InDeque(t)' <=> InDeque(t)
  BY <1>1, <1>2, PoolAssumption DEF InHand, IsRun
<1>6. OnePlace' /\ Once'
  BY <1>1, <1>2, <1>5 DEF OnePlace, Once
<1> QED BY <1>4, <1>5, <1>6

(* The threads that are reaped were not running. *)
LEMMA ReapKeepsRunning ==
  ASSUME TypeOK, ListsMatchThreads, Reap
  PROVE  \A w \in Workers : wpc[w] = "run" => wpc'[w] = "run"
  BY DEF Reap, ListsMatchThreads, TypeOK

LEMMA DestroyPlaces ==
  ASSUME IInv, Places, Destroy
  PROVE  Places'
<1> USE DEF Places
<1>1. UNCHANGED <<cb, ppc, parg, fresh, done>> /\ deque' = <<>>
  BY DEF Destroy, pushVars
<1>2. HandsMatchPlaces'
  BY <1>1, ReapKeepsRunning DEF HandsMatchPlaces, Destroy, IInv
<1>3. \A t \in Tasks : ~InDeque(t)' /\ (InHand(t)' <=> InHand(t)) /\ (IsRun(t)' <=> IsRun(t))
  BY <1>1 DEF InDeque, InHand, IsRun
<1>4. OnePlace'
  BY <1>1, <1>3 DEF OnePlace
<1>5. Once'
  BY <1>1 DEF Once
<1> QED BY <1>2, <1>4, <1>5

(* What a promised step may touch, when it touches nothing. *)
LEMMA Stutters ==
  ASSUME \A t \in Tasks : (InDeque(t)' <=> InDeque(t)) /\ (IsRun(t)' <=> IsRun(t)),
         done' = done, (owner \in {"down", "destroyed"})' <=> owner \in {"down", "destroyed"}
  PROVE  UNCHANGED Executor!vars
<1>1. {t \in Tasks : InDeque(t)}' = {t \in Tasks : InDeque(t)}
  OBVIOUS
<1>2. {t \in Tasks : \E w \in Workers : cb[w] = t}' = {t \in Tasks : \E w \in Workers : cb[w] = t}
  BY DEF IsRun
<1>3. (owner \in {"down", "destroyed"})' = (owner \in {"down", "destroyed"})
  OBVIOUS
<1> QED BY <1>1, <1>2, <1>3 DEF Executor!vars

(* A worker that may take a task is on the list, and does not count among  *)
(* those that run one.                                                     *)
LEMMA FewerRunThanMay ==
  ASSUME IInv, Places, NEW w \in Workers, wpc[w] \in AtWork, wpc[w] # "run"
  PROVE  /\ owner \notin {"down", "destroyed"}
         /\ Cardinality({t \in Tasks : IsRun(t)}) < MaxThreads
<1> DEFINE R == {v \in Workers : cb[v] \in Tasks}
           T == {t \in Tasks : IsRun(t)}
           f == [v \in R |-> cb[v]]
<1> USE DEF IInv
<1>1. w \in threads /\ threads \in SUBSET Workers
  BY DEF ListsMatchThreads, TypeOK
<1>2. owner \notin {"down", "destroyed"}
  BY <1>1 DEF ShutdownState
<1>3. R \subseteq threads \ {w}
  BY PoolAssumption DEF Places, HandsMatchPlaces, ListsMatchThreads, AtWork
<1>4. threads \ {w} \in SUBSET Workers /\ R \in SUBSET (threads \ {w})
  BY <1>1, <1>3
<1>5. IsFiniteSet(R) /\ Cardinality(R) <= Cardinality(threads \ {w}) /\ Cardinality(R) \in Nat
  BY <1>4, WorkerSets, FS_Subset
<1>6. f \in Surjection(R, T)
  <2>1. f \in [R -> T]
    BY DEF IsRun
  <2>2. \A t \in T : \E v \in R : f[v] = t
    BY DEF IsRun
  <2> QED BY <2>1, <2>2 DEF Surjection
<1>7. Cardinality(T) <= Cardinality(R) /\ IsFiniteSet(T)
  <2> HIDE DEF f, R, T
  <2> QED BY <1>5, <1>6, FS_Surjection
<1>8. Cardinality(threads \ {w}) = Cardinality(threads) - 1 /\ Cardinality(threads) \in Nat
  BY <1>1, OneLess, WorkerSets
<1>9. Cardinality(threads) <= MaxThreads /\ MaxThreads \in Nat
  BY PoolAssumption DEF ThreadsWithinLimit
<1>10. Cardinality(T) \in Nat
  BY <1>7, FS_CardinalityType
<1>11. Cardinality(T) < MaxThreads
  <2> HIDE DEF R, T
  <2> QED BY <1>5, <1>7, <1>8, <1>9, <1>10
<1> QED BY <1>2, <1>11

LEMMA SameCardinality ==
  ASSUME NEW S
  PROVE  Executor!Cardinality(S) = Cardinality(S)
  BY DEF Executor!Cardinality, Cardinality

(* Taking a task is a promised start, taking a null task is no step. *)
LEMMA TakeImplements ==
  ASSUME IInv, Places, NEW w \in Workers, Take(w), wpc[w] \in AtWork, wpc[w] # "run",
         UNCHANGED <<done, owner>>
  PROVE  [Executor!Next]_(Executor!vars)
<1>1. /\ Head(deque) \in Tasks \cup {Null}
      /\ \A t \in Tasks : InDeque(t)' <=> InDeque(t) /\ t # Head(deque)
  BY AfterTake DEF Take, Remaining, IInv, Places
<1>2. cb' = [cb EXCEPT ![w] = Head(deque)] /\ cb \in [Workers -> Tasks \cup {Null}] /\ cb[w] = Null
  BY DEF Take, IInv, TypeOK, Places, HandsMatchPlaces
<1>3. \A t \in Tasks : IsRun(t)' <=> IsRun(t) \/ t = Head(deque)
  BY <1>2, PoolAssumption DEF IsRun
<1>4. CASE Head(deque) = Null
  BY <1>1, <1>3, <1>4, Stutters, PoolAssumption
<1>5. CASE Head(deque) \in Tasks
  <2>1. InDeque(Head(deque))
    <3>1. 1 \in DOMAIN deque /\ Head(deque) = deque[1]
      BY DEF IInv, TypeOK, Take
    <3> QED BY <3>1 DEF InDeque
  <2>2. {t \in Tasks : InDeque(t)}' = {t \in Tasks : InDeque(t)} \ {Head(deque)}
    BY <1>1
  <2>3. {t \in Tasks : IsRun(t)}' = {t \in Tasks : IsRun(t)} \cup {Head(deque)}
    BY <1>3, <1>5
  <2>4. /\ owner \notin {"down", "destroyed"}
        /\ Cardinality({t \in Tasks : IsRun(t)}) < MaxThreads
    BY FewerRunThanMay
  <2>5. PICK t \in Tasks : t = Head(deque)
    BY <1>5
  <2>6. ~(owner \in {"down", "destroyed"}) /\ t \in {u \in Tasks : InDeque(u)}
    BY <2>1, <2>4, <2>5
  <2>7. UNCHANGED <<done, owner \in {"down", "destroyed"}>>
    OBVIOUS
  <2>8. Executor!Start(t)
    BY <2>2, <2>3, <2>4, <2>5, <2>6, <2>7, SameCardinality DEF Executor!Start, IsRun
  <2> QED BY <2>8 DEF Executor!Next
<1> QED BY <1>1, <1>4, <1>5

(* A task returns: a promised finish. *)
LEMMA FinishImplements ==
  ASSUME IInv, RunsATask, Places, NEW w \in Workers, FinishTask(w)
  PROVE  Executor!Next
<1>1. cb[w] \in Tasks /\ \A t \in Tasks : IsRun(t)' <=> IsRun(t) /\ t # cb[w]
  BY FinishPlaces DEF IInv
<1>2. {t \in Tasks : IsRun(t)}' = {t \in Tasks : IsRun(t)} \ {cb[w]}
  BY <1>1
<1>3. {t \in Tasks : InDeque(t)}' = {t \in Tasks : InDeque(t)}
  BY DEF FinishTask, queueVars, InDeque
<1>4. PICK t \in Tasks : t = cb[w]
  BY <1>1
<1>5. Executor!Finish(t)
  BY <1>2, <1>3, <1>4 DEF Executor!Finish, FinishTask, ownVars, IsRun
<1> QED BY <1>5 DEF Executor!Next

(* A task reaches the queue: a promised submission. *)
LEMMA PushImplements ==
  ASSUME IInv, Places, NEW c \in Callers, Push(c)
  PROVE  Executor!Next
<1>1. /\ parg[c] \in Tasks /\ InHand(parg[c])
      /\ \A t \in Tasks : InDeque(t)' <=> InDeque(t) \/ t = parg[c]
  BY PushPlaces DEF IInv
<1>2. {t \in Tasks : InDeque(t)}' = {t \in Tasks : InDeque(t)} \cup {parg[c]}
  BY <1>1
<1>3. {t \in Tasks : IsRun(t)}' = {t \in Tasks : IsRun(t)}
  BY DEF Push, IsRun
<1>4. ~InDeque(parg[c]) /\ ~IsRun(parg[c]) /\ parg[c] \notin done
  BY <1>1 DEF Places, OnePlace
<1>5. Executor!Submit(parg[c])
  BY <1>1, <1>2, <1>3, <1>4 DEF Executor!Submit, Push, ownVars, taskVars, IsRun
<1> QED BY <1>1, <1>5 DEF Executor!Next

(* Shutdown returns: nobody runs a task, and the queue is closed. *)
LEMMA ReturnImplements ==
  ASSUME IInv, Places, ReturnShutdown
  PROVE  Executor!Next
<1>1. \A w \in Workers : cb[w] \notin Tasks
  BY PoolAssumption DEF IInv, ListsMatchThreads, Places, HandsMatchPlaces, ReturnShutdown,
                        MayReturn, AtWork
<1>2. UNCHANGED <<deque, cb, done>> /\ owner' = "down"
  BY DEF ReturnShutdown, queueVars, workVars, taskVars
<1>3. Executor!Close
  BY <1>1, <1>2 DEF Executor!Close, InDeque
<1> QED BY <1>3 DEF Executor!Next

(* What is left is given up with the pool. *)
LEMMA DestroyImplements ==
  ASSUME Destroy
  PROVE  Executor!Next
<1>1. deque' = <<>> /\ UNCHANGED <<cb, done>> /\ owner = "down" /\ owner' = "destroyed"
  BY DEF Destroy
<1>2. Executor!Abandon
  BY <1>1 DEF Executor!Abandon, InDeque
<1> QED BY <1>2 DEF Executor!Next

(* Every other step moves no task. *)
LEMMA OtherSteps ==
  ASSUME IInv, Places, UNCHANGED <<deque, cb, ppc, parg, fresh, done>>,
         \A w \in Workers : wpc[w] = "run" => wpc'[w] = "run",
         (owner \in {"down", "destroyed"})' <=> owner \in {"down", "destroyed"}
  PROVE  Places' /\ UNCHANGED Executor!vars
<1>1. \A t \in Tasks : (InDeque(t)' <=> InDeque(t)) /\ (IsRun(t)' <=> IsRun(t))
  BY DEF InDeque, IsRun
<1> QED BY <1>1, Stutters, TasksStay

(* The same for a step of a push that is not its last. *)
LEMMA PushOnTheWay ==
  ASSUME IInv, Places, NEW c \in Callers, ppc[c] # "idle", ppc'[c] # "idle",
         ppc' = [ppc EXCEPT ![c] = ppc'[c]],
         UNCHANGED <<deque, cb, parg, fresh, done, owner>>,
         \A w \in Workers : wpc[w] = "run" => wpc'[w] = "run"
  PROVE  Places' /\ UNCHANGED Executor!vars
<1>1. \A t \in Tasks : /\ InDeque(t)' <=> InDeque(t)
                       /\ IsRun(t)' <=> IsRun(t)
                       /\ InHand(t)' <=> InHand(t)
  BY DEF InDeque, IsRun, InHand
<1>2. HandsMatchPlaces'
  BY DEF Places, HandsMatchPlaces, IInv, TypeOK
<1>3. OnePlace' /\ Once'
  BY <1>1 DEF Places, OnePlace, Once
<1> QED BY <1>1, <1>2, <1>3, Stutters DEF Places

(* Every step is a promised one or none, and leaves tasks in one place. *)
LEMMA NextPlaces ==
  ASSUME IInv, RunsATask, Places, [Next]_vars
  PROVE  Places' /\ [Executor!Next]_(Executor!vars)
<1> USE DEF queueVars, listVars, workVars, pushVars, ownVars, taskVars
<1>1. ASSUME NEW w \in Workers, EnterPop(w) \/ ResumePop(w)
      PROVE  Places' /\ [Executor!Next]_(Executor!vars)
  <2>1. /\ wpc[w] \in AtWork /\ wpc[w] # "run"
        /\ UNCHANGED <<ppc, parg, fresh, done, owner>>
    BY <1>1 DEF EnterPop, ResumePop, AtWork, InWait
  <2>2. CASE Take(w)
    BY <2>1, <2>2, TakePlaces, TakeImplements DEF IInv
  <2>3. CASE ~Take(w)
    <3>1. UNCHANGED <<deque, cb>> /\ \A v \in Workers : wpc[v] = "run" => wpc'[v] = "run"
      BY <1>1, <2>3 DEF EnterPop, ResumePop, IInv, TypeOK
    <3> QED BY <2>1, <3>1, OtherSteps
  <2> QED BY <2>2, <2>3
<1>2. ASSUME NEW w \in Workers, FinishTask(w)
      PROVE  Places' /\ [Executor!Next]_(Executor!vars)
  BY <1>2, FinishPlaces, FinishImplements DEF IInv
<1>3. ASSUME NEW w \in Workers, Quit(w) \/ Exit(w) \/ WakeUp(w)
      PROVE  Places' /\ [Executor!Next]_(Executor!vars)
  <2>1. UNCHANGED <<deque, cb, ppc, parg, fresh, done, owner>>
    BY <1>3 DEF Quit, Exit, WakeUp
  <2>2. \A v \in Workers : wpc[v] = "run" => wpc'[v] = "run"
    BY <1>3 DEF Quit, Exit, WakeUp, IInv, TypeOK
  <2> QED BY <2>1, <2>2, OtherSteps
<1>4. ASSUME NEW c \in Callers, ReapDeadThreads(c) \/ Look(c) \/ SuggestNewThread(c)
      PROVE  Places' /\ [Executor!Next]_(Executor!vars)
  <2>1. /\ ppc[c] # "idle" /\ ppc'[c] # "idle" /\ ppc' = [ppc EXCEPT ![c] = ppc'[c]]
        /\ UNCHANGED <<deque, cb, parg, fresh, done, owner>>
    BY <1>4 DEF ReapDeadThreads, Look, SuggestNewThread, IInv, TypeOK
  <2>2. \A v \in Workers : wpc[v] = "run" => wpc'[v] = "run"
    BY <1>4, ReapKeepsRunning DEF ReapDeadThreads, Look, SuggestNewThread, IInv, TypeOK
  <2> QED BY <2>1, <2>2, PushOnTheWay
<1>5. ASSUME NEW c \in Callers, Push(c)
      PROVE  Places' /\ [Executor!Next]_(Executor!vars)
  BY <1>5, PushPlaces, PushImplements DEF IInv
<1>6. ASSUME NEW c \in Callers, NEW t \in Tasks, BeginPush(c, t)
      PROVE  Places' /\ [Executor!Next]_(Executor!vars)
  <2>1. Places'
    BY <1>6, BeginPlaces DEF IInv
  <2>2. UNCHANGED <<deque, cb, done, owner>>
    BY <1>6 DEF BeginPush
  <2>3. \A u \in Tasks : (InDeque(u)' <=> InDeque(u)) /\ (IsRun(u)' <=> IsRun(u))
    BY <2>2 DEF InDeque, IsRun
  <2> QED BY <2>1, <2>2, <2>3, Stutters
<1>7. CASE BeginShutdown \/ LockShutdown \/ WaitForEmpty
  <2>1. UNCHANGED <<deque, cb, wpc, ppc, parg, fresh, done>>
    BY <1>7 DEF BeginShutdown, LockShutdown, WaitForEmpty
  <2>2. (owner \in {"down", "destroyed"})' <=> owner \in {"down", "destroyed"}
    BY <1>7 DEF BeginShutdown, LockShutdown, WaitForEmpty
  <2> QED BY <2>1, <2>2, OtherSteps
<1>8. CASE PushNull
  <2>1. Places' /\ \A t \in Tasks : InDeque(t)' <=> InDeque(t)
    BY <1>8, NullPlaces DEF IInv
  <2>2. UNCHANGED <<cb, done, owner>>
    BY <1>8 DEF PushNull
  <2>3. \A t \in Tasks : IsRun(t)' <=> IsRun(t)
    BY <2>2 DEF IsRun
  <2> QED BY <2>1, <2>2, <2>3, Stutters
<1>9. CASE ReturnShutdown
  <2>1. UNCHANGED <<deque, cb, wpc, ppc, parg, fresh, done>>
    BY <1>9 DEF ReturnShutdown
  <2> QED BY <1>9, <2>1, TasksStay, ReturnImplements
<1>10. CASE Destroy
  BY <1>10, DestroyPlaces, DestroyImplements
<1>11. CASE UNCHANGED vars
  <2>1. UNCHANGED <<deque, cb, wpc, ppc, parg, fresh, done, owner>>
    BY <1>11 DEF vars
  <2> QED BY <2>1, OtherSteps
<1> QED BY <1>1, <1>2, <1>3, <1>4, <1>5, <1>6, <1>7, <1>8, <1>9, <1>10, <1>11
        DEF Next, WorkerStep, PushStep, ShutdownStep, Terminated

(* The pool does what a task queue promises to those that push, for any    *)
(* number of them: a task is started once and only after it was pushed, at *)
(* most m_max_threads run at a time, and nothing runs after Shutdown.      *)
THEOREM PoolKeepsItsPromise == Spec => ImplementsExecutor
<1>1. Init => Places /\ Executor!Init
  <2>1. Init => Executor!Init
    BY PoolAssumption DEF Init, Executor!Init, InDeque
  <2> QED BY <2>1, InitPlaces
<1>2. IInv /\ RunsATask /\ Places /\ [Next]_vars => Places' /\ [Executor!Next]_(Executor!vars)
  BY NextPlaces
<1> QED BY <1>1, <1>2, Invariance, PTL DEF Spec, ImplementsExecutor, Executor!Spec

=============================================================================
