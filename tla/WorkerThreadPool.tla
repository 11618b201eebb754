-------------------------- MODULE WorkerThreadPool --------------------------
(***************************************************************************)
(* util::WorkerThreadPool and its SimpleTaskQueue                          *)
(* (src/libutil/worker_thread_pool.cpp), at the grain of its critical      *)
(* sections: a push is a check of m_max_threads, a reap, a look at the     *)
(* queue, a suggestion to start a thread and the push itself, each under   *)
(* its own lock, and anything may happen between two of them.              *)
(*                                                                         *)
(* m_mutex is held over several steps only by Shutdown while it pushes its *)
(* null tasks, so "m_mutex is free" is a predicate on owner; every other   *)
(* critical section is one step.  m_deque_mutex is never held over a step. *)
(***************************************************************************)
EXTENDS Integers, Sequences, FiniteSets

CONSTANTS
  Clients,      (* threads outside the pool that push tasks                *)
  Workers,      (* identities for the WorkerThread objects                 *)
  Tasks,        (* tasks; each is pushed once, like a fresh Task object    *)
  MaxThreads,   (* the constructor's n                                     *)
  Timeouts,     (* TRUE if the 10 s wait for a task may run out            *)
  WorkersPush,  (* TRUE if a running task may push another one             *)
  Null          (* the null TaskCallback that means "quit"                 *)

ASSUME PoolAssumption ==
  /\ IsFiniteSet(Workers)
  /\ Clients \cap Workers = {}
  /\ MaxThreads \in Nat \ {0}
  /\ {Timeouts, WorkersPush} \subseteq BOOLEAN
  /\ Null \notin Tasks

VARIABLES
  deque,        (* SimpleTaskQueue::m_deque                                *)
  waiting,      (* SimpleTaskQueue::m_waiting                              *)
  maxThreads,   (* m_max_threads                                           *)
  threads,      (* m_threads                                               *)
  deadThreads,  (* m_dead_threads                                          *)
  wpc,          (* where each WorkerThread is                              *)
  cb,           (* the task a worker is running                            *)
  ppc,          (* where each caller of PushTask is                        *)
  parg,         (* the task it is pushing                                  *)
  owner,        (* where the thread that calls Shutdown is                 *)
  nulls,        (* null tasks Shutdown has still to push                   *)
  fresh,        (* tasks nobody has pushed yet                             *)
  done,         (* tasks whose Run has returned                            *)
  dropped       (* tasks refused or destroyed without running              *)

queueVars == <<deque, waiting>>
listVars  == <<maxThreads, threads, deadThreads>>
workVars  == <<wpc, cb>>
pushVars  == <<ppc, parg>>
ownVars   == <<owner, nulls>>
taskVars  == <<fresh, done, dropped>>
vars == <<queueVars, listVars, workVars, pushVars, ownVars, taskVars>>

Callers == Clients \cup Workers
InWait == {"asleep", "woken", "timedout"}
AtWork == {"pop", "run", "quit"} \cup InWait

TypeOK ==
  /\ deque \in Seq(Tasks \cup {Null})
  /\ waiting \in Nat
  /\ maxThreads \in {0, MaxThreads}
  /\ threads \subseteq Workers
  /\ deadThreads \subseteq Workers
  /\ wpc \in [Workers -> {"none", "exit", "exited"} \cup AtWork]
  /\ cb \in [Workers -> Tasks \cup {Null}]
  /\ ppc \in [Callers -> {"idle", "reap", "look", "suggest", "push"}]
  /\ parg \in [Callers -> Tasks \cup {Null}]
  /\ owner \in {"up", "closing", "nulls", "wait", "down", "destroyed"}
  /\ nulls \in Nat
  /\ fresh \subseteq Tasks
  /\ done \subseteq Tasks
  /\ dropped \subseteq Tasks

Init ==
  /\ deque = <<>>
  /\ waiting = 0
  /\ maxThreads = MaxThreads
  /\ threads = {}
  /\ deadThreads = {}
  /\ wpc = [w \in Workers |-> "none"]
  /\ cb = [w \in Workers |-> Null]
  /\ ppc = [c \in Callers |-> "idle"]
  /\ parg = [c \in Callers |-> Null]
  /\ owner = "up"
  /\ nulls = 0
  /\ fresh = Tasks
  /\ done = {}
  /\ dropped = {}

MutexFree == owner # "nulls"
-----------------------------------------------------------------------------
(***************************************************************************)
(* SimpleTaskQueue                                                         *)
(***************************************************************************)

(* SimpleTaskQueue::AnyWaiting. *)
AnyWaiting == waiting > Len(deque)

(* notify_one: some thread asleep in wait_for is woken, if there is one. *)
NotifyOne(pc) ==
  IF \E w \in Workers : pc[w] = "asleep"
  THEN \E w \in Workers : /\ pc[w] = "asleep"
                          /\ wpc' = [pc EXCEPT ![w] = "woken"]
  ELSE wpc' = pc

Remaining_NotPopped == deque

(* pop_front. *)
Remaining == Tail(deque)

(* The end of PopTask with a task at hand, and what the worker does with it. *)
Take(w) ==
  /\ deque # <<>>
  /\ deque' = Remaining
  /\ cb' = [cb EXCEPT ![w] = Head(deque)]
  /\ wpc' = [wpc EXCEPT ![w] = IF Head(deque) = Null THEN "quit" ELSE "run"]

(* PopTask by a worker that finds a task at once, or goes to sleep. *)
EnterPop(w) ==
  /\ wpc[w] = "pop"
  /\ \/ /\ Take(w)
        /\ UNCHANGED waiting
     \/ /\ deque = <<>>
        /\ waiting' = waiting + 1
        /\ wpc' = [wpc EXCEPT ![w] = "asleep"]
        /\ UNCHANGED <<deque, cb>>
  /\ UNCHANGED <<listVars, pushVars, ownVars, taskVars>>

(* wait_for returns: without a reason, or because the time is up.  A       *)
(* notified thread that reads the clock late reports a timeout as well.    *)
WakeUp(w) ==
  /\ \/ /\ wpc[w] = "asleep"
        /\ wpc' = [wpc EXCEPT ![w] = "woken"]
     \/ /\ Timeouts
        /\ wpc[w] \in {"asleep", "woken"}
        /\ wpc' = [wpc EXCEPT ![w] = "timedout"]
  /\ UNCHANGED <<queueVars, cb, listVars, pushVars, ownVars, taskVars>>

GiveUp_Uncounted == waiting

(* --m_waiting, on the way out of PopTask. *)
GiveUp == waiting - 1

(* The rest of PopTask, m_deque_mutex taken again. *)
ResumePop(w) ==
  /\ wpc[w] \in {"woken", "timedout"}
  /\ \/ /\ Take(w)
        /\ waiting' = GiveUp
     \/ /\ deque = <<>>
        /\ wpc[w] = "woken"
        /\ wpc' = [wpc EXCEPT ![w] = "asleep"]
        /\ UNCHANGED <<queueVars, cb>>
     \/ /\ deque = <<>>
        /\ wpc[w] = "timedout"
        /\ waiting' = GiveUp
        /\ wpc' = [wpc EXCEPT ![w] = "quit"]
        /\ UNCHANGED <<deque, cb>>
  /\ UNCHANGED <<listVars, pushVars, ownVars, taskVars>>
-----------------------------------------------------------------------------
(***************************************************************************)
(* WorkerThread                                                            *)
(***************************************************************************)

(* The task returns, and the worker asks for the next one. *)
FinishTask(w) ==
  /\ wpc[w] = "run"
  /\ ppc[w] = "idle"
  /\ done' = done \cup {cb[w]}
  /\ cb' = [cb EXCEPT ![w] = Null]
  /\ wpc' = [wpc EXCEPT ![w] = "pop"]
  /\ UNCHANGED <<queueVars, listVars, pushVars, ownVars, fresh, dropped>>

(* m_threads.remove(wt). *)
OthersThan(w) == threads \ {w}

(* PopTaskOrQuit without a task: the worker moves itself to the dead list. *)
Quit(w) ==
  /\ wpc[w] = "quit"
  /\ MutexFree
  /\ threads' = OthersThan(w)
  /\ deadThreads' = deadThreads \cup {w}
  /\ wpc' = [wpc EXCEPT ![w] = "exit"]
  /\ UNCHANGED <<queueVars, maxThreads, cb, pushVars, ownVars, taskVars>>

(* The thread function returns. *)
Exit(w) ==
  /\ wpc[w] = "exit"
  /\ wpc' = [wpc EXCEPT ![w] = "exited"]
  /\ UNCHANGED <<queueVars, cb, listVars, pushVars, ownVars, taskVars>>
-----------------------------------------------------------------------------
(***************************************************************************)
(* PushTask and PushTaskFront                                              *)
(***************************************************************************)

(* The call, and its unlocked test of m_max_threads.  A worker calls it    *)
(* from the task it is running.                                            *)
BeginPush(c, t) ==
  /\ ppc[c] = "idle"
  /\ t \in fresh
  /\ c \in Workers => WorkersPush /\ wpc[c] = "run"
  /\ owner # "destroyed"
  /\ fresh' = fresh \ {t}
  /\ \/ /\ maxThreads = 0
        /\ dropped' = dropped \cup {t}
        /\ UNCHANGED pushVars
     \/ /\ maxThreads # 0
        /\ ppc' = [ppc EXCEPT ![c] = "reap"]
        /\ parg' = [parg EXCEPT ![c] = t]
        /\ UNCHANGED dropped
  /\ UNCHANGED <<queueVars, listVars, workVars, ownVars, done>>

(* ReapDeadThreads: ~WorkerThread joins each dead thread, under m_mutex. *)
Reap ==
  /\ MutexFree
  /\ \A w \in deadThreads : wpc[w] = "exited"
  /\ deadThreads' = {}
  /\ wpc' = [w \in Workers |-> IF w \in deadThreads THEN "none" ELSE wpc[w]]

ReapDeadThreads(c) ==
  /\ ppc[c] = "reap"
  /\ Reap
  /\ ppc' = [ppc EXCEPT ![c] = "look"]
  /\ UNCHANGED <<queueVars, maxThreads, threads, cb, parg, ownVars, taskVars>>

(* if (!m_queue.AnyWaiting()). *)
Look(c) ==
  /\ ppc[c] = "look"
  /\ ppc' = [ppc EXCEPT ![c] = IF AnyWaiting THEN "push" ELSE "suggest"]
  /\ UNCHANGED <<queueVars, listVars, workVars, parg, ownVars, taskVars>>

MayStart_StaleLimit == Cardinality(threads) < MaxThreads

(* The test in SuggestNewThread, under m_mutex. *)
MayStart == Cardinality(threads) < maxThreads

SuggestNewThread(c) ==
  /\ ppc[c] = "suggest"
  /\ MutexFree
  /\ \/ /\ ~MayStart
        /\ UNCHANGED <<threads, wpc>>
     \/ /\ MayStart
        /\ \E w \in Workers : /\ wpc[w] = "none"
                              /\ threads' = threads \cup {w}
                              /\ wpc' = [wpc EXCEPT ![w] = "pop"]
  /\ ppc' = [ppc EXCEPT ![c] = "push"]
  /\ UNCHANGED <<queueVars, maxThreads, deadThreads, cb, parg, ownVars, taskVars>>

(* m_queue.PushTask or m_queue.PushTaskFront, and the return to the caller. *)
Push(c) ==
  /\ ppc[c] = "push"
  /\ deque' \in {Append(deque, parg[c]), <<parg[c]>> \o deque}
  /\ NotifyOne(wpc)
  /\ ppc' = [ppc EXCEPT ![c] = "idle"]
  /\ parg' = [parg EXCEPT ![c] = Null]
  /\ UNCHANGED <<waiting, cb, listVars, ownVars, taskVars>>
-----------------------------------------------------------------------------
(***************************************************************************)
(* Shutdown and the destructor                                             *)
(***************************************************************************)

(* m_max_threads = 0, before any lock is taken. *)
BeginShutdown ==
  /\ owner = "up"
  /\ owner' = "closing"
  /\ maxThreads' = 0
  /\ UNCHANGED <<queueVars, threads, deadThreads, workVars, pushVars, nulls, taskVars>>

NullsNeeded_JustOne == IF threads = {} THEN 0 ELSE 1

(* One null task for each thread on the list. *)
NullsNeeded == Cardinality(threads)

LockShutdown ==
  /\ owner = "closing"
  /\ owner' = "nulls"
  /\ nulls' = NullsNeeded
  /\ UNCHANGED <<queueVars, listVars, workVars, pushVars, taskVars>>

(* m_queue.PushTask(TaskCallback()): at the back, behind all the work. *)
WithNull == Append(deque, Null)

PushNull ==
  /\ owner = "nulls"
  /\ nulls > 0
  /\ nulls' = nulls - 1
  /\ deque' = WithNull
  /\ NotifyOne(wpc)
  /\ UNCHANGED <<waiting, cb, listVars, pushVars, owner, taskVars>>

(* m_threads_empty.wait_for releases m_mutex. *)
WaitForEmpty ==
  /\ owner = "nulls"
  /\ nulls = 0
  /\ owner' = "wait"
  /\ UNCHANGED <<queueVars, listVars, workVars, pushVars, nulls, taskVars>>

(* while (!m_threads.empty()). *)
MayReturn == threads = {}

ReturnShutdown ==
  /\ owner = "wait"
  /\ MayReturn
  /\ owner' = "down"
  /\ UNCHANGED <<queueVars, listVars, workVars, pushVars, nulls, taskVars>>

(* ~WorkerThreadPool: a second Shutdown finds nothing to do, the dead      *)
(* threads are joined, and what is left in the deque is released.          *)
Destroy ==
  /\ owner = "down"
  /\ \A c \in Callers : ppc[c] = "idle"
  /\ Reap
  /\ owner' = "destroyed"
  /\ dropped' = dropped \cup {t \in Tasks : \E i \in DOMAIN deque : deque[i] = t}
  /\ deque' = <<>>
  /\ UNCHANGED <<waiting, maxThreads, threads, cb, pushVars, nulls, fresh, done>>

Terminated == owner = "destroyed" /\ UNCHANGED vars
-----------------------------------------------------------------------------
WorkerStep(w) == \/ EnterPop(w) \/ ResumePop(w)
                 \/ FinishTask(w) \/ Quit(w) \/ Exit(w)

PushStep(c) == \/ ReapDeadThreads(c) \/ Look(c)
               \/ SuggestNewThread(c) \/ Push(c)

ShutdownStep == LockShutdown \/ PushNull \/ WaitForEmpty \/ ReturnShutdown

Next ==
  \/ \E w \in Workers : WorkerStep(w) \/ WakeUp(w)
  \/ \E c \in Callers : PushStep(c) \/ \E t \in Tasks : BeginPush(c, t)
  \/ BeginShutdown \/ ShutdownStep
  \/ Destroy \/ Terminated

Spec == Init /\ [][Next]_vars

(***************************************************************************)
(* Threads that can run do run, tasks return, and a call that has begun    *)
(* goes on.  Nothing obliges a client to push, the owner to shut down, a   *)
(* wait to time out or a thread to wake for no reason.                     *)
(***************************************************************************)
Fairness == /\ \A w \in Workers : WF_vars(WorkerStep(w))
            /\ \A c \in Callers : WF_vars(PushStep(c))
            /\ WF_vars(ShutdownStep)

FairSpec == Spec /\ Fairness
(* WorkerThreadPool::Count over SimpleTaskQueue::Count. *)
Count == Len(deque) - waiting + Cardinality(threads)
-----------------------------------------------------------------------------
(***************************************************************************)
(* Properties                                                              *)
(***************************************************************************)

InDeque(t) == \E i \in DOMAIN deque : deque[i] = t

(* m_waiting counts exactly the threads that are between the ++ and the -- *)
(* of PopTask, however they leave it: AnyWaiting is computed from it.      *)
WaitingIsAccurate == waiting = Cardinality({w \in Workers : wpc[w] \in InWait})

(* PushTask never runs more threads than the pool was made for, although   *)
(* the look at the queue and the start of a thread are separate locks.     *)
ThreadsWithinLimit == Cardinality(threads) <= MaxThreads

(* A thread is on m_threads exactly while it can still take a task, and on *)
(* m_dead_threads only when it is past its last lock: the join that        *)
(* ReapDeadThreads does while it holds m_mutex waits for nobody's task.    *)
ListsMatchThreads == \A w \in Workers :
  /\ w \in threads <=> wpc[w] \in AtWork
  /\ w \in deadThreads <=> wpc[w] \in {"exit", "exited"}

(* WorkerThreadPool::Count, an unsigned sum whose first part is negative    *)
(* when threads wait, never wraps: a thread leaves m_waiting before it     *)
(* leaves m_threads.                                                       *)
CountNeverWraps == Count >= 0

(* The counters and lists by which the pool decides when to start a thread *)
(* and whom to wait for are exact, in the middle of any push or Shutdown.  *)
AccountsAreExact == /\ TypeOK
                    /\ WaitingIsAccurate
                    /\ ThreadsWithinLimit
                    /\ ListsMatchThreads
                    /\ CountNeverWraps

(* When Shutdown has returned, no worker runs or can take a task any more. *)
ShutdownQuiesces == owner \in {"down", "destroyed"} =>
  \A w \in Workers : wpc[w] \in {"none", "exit", "exited"}

(* Once m_max_threads is zero no thread starts, not even for a push that   *)
(* passed the unlocked test before Shutdown began.                         *)
NoStartAfterShutdown == [][maxThreads = 0 => threads' \subseteq threads]_vars

(* From Shutdown there is no way back: no thread starts, and when it has   *)
(* returned nothing runs.                                                  *)
ShutdownIsFinal == []ShutdownQuiesces /\ NoStartAfterShutdown

(* Shutdown returns, provided that the running tasks do: no thread is left *)
(* asleep without a null task.                                             *)
ShutdownReturns == owner = "closing" ~> owner \in {"down", "destroyed"}

(* A queued task is taken unless every thread has gone. *)
TakenUnlessDeserted == \A t \in Tasks : InDeque(t) ~> ~InDeque(t) \/ threads = {}

(* Nobody who waits for the pool waits for ever: neither the caller of     *)
(* Shutdown nor a task in the queue.                                       *)
NobodyIsStranded == ShutdownReturns /\ TakenUnlessDeserted

(* The pool does what a task queue promises. *)
Executor == INSTANCE TaskExecutor WITH
  Concurrency <- MaxThreads,
  pending     <- {t \in Tasks : InDeque(t)},
  running     <- {t \in Tasks : \E w \in Workers : cb[w] = t},
  finished    <- done,
  closed      <- owner \in {"down", "destroyed"}

ImplementsExecutor == Executor!Spec
=============================================================================
