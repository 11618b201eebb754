---------------------------- MODULE TaskExecutor ----------------------------
(***************************************************************************)
(* What a task queue with a bounded number of threads promises to the code *)
(* that pushes tasks to it (util::TaskQueue, src/libutil/task_queue.h): a  *)
(* task is started at most once, only after it was pushed, at most         *)
(* Concurrency tasks run at a time, and nothing runs once it is closed.    *)
(*                                                                         *)
(* Nothing here says that a pushed task is ever started.                   *)
(***************************************************************************)
EXTENDS Naturals, FiniteSets

CONSTANTS Tasks,        (* everything that may be pushed                   *)
          Concurrency   (* how many tasks may run at a time                *)

VARIABLES pending,      (* pushed and not started                          *)
          running,      (* started and not finished                        *)
          finished,     (* returned from Run                               *)
          closed        (* the owner has been told that all is quiet       *)

vars == <<pending, running, finished, closed>>

Init == /\ pending = {}
        /\ running = {}
        /\ finished = {}
        /\ closed = FALSE

Submit(t) == /\ t \notin pending \cup running \cup finished
             /\ pending' = pending \cup {t}
             /\ UNCHANGED <<running, finished, closed>>

Start(t) == /\ ~closed
            /\ t \in pending
            /\ Cardinality(running) < Concurrency
            /\ pending' = pending \ {t}
            /\ running' = running \cup {t}
            /\ UNCHANGED <<finished, closed>>

Finish(t) == /\ t \in running
             /\ running' = running \ {t}
             /\ finished' = finished \cup {t}
             /\ UNCHANGED <<pending, closed>>

Close == /\ running = {}
         /\ closed' = TRUE
         /\ UNCHANGED <<pending, running, finished>>

(* The queue is destroyed with whatever was never started. *)
Abandon == /\ closed
           /\ pending' = {}
           /\ UNCHANGED <<running, finished, closed>>

Next == \/ \E t \in Tasks : Submit(t) \/ Start(t) \/ Finish(t)
        \/ Close
        \/ Abandon

Spec == Init /\ [][Next]_vars
=============================================================================
