------------------------ MODULE MC_BackgroundScheduler ------------------------
(* Two tasks, two handles and a short time for TLC. *)
EXTENDS BackgroundScheduler, TLC

CONSTANTS p, q, g, h

TwoTasks   == {p, q}
TwoHandles == {g, h}

(* Each task has its socket, and q also waits for that of p, as            *)
(* ssdp::Responder does for its two.                                       *)
SharedHandles == {<<p, g>>, <<q, g>>, <<q, h>>}

(* A timer that starts at once and repeats, and one that is called once,   *)
(* later.                                                                  *)
TwoTimers  == {[t |-> 0, repeat |-> 2, task |-> p], [t |-> 1, repeat |-> 0, task |-> q]}
=============================================================================
