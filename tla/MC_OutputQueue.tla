--------------------------- MODULE MC_OutputQueue ---------------------------
(***************************************************************************)
(* Queues of three tracks for TLC, and what is promised of the player as   *)
(* long as nothing was removed or shuffled and no call was overtaken by    *)
(* the end of a track.                                                     *)
(***************************************************************************)
EXTENDS OutputQueue, TLC

CONSTANTS x1, x2, x3

ThreeTracks == {x1, x2, x3}

AllOps == {"Add", "QueueInsert", "EntryInsert", "QueueRemove",
           "EntryRemove", "SetShuffle", "Seek", "SetPlayState"}

(* Neither the queue nor its player tells PAUSE from STOP. *)
PlayAndStop == {"PLAY", "STOP"}

VARIABLE calm   (* the queue has only grown, and no call was interrupted *)

Calmly == Len(entries') >= Size /\ shuffled' = shuffled /\ \E t \in Threads : job'[t] = <<>>

MCInit == Init /\ calm = TRUE
MCNext == Next /\ calm' = (calm /\ Calmly)
MCSpec == MCInit /\ [][MCNext]_<<vars, calm>>

(* As long as it is calm the player and the queue agree, between calls, on *)
(* what is played and what is played next, and no index or division goes   *)
(* wrong.  (With removals they may not: SetNextURL tells the player        *)
(* nothing when there is no next track, queue.cpp:502.)                    *)
PlayerInStep == calm => PlayerOnCurrent /\ NextIsNext /\ ~undefined

Symmetry == Permutations(ThreeTracks)
=============================================================================
