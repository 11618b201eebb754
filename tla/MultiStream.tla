---------------------------- MODULE MultiStream ----------------------------
(***************************************************************************)
(* util::MultiStream (src/libutil/multi_stream.cpp): one writer and several*)
(* readers of a stream of known size, each in a thread of its own.  A      *)
(* reader that has read everything there is stores a callback, which the   *)
(* writer makes after its next Write.  The store is made under the lock,   *)
(* the writer's swap is not, so that a store may fall between its two      *)
(* halves; that callback is gone.                                          *)
(*                                                                         *)
(* Positions count lumps, of which the writer writes and a reader reads    *)
(* one at a time.                                                          *)
(***************************************************************************)
EXTENDS Naturals

CONSTANTS Outputs, Total  \* the numbers of the readers, m_size

VARIABLES
  inputpos, outputpos,  \* m_inputpos, m_outputposes
  callbacks,            \* the readers whose m_callbacks is valid
  swap,                 \* the writer's loop: who is still to be looked at,
                        \* whose callback is being swapped, and what was in it
  lost                  \* the readers whose callback the swap destroyed

streamVars == <<inputpos, outputpos, callbacks, swap, lost>>

NoSwap == [left |-> {}, of |-> {}, cb |-> FALSE]

StreamInit ==
  /\ inputpos = 0 /\ outputpos = [o \in Outputs |-> 0]
  /\ callbacks = {} /\ swap = NoSwap /\ lost = {}

(* The loops over the readers go by their numbers.                         *)
NextOf(o, s) == o \in s /\ \A p \in s : o <= p

Writing == swap # NoSwap

(* OutputRead: the end, EWOULDBLOCK, or a lump.                            *)
AtEnd(o)      == outputpos[o] = Total
WouldBlock(o) == ~AtEnd(o) /\ outputpos[o] = inputpos
HasMore(o) == outputpos[o] < inputpos
OutputRead(o) ==
  /\ HasMore(o)
  /\ outputpos' = [outputpos EXCEPT ![o] = @ + 1]
  /\ UNCHANGED <<inputpos, callbacks, swap, lost>>

(* OutputWait: the callback is made at once if something has been written  *)
(* since the read, otherwise it is stored.                                 *)
Arrived_Ignored(o) == FALSE
Arrived(o) == outputpos[o] # inputpos
OutputWait(o) ==
  /\ callbacks' = IF Arrived(o) THEN callbacks ELSE callbacks \cup {o}
  /\ UNCHANGED <<inputpos, outputpos, swap, lost>>

(* Write: the lump, and then the loop over the readers.                    *)
WriteLump ==
  /\ ~Writing /\ inputpos < Total
  /\ inputpos' = inputpos + 1
  /\ swap' = [NoSwap EXCEPT !.left = Outputs]
  /\ UNCHANGED <<outputpos, callbacks, lost>>

(* std::swap(cb, m_callbacks[i]) reads what is there ...                   *)
BeginSwap(o) ==
  /\ swap.of = {} /\ NextOf(o, swap.left)
  /\ swap' = [left |-> swap.left \ {o}, of |-> {o}, cb |-> o \in callbacks]
  /\ UNCHANGED <<inputpos, outputpos, callbacks, lost>>

(* ... and then writes an empty one.  What it read is called.              *)
Cleared(o)     == callbacks \ {o}
EndSwap(o) ==
  /\ swap.of = {o}
  /\ callbacks' = Cleared(o)
  /\ lost' = IF ~swap.cb THEN lost \cup (callbacks \cap {o}) ELSE lost
  /\ swap' = IF swap.left = {} THEN NoSwap ELSE [swap EXCEPT !.of = {}, !.cb = FALSE]
  /\ UNCHANGED <<inputpos, outputpos>>
=============================================================================
