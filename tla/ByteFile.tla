------------------------------ MODULE ByteFile ------------------------------
(***************************************************************************)
(* A seekable stream as its one caller sees it (src/libutil/stream.h):     *)
(* each call takes effect on the bytes as the calls before it left them,   *)
(* and all that was written is there when the stream is closed.  A write   *)
(* may accept less than it was given, but something.                       *)
(***************************************************************************)
EXTENDS Naturals, Sequences

CONSTANTS Bytes,      (* what may be written                               *)
          Zero,       (* what a gap reads as                               *)
          Offsets,    (* where calls write, and the lengths they set         *)
          MaxWrite,   (* the most a call writes                            *)
          NoCall

VARIABLES call,       (* the call being made                               *)
          content,    (* the bytes of the stream                           *)
          seen        (* what the last read, or the close, brought out     *)

vars == <<call, content, seen>>

Calls == [op : {"write"}, pos : Offsets,
          data : UNION {[1..n -> Bytes] : n \in 1..MaxWrite}]
     \cup [op : {"read", "close"}, pos : {0}, data : {<<>>}]
     \cup [op : {"length"}, pos : Offsets, data : {<<>>}]

At(s, i) == IF i <= Len(s) THEN s[i] ELSE Zero

(* s with d written from offset p on; nothing changes if d is empty. *)
Overwritten(s, p, d) ==
  IF d = <<>> THEN s
  ELSE [i \in 1..(IF p + Len(d) > Len(s) THEN p + Len(d) ELSE Len(s)) |->
          IF i - p \in DOMAIN d THEN d[i - p] ELSE At(s, i)]

Resized(s, n) == [i \in 1..n |-> At(s, i)]

Init == call = NoCall /\ content = <<>> /\ seen = <<>>

Begin == /\ call = NoCall
         /\ call' \in Calls
         /\ seen' = <<>>
         /\ UNCHANGED content

In(op) == call # NoCall /\ call.op = op

Write == /\ In("write")
         /\ \E n \in DOMAIN call.data :
              content' = Overwritten(content, call.pos, SubSeq(call.data, 1, n))
         /\ call' = NoCall
         /\ UNCHANGED seen

SetLength == /\ In("length")
             /\ content' = Resized(content, call.pos)
             /\ call' = NoCall
             /\ UNCHANGED seen

Read == /\ In("read")
        /\ seen' = content
        /\ call' = NoCall
        /\ UNCHANGED content

(* The last call. *)
Close == /\ In("close")
         /\ seen' = content
         /\ UNCHANGED <<call, content>>

Next == Begin \/ Write \/ SetLength \/ Read \/ Close

Spec == Init /\ [][Next]_vars
=============================================================================
