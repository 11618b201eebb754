-------------------------- MODULE HttpConnection --------------------------
(***************************************************************************)
(* One TCP connection (util::StreamSocket, src/libutil/socket.cpp, over    *)
(* the kernel) and what HTTP sends along it.  Each direction holds tokens: *)
(* a line of a request or of an answer, or a byte of a body.               *)
(*                                                                         *)
(*   <<"request", verb, path>>  <<"range", first, last>>  <<"length", n>>  *)
(*   <<"close">>  <<"status", code>>  <<"crange", first, last, total>>     *)
(*   <<"end">>, the empty line          <<"byte", i>>, the i-th of a body  *)
(***************************************************************************)
EXTENDS Naturals, Sequences, SequencesExt

CONSTANTS
  Size,        \* for each path that there is, how many bytes it has
  Capacity,    \* how many tokens a direction holds
  LineBuffer,  \* GreedyLineReader::MAX_LINE, in tokens
  BodyBuffer,  \* BUFFER_SIZE, in tokens
  Forever      \* the end of a range without one

ASSUME ConnectionAssumption ==
  /\ Capacity \in Nat \ {0} /\ LineBuffer \in Nat \ {0} /\ BodyBuffer \in Nat \ {0}
  /\ Forever \in Nat
  /\ \A p \in DOMAIN Size : Size[p] \in 0..Forever

VARIABLE
  conn  \* up and down: what is on its way, and whether its writer has
        \* finished; open: the connection was made; reset: it has been lost

Channel == [data |-> <<>>, end |-> FALSE]
Unused  == [up |-> Channel, down |-> Channel, open |-> FALSE, reset |-> FALSE]
Opened  == [Unused EXCEPT !.open = TRUE]
Broken  == [Opened EXCEPT !.reset = TRUE]

Least(a, b)  == IF a < b THEN a ELSE b
First(n, s)  == SubSeq(s, 1, Least(n, Len(s)))
Rest(n, s)   == SubSeq(s, n + 1, Len(s))
Bytes(a, b)  == [i \in 1..(b - a) |-> <<"byte", a + i>>]

Ended(d)     == conn[d].end \/ conn.reset
Readable(d)  == conn[d].data # <<>> \/ Ended(d)
Room(d)      == Capacity - Len(conn[d].data)
Writable(d)  == Room(d) > 0 \/ conn.reset

(* Read takes what there is, up to n; Write leaves what there is room for. *)
Taken(d, n)  == [conn EXCEPT ![d].data = Rest(n, @)]
Sent(d, s)   == [conn EXCEPT ![d].data = @ \o First(Room(d), s)]

(* GreedyLineReader: what is buffered after reading, if a line is wanted   *)
(* and there is none, and the connection then; and what a body is read     *)
(* from first.                                                             *)
Lines(buffered, d) ==
  IF buffered # <<>> THEN buffered ELSE First(LineBuffer, conn[d].data)
AfterLines(buffered, d) ==
  IF buffered # <<>> THEN conn ELSE Taken(d, LineBuffer)
NoLine(buffered, d) == Lines(buffered, d) = <<>>
ReadLeftovers_None(n, buffered) == <<>>
ReadLeftovers(n, buffered)      == First(n, buffered)

(* What a request looks like on the wire, and what HTTP says its answer is *)
(* like, but for the total size in a Content-Range.                        *)
RequestLines(r) ==
  <<<<"request", r.verb, r.path>>>>
    \o r.range
    \o (IF r.close THEN <<<<"close">>>> ELSE <<>>)
    \o (IF r.body > 0 THEN <<<<"length", r.body>>>> ELSE <<>>)
    \o <<<<"end">>>> \o Bytes(0, r.body)

NotFoundPage == <<<<"byte", 0>>>>

Content(r) == IF r.verb = "POST" /\ r.path = "control" THEN Bytes(0, r.body)
              ELSE IF r.path \in DOMAIN Size THEN Bytes(0, Size[r.path])
              ELSE IF r.verb = "OPTIONS" THEN <<>> ELSE NotFoundPage

InRange(r, c) == SubSeq(c, r.range[1][2] + 1, Least(r.range[1][3] + 1, Len(c)))
Exists(r)      == Content(r) # NotFoundPage
Partial(r)    == Exists(r) /\ r.range # <<>> /\ InRange(r, Content(r)) # <<>>
Wanted(r)     == IF Partial(r) THEN InRange(r, Content(r)) ELSE Content(r)

AnswerHeaders(r) ==
  <<<<"status", IF ~Exists(r) THEN 404 ELSE IF Partial(r) THEN 206 ELSE 200>>>>
    \o (IF Partial(r) THEN <<<<"crange", r.range[1][2], r.range[1][2] + Len(Wanted(r)) - 1>>>>
        ELSE <<>>)
    \o <<<<"length", Len(Wanted(r))>>, <<"end">>>>
AnswerBody(r) == IF r.verb = "HEAD" THEN <<>> ELSE Wanted(r)
Answer(r)     == AnswerHeaders(r) \o AnswerBody(r)
=============================================================================
