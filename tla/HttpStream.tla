---------------------------- MODULE HttpStream ----------------------------
(***************************************************************************)
(* util::http::Stream (src/libutil/http_stream.cpp): a file behind a URL   *)
(* as a stream that can be read at any position.  It goes on reading from  *)
(* the answer it has as long as the positions follow on from each other,   *)
(* and otherwise asks again, for a range, on a new connection.  Calls are  *)
(* synchronous.                                                            *)
(***************************************************************************)
EXTENDS HttpConnection

CONSTANTS Offsets, ReadSizes, MaxReads  \* where, how much and how often callers read

VARIABLES
  stream,  \* the Stream
  result   \* what the last Read returned, and where it was

NewStream(path) ==
  [path |-> path, at |-> "idle", pos |-> 0, len |-> 0, need |-> TRUE, last |-> 0,
   want |-> 0, unsent |-> <<>>, lines |-> <<>>, error |-> FALSE, ranged |-> FALSE,
   length |-> 0, reads |-> 0]
NoResult == [what |-> "none", pos |-> 0, data |-> <<>>]

At(place) == stream.at = place
Returns(s, what, data) ==
  /\ stream' = [s EXCEPT !.at = "idle", !.pos = @ + Len(data), !.last = @ + Len(data)]
  /\ result' = [what |-> what, pos |-> s.pos, data |-> data]

(* SeekableStream::Seek.                                                   *)
SeekTo(pos) ==
  /\ At("idle") /\ stream.reads < MaxReads
  /\ stream' = [stream EXCEPT !.pos = pos]
  /\ UNCHANGED <<conn, result>>

(* SeekableStream::Read, and the start of ReadAt.  A position that does    *)
(* not follow on needs a new connection.                                   *)
Moved_Never == FALSE
Moved == ~stream.need /\ stream.pos # stream.last

BeginRead(n) ==
  /\ At("idle") /\ stream.reads < MaxReads
  /\ LET s == [stream EXCEPT !.reads = @ + 1, !.want = n, !.need = @ \/ Moved]
     IN  /\ conn' = IF Moved THEN Unused ELSE conn
         /\ IF s.len # 0 /\ s.pos = s.len THEN Returns(s, "eof", <<>>)
            ELSE /\ stream' = [s EXCEPT !.at = IF s.need THEN "connect" ELSE "body"]
                 /\ UNCHANGED result

(* Connect waits.  A socket that an earlier, failed, read has left         *)
(* connected cannot be connected.  The request asks for what is left.      *)
StreamConnects ==
  /\ At("connect")
  /\ \/ Returns(stream, "error", <<>>) /\ UNCHANGED conn
     \/ /\ ~conn.open
        /\ conn' = Opened
        /\ LET stop  == IF stream.len = 0 THEN Forever ELSE stream.len - 1
               range == IF stream.pos = 0 THEN <<>>
                        ELSE <<<<"range", stream.pos, stop>>>>
           IN  stream' = [stream EXCEPT !.at = "send", !.lines = <<>>, !.ranged = FALSE,
                 !.length = 0,
                 !.unsent = RequestLines([verb |-> "GET", path |-> stream.path,
                              range |-> range, body |-> 0, close |-> FALSE])]
        /\ UNCHANGED result

StreamSends ==
  /\ At("send")
  /\ IF conn.reset THEN Returns(stream, "error", <<>>) /\ UNCHANGED conn
     ELSE /\ Room("up") > 0
          /\ conn' = Sent("up", stream.unsent)
          /\ LET rest == Rest(Room("up"), stream.unsent) IN
             stream' = [stream EXCEPT !.unsent = rest,
                          !.at = IF rest = <<>> THEN "status" ELSE @]
          /\ UNCHANGED result

(* The first line of the answer does not come within thirty seconds, or a  *)
(* header within five, or the connection ends.                             *)
StreamTimesOut ==
  /\ (At("status") \/ At("header")) /\ NoLine(stream.lines, "down")
  /\ Returns(stream, "error", <<>>) /\ UNCHANGED conn

StreamStatus ==
  /\ At("status") /\ ~NoLine(stream.lines, "down")
  /\ LET lines == Lines(stream.lines, "down") IN
     stream' = [stream EXCEPT !.at = "header", !.lines = Tail(lines),
                  !.error = lines[1][2] \notin {200, 206}]
  /\ conn' = AfterLines(stream.lines, "down")
  /\ UNCHANGED result

(* A header.  The length of the whole comes from Content-Range if there is *)
(* one, otherwise from Content-Length.                                     *)
StreamHeader ==
  /\ At("header") /\ ~NoLine(stream.lines, "down")
  /\ LET lines == Lines(stream.lines, "down")
         line  == Head(lines)
         s     == [stream EXCEPT !.lines = Tail(lines)]
     IN  /\ line # <<"end">>
         /\ stream' = IF line[1] = "crange"
                      THEN [s EXCEPT !.ranged = TRUE,
                              !.len = IF line[4] # 0 THEN line[4] ELSE line[3] + 1]
                      ELSE [s EXCEPT !.length = line[2]]
  /\ conn' = AfterLines(stream.lines, "down")
  /\ UNCHANGED result

(* The end of the headers.  What the line reader has left over goes to the *)
(* caller, as far as it asked for it; the line reader then goes.           *)
StreamAnswered ==
  /\ At("header") /\ ~NoLine(stream.lines, "down")
  /\ LET lines == Lines(stream.lines, "down")
         chunk == ReadLeftovers(stream.want, Tail(lines))
         s     == [stream EXCEPT !.len = IF stream.ranged THEN @ ELSE stream.length,
                     !.lines = <<>>]
         ready == [s EXCEPT !.need = FALSE, !.last = stream.pos]
     IN  /\ Head(lines) = <<"end">>
         /\ IF stream.error THEN stream' = [s EXCEPT !.at = "page"] /\ UNCHANGED result
            ELSE IF chunk # <<>> THEN Returns(ready, "data", chunk)
            ELSE stream' = [ready EXCEPT !.at = "body"] /\ UNCHANGED result
  /\ conn' = AfterLines(stream.lines, "down")

(* The page that comes with an error is read, all its length of it, from   *)
(* the socket; then the read fails.                                        *)
ReadErrorPage ==
  /\ At("page")
  /\ Readable("down")
  /\ conn' = Taken("down", stream.length)
  /\ LET left == stream.length - Least(stream.length, Len(conn.down.data)) IN
     IF left = 0 \/ conn.down.data = <<>> THEN Returns(stream, "error", <<>>)
     ELSE stream' = [stream EXCEPT !.length = left] /\ UNCHANGED result

StreamReads ==
  /\ At("body") /\ Readable("down")
  /\ LET chunk == First(stream.want, conn.down.data) IN
     IF conn.reset THEN Returns(stream, "error", <<>>)
     ELSE Returns(stream, IF chunk = <<>> THEN "eof" ELSE "data", chunk)
  /\ conn' = Taken("down", stream.want)

StreamStep ==
  \/ \E pos \in Offsets : SeekTo(pos)
  \/ \E n \in ReadSizes : BeginRead(n)
  \/ StreamConnects \/ StreamSends \/ StreamTimesOut \/ StreamStatus
  \/ StreamHeader \/ StreamAnswered \/ ReadErrorPage \/ StreamReads
=============================================================================
