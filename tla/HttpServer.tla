---------------------------- MODULE HttpServer ----------------------------
(***************************************************************************)
(* Server::DataTask (src/libutil/http_server.cpp): what the server does    *)
(* with one connection.  Run is a state machine that goes on until a       *)
(* socket, or the stream it sends from, would block; then it has the       *)
(* scheduler wait, and OnActivity has a thread of the pool run it again.   *)
(* A connection may carry any number of requests; a stream that was opened *)
(* for one is kept for the next if the path is the same.                   *)
(***************************************************************************)
EXTENDS HttpConnection

CONSTANTS
  Live, Denied,  \* a path that is still being written; who is not let in
  Failing        \* paths of which reading may fail while they are sent

VARIABLES
  peer,     \* who is at the other end
  task,     \* the DataTask
  arrived   \* how much of the live stream there is

(* at: "none" before the connection is accepted, "run" while a thread runs *)
(* it, what it waits for, "gone", or "failed" if it went in the middle of  *)
(* an answer because the stream that it sent could not be read.            *)
NewTask ==
  [at |-> "none", state |-> "CHECKING", lines |-> <<>>,
   verb |-> "GET", path |-> "", last |-> "", reuse |-> FALSE,
   closing |-> FALSE, range |-> <<>>, remain |-> 0,
   source |-> <<>>, sink |-> FALSE, posted |-> <<>>,
   headers |-> <<>>, answer |-> <<>>, buffer |-> <<>>]

Run(state) == task.at = "run" /\ task.state = state
Wait(for)  == task' = [task EXCEPT !.at = for] /\ UNCHANGED conn

(* The task is destroyed, and with it its socket.                          *)
Destroy == /\ task' = [task EXCEPT !.at = "gone"]
           /\ conn' = [conn EXCEPT !.down.end = TRUE]

(* AcceptorTask::Run.                                                      *)
Accept ==
  /\ task.at = "none" /\ conn.open
  /\ task' = [task EXCEPT !.at = "run"]
  /\ UNCHANGED conn

CheckAccess ==
  /\ Run("CHECKING")
  /\ IF peer = Denied THEN Destroy
     ELSE task' = [task EXCEPT !.state = "WAITING"] /\ UNCHANGED conn

(* OnActivity: what was waited for is there, and the pool runs the task.   *)
OnActivity ==
  /\ \/ task.at = "readable" /\ Readable("up")
     \/ task.at = "writable" /\ Writable("down")
     \/ task.at = "source" /\ arrived > Size[Live] - Len(task.answer)
  /\ task' = [task EXCEPT !.at = "run"]
  /\ UNCHANGED conn

(* The parser has no whole line: wait for more, unless there is none.      *)
NeedLine ==
  /\ (Run("WAITING") \/ Run("RECV_HEADERS"))
  /\ NoLine(task.lines, "up")
  /\ IF Ended("up") THEN Destroy ELSE Wait("readable")

(* GetRequestLine; what is not a request line ends the connection.         *)
GetRequestLine ==
  /\ Run("WAITING") /\ ~NoLine(task.lines, "up")
  /\ LET lines == Lines(task.lines, "up")
         line  == Head(lines)
     IN  IF line[1] # "request" THEN Destroy
         ELSE /\ conn' = AfterLines(task.lines, "up")
              /\ task' = [task EXCEPT
                   !.state = "RECV_HEADERS", !.lines = Tail(lines),
                   !.verb = line[2], !.path = line[3], !.last = line[3],
                   !.reuse = task.last = line[3] /\ line[2] = "GET",
                   !.closing = FALSE, !.range = <<>>, !.remain = 0]

(* A range of HTTP includes its end.                                       *)
RangeMax_Inclusive(last) == last
RangeMax(last) == Least(last + 1, Forever)

GetHeaderLine ==
  /\ Run("RECV_HEADERS") /\ ~NoLine(task.lines, "up")
  /\ LET lines == Lines(task.lines, "up")
         line  == Head(lines)
         rest  == [task EXCEPT !.lines = Tail(lines)]
     IN  /\ line[1] # "end"
         /\ conn' = AfterLines(task.lines, "up")
         /\ task' = CASE line[1] = "close"  -> [rest EXCEPT !.closing = TRUE]
                      [] line[1] = "length" -> [rest EXCEPT !.remain = line[2]]
                      [] line[1] = "range"  ->
                           [rest EXCEPT !.range = <<line[2], RangeMax(line[3])>>]
                      [] OTHER -> rest

(* StreamForPath: the content factories are asked for a stream to send, or *)
(* one to give the body of the request to.                                 *)
StreamForPath(t) ==
  LET control == t.verb = "POST" /\ t.path = "control" IN
  [t EXCEPT
     !.sink   = control,
     !.source = IF control THEN <<>>
                ELSE IF t.path \in DOMAIN Size THEN <<Bytes(0, Size[t.path])>>
                ELSE IF t.verb = "OPTIONS" THEN <<<<>>>> ELSE <<>>]

EndOfHeaders ==
  /\ Run("RECV_HEADERS") /\ ~NoLine(task.lines, "up")
  /\ LET lines == Lines(task.lines, "up")
         t     == [task EXCEPT !.lines = Tail(lines), !.state = "RECV_BODY"]
     IN  /\ Head(lines) = <<"end">>
         /\ conn' = AfterLines(task.lines, "up")
         /\ task' = IF t.reuse /\ t.source # <<>> THEN t ELSE StreamForPath(t)

(* One turn of the loop over the request's body: what the line reader has  *)
(* left over comes first, then the socket is read.                         *)
ReceiveBody ==
  /\ Run("RECV_BODY") /\ task.remain > 0
  /\ LET lump  == Least(task.remain, BodyBuffer)
         left  == ReadLeftovers(lump, task.lines)
         wants == lump - Len(left)
         read  == First(wants, conn.up.data)
         chunk == left \o read
     IN  IF wants > 0 /\ read = <<>> /\ Ended("up") THEN Destroy
         ELSE IF chunk = <<>> THEN Wait("readable")
         ELSE /\ conn' = Taken("up", wants)
              /\ task' = [task EXCEPT
                   !.lines  = Rest(lump, @), !.remain = @ - Len(chunk),
                   !.posted = IF task.sink THEN @ \o chunk ELSE @]

(* The whole request is there.  The sink is told so, and answers with what *)
(* the service makes of the body; the headers of the answer are composed,  *)
(* and the range that was asked for is clipped.  The stream is kept if     *)
(* only a part of it is sent.                                              *)
BuildResponse ==
  /\ Run("RECV_BODY") /\ task.remain = 0
  /\ LET source  == IF task.sink THEN <<task.posted>> ELSE task.source
         found   == source # <<>>
         content == IF found THEN source[1] ELSE NotFoundPage
         lo      == Least(task.range[1], Len(content))
         hi      == Least(task.range[2], Len(content))
         partial == found /\ task.range # <<>> /\ hi # lo
         len     == IF partial THEN hi - lo ELSE Len(content)
         some    == partial /\ (lo > 0 \/ hi # len)
         status  == IF ~found THEN 404 ELSE IF partial THEN 206 ELSE 200
     IN  task' = [task EXCEPT
           !.state   = "SEND_HEADERS", !.sink = FALSE, !.posted = <<>>,
           !.source  = IF some THEN source ELSE <<>>,
           !.answer  = IF some THEN SubSeq(content, lo + 1, hi) ELSE content,
           !.headers = <<<<"status", status>>>>
                         \o (IF partial THEN <<<<"crange", lo, hi - 1, len>>>> ELSE <<>>)
                         \o <<<<"length", len>>, <<"end">>>>]
  /\ UNCHANGED conn

(* For HEAD the headers are sent by themselves.                            *)
SendHeaders ==
  /\ Run("SEND_HEADERS")
  /\ IF task.verb # "HEAD" \/ task.headers = <<>>
     THEN task' = [task EXCEPT !.state = "SEND_BODY"] /\ UNCHANGED conn
     ELSE IF conn.reset THEN Destroy
     ELSE IF Room("down") = 0 THEN Wait("writable")
     ELSE /\ conn' = Sent("down", task.headers)
          /\ task' = [task EXCEPT !.headers = Rest(Room("down"), @)]

(* What the stream that is sent would give now.                            *)
Available == IF task.path = Live /\ task.verb # "HEAD"
             THEN First(arrived - (Size[Live] - Len(task.answer)), task.answer)
             ELSE task.answer

Space     == BodyBuffer - Len(task.buffer)

(* One turn of the loop that sends the body: the buffer is filled up, and  *)
(* what is left of the headers, and the buffer, are written.               *)
SendBody ==
  /\ Run("SEND_BODY") /\ task.verb # "HEAD"
  /\ ~(task.answer = <<>> /\ task.buffer = <<>> /\ task.headers = <<>>)
  /\ LET read    == First(Space, Available)
         buffer  == task.buffer \o read
         message == task.headers \o buffer
         wrote   == Least(Room("down"), Len(message))
         filled  == [task EXCEPT !.answer = Rest(Len(read), @), !.buffer = buffer]
     IN  IF conn.reset THEN Destroy
         ELSE IF message = <<>> THEN Wait("source")
         ELSE IF Room("down") = 0
              THEN task' = [filled EXCEPT !.at = "writable"] /\ UNCHANGED conn
         ELSE /\ conn' = Sent("down", message)
              /\ task' = [filled EXCEPT
                   !.headers = Rest(wrote, @),
                   !.buffer  = Rest(wrote - Least(wrote, Len(task.headers)), @)]

(* Reading what is sent fails.  Run returns, and the connection ends there: *)
(* what is in the buffer, and the rest of the length that was announced,   *)
(* are never sent.                                                         *)
SourceFails ==
  /\ Run("SEND_BODY") /\ task.verb # "HEAD" /\ Space > 0
  /\ task.path \in Failing
  /\ task' = [task EXCEPT !.at = "failed"]
  /\ conn' = [conn EXCEPT !.down.end = TRUE]

(* The answer is sent: close, or go round again on the same connection.    *)
EndOfResponse_Waits ==
  /\ Run("SEND_BODY")
  /\ task.headers = <<>> /\ task.buffer = <<>>
  /\ (task.verb = "HEAD" \/ task.answer = <<>>)
  /\ IF task.closing THEN Destroy
     ELSE task' = [task EXCEPT !.state = "WAITING", !.at = "readable"] /\ UNCHANGED conn
EndOfResponse ==
  /\ Run("SEND_BODY")
  /\ task.headers = <<>> /\ task.buffer = <<>>
  /\ (task.verb = "HEAD" \/ task.answer = <<>>)
  /\ IF task.closing THEN Destroy
     ELSE task' = [task EXCEPT !.state = "WAITING"] /\ UNCHANGED conn

(* A tuner, or an encoder, adds to the live stream.                        *)
MoreArrives == /\ arrived < Size[Live] /\ arrived' = arrived + 1
               /\ UNCHANGED <<conn, task>>

ServerStep ==
  \/ (Accept \/ CheckAccess \/ OnActivity \/ NeedLine \/ GetRequestLine
       \/ GetHeaderLine \/ EndOfHeaders \/ ReceiveBody \/ BuildResponse
       \/ SendHeaders \/ SendBody \/ SourceFails \/ EndOfResponse) /\ UNCHANGED arrived
  \/ MoreArrives
=============================================================================
