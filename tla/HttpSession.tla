---------------------------- MODULE HttpSession ----------------------------
(***************************************************************************)
(* The server with one of those who may be at the other end of a           *)
(* connection: chorale's own client, used asynchronously or by a Fetcher,  *)
(* chorale's stream, or another program, which may send several requests   *)
(* on one connection without waiting for the answers.                      *)
(***************************************************************************)
EXTENDS HttpServer, HttpClient, HttpStream

CONSTANTS
  Scripts,    \* sequences of requests that the other program sends
  Requests,   \* requests that the client makes
  Streamed,   \* paths that are opened as streams
  FaultyIn    \* states of the client in which the connection may be lost

(* A request: its range, if it has one, ends where it begins or later, and *)
(* nobody asks for part of what a control service answers.                 *)
Ranges  == {<<>>} \cup {<<<<"range", a, b>>>> : a, b \in 0..Forever}
Request == [verb : STRING, path : STRING, range : Ranges, body : 0..Forever, close : BOOLEAN]
IsRequest(r) ==
  /\ r \in Request
  /\ r.range # <<>> => /\ r.range[1][2] <= r.range[1][3]
                      /\ ~(r.verb = "POST" /\ r.path = "control")

ASSUME SessionAssumption ==
  /\ Live \in DOMAIN Size /\ Failing \subseteq DOMAIN Size \ {"control"}
  /\ Denied \notin {"raw", "client", "fetcher", "stream"}
  /\ \A script \in Scripts :
       script \in Seq(Request) /\ \A i \in DOMAIN script : IsRequest(script[i])
  /\ \A r \in Requests : IsRequest(r)

VARIABLE raw  \* the other program: its script, what is unsent, what it got

sessionVars == <<conn, peer, task, arrived, client, socket, told, stream, result, raw>>

SessionTypeOK ==
  /\ Len(conn.up.data) <= Capacity /\ Len(conn.down.data) <= Capacity
  /\ task.at \in {"none", "run", "readable", "writable", "source", "gone", "failed"}
  /\ task.state \in {"CHECKING", "WAITING", "RECV_HEADERS", "RECV_BODY",
                     "SEND_HEADERS", "SEND_BODY"}
  /\ Len(task.lines) <= LineBuffer /\ Len(task.buffer) <= BodyBuffer
  /\ client.state \in {"UNINITIALISED", "CONNECTING", "SEND_HEADERS", "SEND_BODY",
                       "WAITING", "RECV_HEADERS", "RECV_BODY", "IDLE"}
  /\ client.wait \in {"none", "readable", "writable"} /\ socket \in SocketStates
  /\ told.rc \in {"none", "ok", "error"}
  /\ told.fetched \in {"none", "ok", "error", "timeout"}
  /\ stream.at \in {"idle", "connect", "send", "status", "header", "body", "page"}
  /\ result.what \in {"none", "data", "eof", "error"}
  /\ arrived \in 0..Size[Live]

NoRequest == [verb |-> "GET", path |-> Live, range |-> <<>>, body |-> 0, close |-> TRUE]

SessionInit ==
  /\ peer \in {"raw", Denied, "client", "fetcher", "stream"}
  /\ \E script \in (IF peer \in {"raw", Denied} THEN Scripts ELSE {<<>>}) :
       raw = [script |-> script, got |-> <<>>,
              unsent |-> FlattenSeq([i \in DOMAIN script |-> RequestLines(script[i])])]
  /\ \E r \in (IF peer \in {"client", "fetcher"} THEN Requests ELSE {NoRequest}) :
       client = NewClient(r)
  /\ \E p \in (IF peer = "stream" THEN Streamed ELSE {Live}) : stream = NewStream(p)
  /\ conn = IF peer \in {"raw", Denied} THEN Opened ELSE Unused
  /\ task = NewTask /\ arrived = 0
  /\ socket = "new" /\ told = NothingTold /\ result = NoResult

clientVars == <<client, socket, told>>
streamVars == <<stream, result>>

Server == ServerStep /\ UNCHANGED <<peer, clientVars, streamVars, raw>>

Client == /\ peer \in {"client", "fetcher"} /\ ClientStep(peer)
          /\ UNCHANGED <<peer, task, arrived, streamVars, raw>>

FetcherGivesUp == /\ peer = "fetcher" /\ GiveUp
                  /\ UNCHANGED <<peer, task, arrived, streamVars, raw>>

(* A new connection has a new DataTask.                                    *)
Stream == /\ peer = "stream" /\ StreamStep
          /\ task' = IF conn' = Unused THEN NewTask ELSE task
          /\ UNCHANGED <<peer, arrived, clientVars, raw>>

RawSends == \E n \in 1..Least(Room("up"), Len(raw.unsent)) :
  /\ ~conn.reset
  /\ conn' = Sent("up", First(n, raw.unsent))
  /\ raw' = [raw EXCEPT !.unsent = Rest(n, @)]
  /\ UNCHANGED <<peer, task, arrived, clientVars, streamVars>>

RawReceives ==
  /\ raw.script # <<>> /\ conn.down.data # <<>>
  /\ conn' = Taken("down", Capacity)
  /\ raw' = [raw EXCEPT !.got = @ \o conn.down.data]
  /\ UNCHANGED <<peer, task, arrived, clientVars, streamVars>>

(* The connection is lost.                                                 *)
Reset ==
  /\ conn.open /\ ~conn.reset
  /\ \/ peer = "raw"
     \/ peer \in {"client", "fetcher"} /\ client.state \in FaultyIn
  /\ conn' = Broken
  /\ UNCHANGED <<peer, task, arrived, clientVars, streamVars, raw>>

SessionNext == Server \/ Client \/ FetcherGivesUp \/ Stream \/ RawSends \/ RawReceives \/ Reset

SessionSpec == SessionInit /\ [][SessionNext]_sessionVars

(* Pool, poller, kernel and the other program all go on; nothing has to    *)
(* fail, to time out or to read.                                           *)
FairSpec == SessionSpec /\ WF_sessionVars(Server) /\ WF_sessionVars(Client) /\ WF_sessionVars(RawSends)
                 /\ WF_sessionVars(RawReceives)
-----------------------------------------------------------------------------
(* The answers are compared but for the total size in a Content-Range.      *)
WithoutTotal(x)  == IF x[1] = "crange" THEN <<"crange", x[2], x[3]>> ELSE x
WithoutTotals(s) == [i \in DOMAIN s |-> WithoutTotal(s[i])]
AnswersTo(script)  == IF peer = Denied THEN <<>>
                    ELSE FlattenSeq([i \in DOMAIN script |-> Answer(script[i])])

(* A request for just the beginning of something is answered with all of   *)
(* it: the end of the range is compared with a length that has been set to *)
(* the range's (DataTask::Run, http_server.cpp:556).                       *)
OnlyBeginning(r) == Partial(r) /\ r.range[1][2] = 0 /\ Len(Wanted(r)) < Len(Content(r))
NoBeginnings     == \A i \in DOMAIN raw.script : ~OnlyBeginning(raw.script[i])

(* "Pipelining test with bodies" (http_server.cpp): whatever requests      *)
(* share a connection, each has its own answer, in order, with the bytes   *)
(* that were asked for and the length that was announced, and no byte of a *)
(* request's body is taken for the next request; unless one of them asks   *)
(* for just the beginning of something.                                    *)
AnswersInOrder ==
  raw.script # <<>> /\ NoBeginnings =>
    IsPrefix(WithoutTotals(raw.got \o conn.down.data), AnswersTo(raw.script))

(* Every request is answered in full, also by a stream that is still being *)
(* written, unless the connection is lost, reading what is sent fails, or  *)
(* a beginning is asked for.                                               *)
AllAnswered ==
  NoBeginnings => <>(\/ conn.reset \/ task.at = "failed"
                     \/ WithoutTotals(raw.got) = AnswersTo(raw.script))

(* "at every return site in this function, it must either call             *)
(* WaitForReadable, WaitForWritable, or target->OnDone" (http_client.cpp): *)
(* once Connect has succeeded, OnDone is called; and FetchToString         *)
(* returns.                                                                *)
OutcomeTold ==
  told.rc = "ok" ~> IF peer = "fetcher" THEN told.fetched # "none" ELSE told.done # <<>>

(* Neither end of a connection that lasts waits for ever for the other one *)
(* or for bytes it has already.                                            *)
NobodyWaitsInVain == AllAnswered /\ OutcomeTold

(* OnDone is called once, for a Fetcher only if Connect succeeded, and     *)
(* never after FetchToString has given up.  It reports success only if the *)
(* whole answer has been handed over, or, when the server could not read   *)
(* what it was sending and closed in the middle, the beginning of it: the  *)
(* length that was announced is forgotten when the connection ends         *)
(* (http_client.cpp:497).  With an error it has handed over nothing, which *)
(* FetchToString returns as success all the same (http_fetcher.cpp:130).   *)
OutcomeIsTrue ==
  /\ Len(told.done) <= 1
  /\ peer = "fetcher" /\ (told.rc = "error" \/ told.fetched = "timeout") => told.done = <<>>
  /\ told.done = <<"ok">> =>
       \/ client.data = AnswerBody(client.request)
       \/ task.at = "failed" /\ IsPrefix(client.data, AnswerBody(client.request))
  /\ told.done = <<"error">> => client.data = <<>>

(* However the caller seeks between reads, a read returns the bytes of the *)
(* file from where it was told to read.                                    *)
BytesAreRight ==
  LET n == Len(result.data) IN
  /\ SessionTypeOK
  /\ result.what = "data" => n > 0 /\ result.data = Bytes(result.pos, result.pos + n)
=============================================================================
