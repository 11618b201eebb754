---------------------------- MODULE HttpClient ----------------------------
(***************************************************************************)
(* Client::Task (src/libutil/http_client.cpp), one request made by means   *)
(* of a scheduler, and the Fetcher (src/libutil/http_fetcher.cpp), which   *)
(* waits for it on a scheduler of its own.  Whoever asks is told how it    *)
(* went: by what Connect returns, or by one call of OnDone.                *)
(*                                                                         *)
(* The peer "client" uses a scheduler that another thread polls, "fetcher" *)
(* one that it polls itself once Connect has returned.                     *)
(***************************************************************************)
EXTENDS HttpConnection

VARIABLES
  client,   \* the Client::Task
  socket,   \* "new", "connecting", "connected" or "refused", its socket
  told      \* Connect's result, the calls of OnDone, and what the Fetcher
            \* returns, once it has

NewClient(request) ==
  [request |-> request, state |-> "UNINITIALISED", init |-> FALSE, run |-> FALSE,
   wait |-> "none", headers |-> <<>>, body |-> <<>>, lines |-> <<>>,
   left |-> 0, length |-> FALSE, data |-> <<>>, callback |-> FALSE]
NothingTold == [rc |-> "none", done |-> <<>>, fetched |-> "none"]

In(state) == client.run /\ client.state = state
Waits(c, for) == [c EXCEPT !.run = FALSE, !.wait = for]

(* Run returns without waiting for anything: the task is destroyed.        *)
Forgotten == /\ client' = Waits(client, "none")
             /\ conn'   = Broken
OnDone(rc) == told' = [told EXCEPT !.done = Append(@, rc)]
Fail       == Forgotten /\ OnDone("error") /\ UNCHANGED socket

(* Client::Connect and Init.  The wait comes before the connection.        *)
BeginConnect ==
  /\ client.state = "UNINITIALISED" /\ told.rc = "none"
  /\ client' = [client EXCEPT !.state = "CONNECTING", !.init = TRUE, !.wait = "writable"]
  /\ UNCHANGED <<conn, socket, told>>

NoAddress ==
  /\ client.state = "UNINITIALISED" /\ told.rc = "none"
  /\ told' = [told EXCEPT !.rc = "error"]
  /\ UNCHANGED <<conn, client, socket>>

(* connect(2) on a socket that is not blocking.                            *)
Connect(rc, next) ==
  \/ socket = "new"        /\ rc = "EINPROGRESS"  /\ next = "connecting"
  \/ socket = "new"        /\ rc = "ECONNREFUSED" /\ next = "refused"
  \/ socket = "connecting" /\ rc = "EALREADY"     /\ next = socket
  \/ socket = "refused"    /\ rc = "ECONNREFUSED" /\ next = socket
  \/ socket = "connected"  /\ rc = "EISCONN"      /\ next = socket

ConnectOutcomes == {"EINPROGRESS", "ECONNREFUSED", "EALREADY", "EISCONN"}
SocketStates    == {"new", "connecting", "connected", "refused"}

InitConnects == \E rc \in ConnectOutcomes, next \in SocketStates :
  /\ client.init /\ Connect(rc, next)
  /\ socket' = next
  /\ LET ok == rc \in {"EINPROGRESS", "EISCONN"} IN
       /\ client' = [client EXCEPT !.init = FALSE, !.wait = IF ok THEN @ ELSE "none"]
       /\ told'   = [told EXCEPT !.rc = IF ok THEN "ok" ELSE "error"]
  /\ UNCHANGED conn

(* The kernel makes the connection, or is told that it cannot be made.     *)
Establish == /\ socket = "connecting" /\ socket' = "connected"
             /\ conn' = [conn EXCEPT !.open = TRUE]
             /\ UNCHANGED <<client, told>>
Refuse    == /\ socket = "connecting" /\ socket' = "refused"
             /\ UNCHANGED <<conn, client, told>>

(* The scheduler calls Run.  A socket that was never connected polls as    *)
(* writable.                                                               *)
PollerRuns(peer) ==
  /\ peer = "fetcher" => ~client.init /\ told.fetched = "none"
  /\ \/ client.wait = "readable" /\ Readable("down")
     \/ client.wait = "writable" /\ \/ socket \in {"new", "refused"}
                                    \/ socket = "connected" /\ Writable("up")
  /\ client' = [client EXCEPT !.run = TRUE, !.wait = "none"]
  /\ UNCHANGED <<conn, socket, told>>

RunConnects == \E rc \in ConnectOutcomes, next \in SocketStates :
  /\ In("CONNECTING") /\ Connect(rc, next)
  /\ socket' = next
  /\ IF rc = "EISCONN"
     THEN LET lines == RequestLines(client.request)
              split == Len(lines) - client.request.body
          IN  /\ client' = [client EXCEPT !.state = "SEND_HEADERS",
                              !.headers = First(split, lines), !.body = Rest(split, lines)]
              /\ UNCHANGED <<conn, told>>
     ELSE IF rc = "EINPROGRESS"
     THEN client' = Waits(client, "writable") /\ UNCHANGED <<conn, told>>
     ELSE Forgotten /\ OnDone("error")

(* The headers, and as much of the body as there is room for; then what is *)
(* left of the body.                                                       *)
SendRequest ==
  /\ (In("SEND_HEADERS") \/ (In("SEND_BODY") /\ client.body # <<>>))
  /\ IF conn.reset THEN Fail
     ELSE LET n     == Room("up")
              heads == Rest(n, client.headers)
              body  == Rest(n - Least(n, Len(client.headers)), client.body)
              c     == [client EXCEPT !.headers = heads, !.body = body,
                          !.state = IF heads = <<>> THEN "SEND_BODY" ELSE @]
          IN  /\ conn' = Sent("up", client.headers \o client.body)
              /\ client' = IF heads \o body = <<>> THEN c
                           ELSE Waits(c, "writable")
              /\ UNCHANGED <<socket, told>>

RequestSent ==
  /\ In("SEND_BODY") /\ client.body = <<>>
  /\ client' = [client EXCEPT !.state = "WAITING"]
  /\ UNCHANGED <<conn, socket, told>>

ClientNeedsLine ==
  /\ (In("WAITING") \/ In("RECV_HEADERS"))
  /\ NoLine(client.lines, "down")
  /\ IF Ended("down") THEN Fail
     ELSE client' = Waits(client, "readable") /\ UNCHANGED <<conn, socket, told>>

(* GetResponseLine, whose code nobody looks at, and the headers that say   *)
(* how much there is to read.                                              *)
ReceiveLine ==
  /\ (In("WAITING") \/ In("RECV_HEADERS"))
  /\ ~NoLine(client.lines, "down")
  /\ LET lines == Lines(client.lines, "down")
         line  == Head(lines)
         c     == [client EXCEPT !.lines = Tail(lines)]
     IN  /\ conn' = AfterLines(client.lines, "down")
         /\ client' = CASE line[1] = "status" -> [c EXCEPT !.state = "RECV_HEADERS"]
                        [] line[1] = "length" -> [c EXCEPT !.left = line[2], !.length = TRUE]
                        [] line[1] = "crange" -> [c EXCEPT !.left = line[3] - line[2] + 1,
                                                           !.length = TRUE]
                        [] OTHER -> [c EXCEPT !.state = "RECV_BODY",
                                       !.left = IF c.length THEN @ ELSE Forever]
  /\ UNCHANGED <<socket, told>>

(* One turn of the loop over the answer's body.  When the connection ends, *)
(* so does the body, whatever its length was to be; when reading fails the *)
(* task returns.                                                           *)
ReceiveData ==
  /\ In("RECV_BODY") /\ client.left > 0
  /\ LET lump  == Least(client.left, BodyBuffer)
         left  == ReadLeftovers(lump, client.lines)
         wants == lump - Len(left)
         chunk == left \o First(wants, conn.down.data)
     IN  IF wants > 0 /\ conn.reset THEN Forgotten /\ UNCHANGED <<socket, told>>
         ELSE IF chunk = <<>> /\ ~conn.down.end
         THEN client' = Waits(client, "readable") /\ UNCHANGED <<conn, socket, told>>
         ELSE /\ conn' = Taken("down", wants)
              /\ client' = [client EXCEPT
                   !.lines = Rest(lump, @), !.data = @ \o chunk,
                   !.left = IF Len(chunk) = Len(left) /\ wants > 0 /\ conn.down.end
                            THEN 0 ELSE @ - Len(chunk)]
              /\ UNCHANGED <<socket, told>>

(* SendDone, for the next round of the scheduler, and Close.               *)
Finish ==
  /\ In("RECV_BODY") /\ client.left = 0
  /\ client' = [Waits(client, "none") EXCEPT !.state = "IDLE", !.callback = TRUE]
  /\ conn' = Broken
  /\ UNCHANGED <<socket, told>>

CallbackRuns ==
  /\ client.callback /\ told.fetched = "none"
  /\ client' = [client EXCEPT !.callback = FALSE]
  /\ OnDone("ok")
  /\ UNCHANGED <<conn, socket>>

(* FetchToString returns: what Connect said, if that was an error; or what *)
(* polling said, which is success, once OnDone has come.  The error that   *)
(* OnDone may have brought is looked at only to stop polling.              *)
FetchReturns ==
  /\ told.fetched = "none"
  /\ \/ told.rc = "error" /\ told' = [told EXCEPT !.fetched = "error"]
     \/ told.done # <<>>   /\ told' = [told EXCEPT !.fetched = "ok"]
  /\ UNCHANGED <<conn, client, socket>>

(* Or it gives up after ten seconds, and its scheduler goes.               *)
GiveUp ==
  /\ told.rc = "ok" /\ told.done = <<>> /\ told.fetched = "none" /\ ~client.run
  /\ told' = [told EXCEPT !.fetched = "timeout"]
  /\ client' = [client EXCEPT !.wait = "none", !.callback = FALSE]
  /\ conn' = Broken
  /\ UNCHANGED socket

ClientStep(peer) ==
  \/ BeginConnect \/ NoAddress \/ InitConnects \/ Establish \/ Refuse
  \/ PollerRuns(peer) \/ RunConnects \/ SendRequest \/ RequestSent
  \/ ClientNeedsLine \/ ReceiveLine \/ ReceiveData \/ Finish \/ CallbackRuns
  \/ peer = "fetcher" /\ FetchReturns
=============================================================================
