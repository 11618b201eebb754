----------------------------- MODULE RemotePlayer -----------------------------
(***************************************************************************)
(* A player on another machine: upnpav::URLPlayer (liboutput/upnpav.cpp)   *)
(* over upnp::DeviceClient (libupnp/client.cpp), and the renderer it       *)
(* controls (AvTransport).  Init is a chain of asynchronous calls: fetch   *)
(* the description, subscribe to AVTransport, subscribe to                 *)
(* ConnectionManager, ask for the protocols; then the callback.            *)
(*                                                                         *)
(* A subscription's SID is whatever the server says.  chorale's server     *)
(* says the URL that events are delivered to, and a DeviceClient has one   *)
(* URL for all its services; another vendor's server makes up a new SID    *)
(* each time.  ownSids says which kind of server this renderer has.        *)
(***************************************************************************)
EXTENDS AvTransport

CONSTANTS
  MaxInits,  \* bound: times the player is initialised
  MaxEvents  \* bound: initialisations and commands together

ASSUME RemotePlayerAssumption == MaxInits \in Nat /\ MaxEvents \in Nat

VARIABLES
  ownSids,  \* does the server make a SID of its own for each subscription?
  stage,    \* where the chain of Init is
  served,   \* has the server handled the SUBSCRIBE of this stage?
  sidmap,   \* m_sidmap: the SIDs, each with the service whose client it has
  state,    \* m_state
  url,      \* the URL the observers were told last
  polling,  \* is the timecode task with the poller?
  told,     \* calls of m_callback since the last Init
  inits, sids,   \* counters
  hears,    \* history: a notification was heard by this SID, with this number
  late      \* history: notifications were refused, or heard out of order

clientVars == <<ownSids, stage, served, sidmap, state, url, polling, told, inits, sids, hears, late>>
vars == <<avtVars, clientVars>>

NoSid == 0
Sids == NoSid..(2 * MaxInits)

Init ==
  /\ AvtInit
  /\ ownSids \in BOOLEAN
  /\ stage = "idle" /\ served = NoSid /\ sidmap = [s \in Sids |-> "none"]
  /\ state = Stopped /\ url = NoUrl /\ polling = FALSE
  /\ told = 0 /\ inits = 0 /\ sids = 1
  /\ hears = [state |-> -1, url |-> -1, sid |-> NoSid] /\ late = FALSE

unheard == <<state, url, polling, hears, late>>

-----------------------------------------------------------------------------
(* The chain of Init *)

Calls == {"describing", "AVTransport", "ConnectionManager", "protocol"}

\* How a chain ends badly: Init has returned the error, the callback has told it,
\* an error was returned to nobody, or a call was never answered.
Ended == {"returned", "failed", "stuck", "silent"}

\* URLPlayer::Init, the first time or again: the device was lost and has come
\* back (output_widget.cpp).
\* The connection may fail at once: then Init returns the error, and there is no
\* callback.  Bound: one chain at a time.
StartInit ==
  /\ stage \in {"idle", "ready"} \union Ended /\ inits < MaxInits /\ inits + commands < MaxEvents
  /\ stage' \in {"describing", "returned"} /\ told' = 0 /\ inits' = inits + 1
  /\ UNCHANGED <<avtVars, ownSids, served, sidmap, sids, unheard>>

\* What the chain does when a call is done: the next call, which may fail to
\* start, or the callback.
After(s) == CASE s = "describing" -> "AVTransport"
              [] s = "AVTransport" -> "ConnectionManager"
              [] s = "ConnectionManager" -> "protocol"
              [] s = "protocol" -> "ready"

Fails_Silently == stage' = "failed" /\ UNCHANGED told
Fails == stage' = "failed" /\ told' = told + 1

\* GetProtocolInfo's error, when it cannot be started, goes to nobody.
CannotStart ==
  IF stage = "ConnectionManager" THEN stage' = "stuck" /\ UNCHANGED told
                                 ELSE Fails

Proceeds ==
  \/ /\ stage' = After(stage)
     /\ told' = IF stage = "protocol" THEN told + 1 ELSE told
  \/ stage # "protocol" /\ CannotStart

\* OnDeviceInitialised, and OnGetProtocolInfoDone, with rc = 0.
Answered ==
  /\ stage \in {"describing", "protocol"}
  /\ Proceeds
  /\ UNCHANGED <<avtVars, ownSids, served, sidmap, inits, sids, unheard>>

\* Any of the calls ends in an error, whether or not the server has done its part.
CallFails ==
  /\ stage \in Calls
  /\ Fails /\ served' = NoSid
  /\ UNCHANGED <<avtVars, ownSids, sidmap, inits, sids, unheard>>

\* The connection of a call is lost while its answer's body comes: the client's
\* task ends without OnDone, and so does the chain.
CallIsLost ==
  /\ stage \in Calls
  /\ stage' = "silent" /\ served' = NoSid
  /\ UNCHANGED <<avtVars, ownSids, sidmap, told, inits, sids, unheard>>

\* The server handles the SUBSCRIBE.
NewSid == IF ownSids THEN sids ELSE 1

Subscribed ==
  /\ stage \in {"AVTransport", "ConnectionManager"} /\ served = NoSid
  /\ served' = NewSid /\ sids' = sids + 1
  /\ ServeSubscribe(stage, NewSid)
  /\ UNCHANGED <<player, calls, avt, notes, half, commands, hasty, said, ownSids, stage, sidmap, told, inits, unheard>>

\* AsyncSubscribeHandler::OnDone: only now does the client know the SID.
SubscribeDone ==
  /\ served # NoSid /\ stage \in {"AVTransport", "ConnectionManager"}
  /\ sidmap' = [sidmap EXCEPT ![served] = stage]
  /\ hears' = IF stage = "AVTransport" THEN [state |-> -1, url |-> -1, sid |-> served] ELSE hears
  /\ served' = NoSid
  /\ Proceeds
  /\ UNCHANGED <<avtVars, ownSids, inits, sids, state, url, polling, late>>

-----------------------------------------------------------------------------
(* Events *)

\* DeviceClient::StreamForPath takes a notification only if it knows the SID;
\* the client it belongs to knows LastChange only if it is AVTransport's.
Refused(n) == sidmap[n.sid] = "none"

\* OnTransportState: the timecode task runs while the state is one of playing.
Playing(s) == s # Stopped
Polls(s) == IF Playing(s) /\ ~Playing(state) THEN TRUE
            ELSE IF ~Playing(s) /\ Playing(state) THEN FALSE ELSE polling

Hear(n) ==
  IF n.what = "TransportState"
  THEN state' = n.value /\ polling' = Polls(n.value) /\ UNCHANGED url
  ELSE url' = n.value /\ UNCHANGED <<state, polling>>

Which(n) == IF n.what = "TransportState" THEN "state" ELSE "url"

OutOfOrder(n) == n.sid # hears.sid \/ n.seq < hears[Which(n)]

Receive(n) ==
  /\ n \in notes /\ notes' = notes \ {n}
  /\ IF sidmap[n.sid] = "AVTransport"
     THEN /\ Hear(n)
          /\ hears' = IF OutOfOrder(n) THEN hears ELSE [hears EXCEPT ![Which(n)] = n.seq]
          /\ late' = (late \/ OutOfOrder(n))
     ELSE /\ late' = (late \/ Refused(n))
          /\ UNCHANGED <<state, url, polling, hears>>
  /\ UNCHANGED <<player, calls, avt, subs, half, commands, hasty, said, ownSids, stage, served, sidmap, told, inits, sids>>

\* The device is gone before the note is delivered, or the connection fails.
NoteLost(n) ==
  /\ n \in notes /\ notes' = notes \ {n} /\ late' = TRUE
  /\ UNCHANGED <<player, calls, avt, subs, half, commands, hasty, said, ownSids, stage, served, sidmap, told, inits, sids,
                 state, url, polling, hears>>

\* The other server does not know positions: the task is taken away.
PositionUnknown ==
  /\ polling /\ ownSids /\ polling' = FALSE
  /\ UNCHANGED <<avtVars, ownSids, stage, served, sidmap, told, inits, sids, state, url, hears, late>>

Restart ==
  /\ RendererRestarts /\ inits + commands < MaxEvents
  /\ UNCHANGED clientVars

Next ==
  \/ (Renderer /\ inits + commands' <= MaxEvents /\ UNCHANGED clientVars)
  \/ Restart
  \/ StartInit \/ Answered \/ CallFails \/ CallIsLost \/ Subscribed \/ SubscribeDone
  \/ \E n \in notes : Receive(n) \/ NoteLost(n)
  \/ PositionUnknown

\* Every call comes to an end: the renderer answers it, or its connection fails
\* or is lost.  Not that the end is told.
Fairness ==
  /\ WF_vars(Answered \/ CallFails \/ CallIsLost \/ Subscribed \/ SubscribeDone)

Spec == Init /\ [][Next]_vars /\ Fairness
-----------------------------------------------------------------------------
\* Values the variables can have.
TypeOK ==
  /\ avt.state \in States /\ {avt.url, avt.meta, avt.next} \subseteq Urls \union {NoUrl}
  /\ stage \in {"idle", "ready"} \union Calls \union Ended
  /\ served \in Sids /\ state \in States /\ told \in 0..1
  /\ \A s \in Sids : sidmap[s] \in {"none", "AVTransport", "ConnectionManager"}

\* Init's callback is called once for each chain that Init has begun, with its end
\* or with the first error of the chain, and never when Init has returned the
\* error itself.  Two ends reach nobody: GetProtocolInfo's error when it cannot
\* even be started, and a connection lost in the body of an answer.
InitToldOnce ==
  /\ [](TypeOK /\ told = IF stage \in {"ready", "failed"} THEN 1 ELSE 0)
  /\ (stage = "describing") ~> (told = 1 \/ stage \in {"stuck", "silent"})

Attached == \E i \in DOMAIN subs : subs[i].service = "AVTransport" /\ subs[i].sid = hears.sid

\* When nothing is under way, a player that hears the events of its AVTransport
\* subscription shows the state and the URL the renderer last announced, unless
\* notifications were lost or overtook each other: SEQ is never looked at.
SeesTheRenderer ==
  ownSids /\ ~late /\ notes = {} /\ ~Setting /\ Attached =>
    /\ hears.state >= 0 => state = avt.state
    /\ hears.url >= 0 => url = avt.url
=============================================================================
