----------------------------- MODULE AvTransport -----------------------------
(***************************************************************************)
(* The AVTransport service of a media renderer: libupnpd/avtransport.cpp.  *)
(* Control points send it commands, which it hands to its player           *)
(* (liboutput's GStreamer one); the player calls it back, from a thread of *)
(* its own, some time after it has moved on.  Every change goes to the     *)
(* eventing of libupnp/server.cpp, which sends each subscriber a           *)
(* notification on a connection of its own.                                *)
(*                                                                         *)
(* Nothing is locked from the beginning of a command to its end: callbacks *)
(* of the player, and commands on other threads of the server's pool, come *)
(* between the words that AVTransport notes and the call of the player.    *)
(*                                                                         *)
(* Metadata is the words about a URL: the model uses the URL it was given  *)
(* with.                                                                   *)
(***************************************************************************)
EXTENDS Integers, Sequences, FiniteSets, SequencesExt

CONSTANTS
  Urls, NoUrl,
  States, Stopped,  \* play states
  MaxCommands       \* bound: commands of control points and moves of the player

ASSUME AvTransportAssumption ==
  Stopped \in States /\ NoUrl \notin Urls /\ MaxCommands \in Nat

VARIABLES
  player,    \* external: what the player plays, what comes next, its state
  calls,     \* the player's callbacks that are still to come
  avt,       \* m_state, m_url, m_metadata, m_next_url, m_next_metadata
  subs,      \* m_subscriptions
  notes,     \* notifications under way
  half,      \* commands that are half done: noted, and still to reach the player
  commands,  \* counter of the bound
  hasty,     \* history: a SetAVTransportURI had another, or a callback, between its
             \* steps, or a next URL was replaced while the player took it up
  said       \* history: the URL that was last announced

avtVars == <<player, calls, avt, subs, notes, half, commands, hasty, said>>

AvtInit ==
  /\ player = [url |-> NoUrl, next |-> NoUrl, state |-> Stopped]
  /\ calls = <<>>
  /\ avt = [state |-> Stopped, url |-> NoUrl, meta |-> NoUrl, next |-> NoUrl, nextMeta |-> NoUrl]
  /\ subs = <<>> /\ notes = {} /\ half = {} /\ commands = 0 /\ hasty = FALSE /\ said = NoUrl

-----------------------------------------------------------------------------
\* Server::FireEvent of the LastChange of AVTransport.
FireEvent(what, value) ==
  LET mine == {i \in DOMAIN subs : subs[i].service = "AVTransport"}
  IN /\ notes' = notes \union {[sid |-> subs[i].sid, seq |-> subs[i].key,
                                what |-> what, value |-> value] : i \in mine}
     /\ subs' = [i \in DOMAIN subs |-> IF i \in mine THEN [subs[i] EXCEPT !.key = @ + 1]
                                                      ELSE subs[i]]

Command == commands < MaxCommands /\ commands' = commands + 1

\* The metadata of a URL is at hand only if it is the next one.
MetaOf_Kept(a, u) == a.meta
MetaOf(a, u) == IF u = a.next THEN a.nextMeta ELSE a.meta

OnURL(a, u) ==
  /\ avt' = [a EXCEPT !.url = u, !.meta = MetaOf(a, u)]
  /\ said' = u
  /\ FireEvent("AVTransportURI", u)

\* A command has made its notes; its thread has not called the player yet.
Begins(what, u) ==
  half' = half \union {[id |-> commands, what |-> what, url |-> u, at |-> "player"]}

\* Is a SetAVTransportURI half done?  Has its URL not reached the player yet?
Setting == \E c \in half : c.what = "SetURL"
Unsent(c) == c.what = "SetURL" /\ c.at = "player"

\* SetAVTransportURI notes the URL and its words, and calls the player.
SetAVTransportURI(u) ==
  /\ Command /\ Begins("SetURL", u)
  /\ avt' = [avt EXCEPT !.url = u, !.meta = u]
  /\ hasty' = (hasty \/ Setting)
  /\ UNCHANGED <<player, calls, subs, notes, said>>

\* The player's SetURL: under its lock it takes the URL, and forgets what was to
\* come next.
PlayerSetURL(c) ==
  /\ Unsent(c)
  /\ player' = [player EXCEPT !.url = c.url, !.next = NoUrl]
  /\ half' = (half \ {c}) \union {[c EXCEPT !.at = "callback"]}
  /\ UNCHANGED <<calls, avt, subs, notes, commands, hasty, said>>

\* Without the lock again it calls OnURL, and returns.
PlayerTellsURL(c) ==
  /\ c.what = "SetURL" /\ c.at = "callback"
  /\ half' = half \ {c}
  /\ OnURL(avt, player.url)
  /\ UNCHANGED <<player, calls, commands, hasty>>

\* The player has moved on to the next URL, and has not said so yet.
MovedOn == \E i \in DOMAIN calls : calls[i].call = "OnURL"

SetNextAVTransportURI(u) ==
  /\ Command /\ Begins("SetNextURL", u)
  /\ avt' = [avt EXCEPT !.next = u, !.nextMeta = u]
  /\ hasty' = (hasty \/ (MovedOn /\ u # avt.next))
  /\ UNCHANGED <<player, calls, subs, notes, said>>

PlayerSetNextURL(c) ==
  /\ c.what = "SetNextURL"
  /\ player' = [player EXCEPT !.next = c.url]
  /\ half' = half \ {c}
  /\ UNCHANGED <<calls, avt, subs, notes, commands, hasty, said>>

\* Stop, Play and Pause: if that is a change the player makes it, and will say so.
SetPlayState(s) ==
  /\ Command /\ s # player.state
  /\ player' = [player EXCEPT !.state = s]
  /\ calls' = Append(calls, [call |-> "OnPlayState", arg |-> s])
  /\ UNCHANGED <<avt, subs, notes, half, hasty, said>>

\* The player reaches the end of its URL, and goes on to the next; AVTransport may
\* have noted another one, and not told the player yet.
PlayerMovesOn ==
  /\ Command /\ player.next # NoUrl
  /\ player' = [player EXCEPT !.url = player.next, !.next = NoUrl]
  /\ calls' = Append(calls, [call |-> "OnURL", arg |-> player.next])
  /\ hasty' = (hasty \/ player.next # avt.next)
  /\ UNCHANGED <<avt, subs, notes, half, said>>

OnPlayState_NotKept(s) ==
  /\ UNCHANGED avt
  /\ IF s # avt.state THEN FireEvent("TransportState", s) ELSE UNCHANGED <<subs, notes>>
OnPlayState(s) ==
  /\ avt' = [avt EXCEPT !.state = s]
  /\ IF s # avt.state THEN FireEvent("TransportState", s) ELSE UNCHANGED <<subs, notes>>

\* A callback comes between SetAVTransportURI's notes and the player's SetURL.
Intervenes == \E c \in half : Unsent(c) /\ c.url # player.url

\* A callback comes.  The URL it brings is the one the player has by then.
PlayerCalls ==
  /\ calls # <<>>
  /\ \/ /\ Head(calls).call = "OnURL"
        /\ OnURL(avt, player.url)
        /\ hasty' = (hasty \/ Intervenes)
     \/ /\ Head(calls).call = "OnPlayState"
        /\ OnPlayState(Head(calls).arg)
        /\ UNCHANGED <<hasty, said>>
  /\ calls' = Tail(calls)
  /\ UNCHANGED <<player, half, commands>>

\* The renderer's process ends and is started again.
RendererRestarts ==
  /\ Command
  /\ player' = [url |-> NoUrl, next |-> NoUrl, state |-> Stopped]
  /\ calls' = <<>>
  /\ avt' = [state |-> Stopped, url |-> NoUrl, meta |-> NoUrl, next |-> NoUrl, nextMeta |-> NoUrl]
  /\ subs' = <<>> /\ half' = {} /\ said' = NoUrl
  /\ UNCHANGED <<notes, hasty>>

\* Server::StreamForPath of a SUBSCRIBE: nothing is sent to begin with.
ServeSubscribe(service, sid) == subs' = Append(subs, [service |-> service, sid |-> sid, key |-> 0])

Renderer ==
  \/ \E u \in Urls : SetAVTransportURI(u) \/ SetNextAVTransportURI(u)
  \/ \E c \in half : PlayerSetURL(c) \/ PlayerTellsURL(c) \/ PlayerSetNextURL(c)
  \/ \E s \in States : SetPlayState(s)
  \/ PlayerMovesOn \/ PlayerCalls
-----------------------------------------------------------------------------
\* While no SetAVTransportURI is half done (which assigns the URL, and then the
\* words), the words the renderer gives with its URL are the words of that URL,
\* whatever was played before and whatever the callbacks bring.  There are three
\* exceptions: a callback with another URL came between SetAVTransportURI's notes
\* and the player's SetURL; two SetAVTransportURIs were under way at once; a next
\* URL was replaced while the player was already on its way to the one before,
\* whose words are then gone.
MetadataIsOfUrl == Setting \/ hasty \/ avt.meta = avt.url
=============================================================================
