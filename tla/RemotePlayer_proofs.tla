------------------------- MODULE RemotePlayer_proofs -------------------------
(***************************************************************************)
(* What a renderer says of itself, and what a player on another machine    *)
(* makes of it: for any URLs and states, any number of commands, of calls  *)
(* of Init, and of notifications that overtake each other.                 *)
(***************************************************************************)
EXTENDS RemotePlayer, SequenceTheorems, TLAPS

U      == Urls \cup {NoUrl}
Whats  == {"TransportState", "AVTransportURI"}
Call   == [call : {"OnURL", "OnPlayState"}, arg : U \cup States]
Sub    == [service : {"AVTransport", "ConnectionManager"}, sid : Sids, key : Nat]
Note   == [sid : Sids, seq : Nat, what : Whats, value : U \cup States]
Half   == [id : Nat, what : {"SetURL", "SetNextURL"}, url : U, at : {"player", "callback"}]
Stages == {"idle", "ready"} \union Calls \union Ended

AvtTypes ==
  /\ player \in [url : U, next : U, state : States]
  /\ calls \in Seq(Call)
  /\ \A i \in DOMAIN calls : calls[i].call = "OnPlayState" => calls[i].arg \in States
  /\ avt \in [state : States, url : U, meta : U, next : U, nextMeta : U]
  /\ subs \in Seq(Sub)
  /\ notes \subseteq Note
  /\ \A n \in notes : n.what = "TransportState" => n.value \in States
  /\ half \subseteq Half
  /\ commands \in Nat /\ hasty \in BOOLEAN /\ said \in U

ClientTypes ==
  /\ ownSids \in BOOLEAN /\ polling \in BOOLEAN /\ late \in BOOLEAN
  /\ stage \in Stages /\ served \in Sids
  /\ sidmap \in [Sids -> {"none", "AVTransport", "ConnectionManager"}]
  /\ state \in States
  /\ inits \in 0..MaxInits /\ sids \in Nat \ {0}
  /\ hears \in [state : Int, url : Int, sid : Sids]

(* Init's callback has been called exactly if its chain has ended; the one *)
(* error that nobody hears of leaves it stuck.                             *)
ToldWithTheEnd == told = IF stage \in {"ready", "failed"} THEN 1 ELSE 0

(* Two subscriptions at most for each Init, one after the other.           *)
SidsAreFew ==
  /\ served # NoSid => stage \in {"AVTransport", "ConnectionManager"} /\ served < sids
  /\ stage # "idle" => inits >= 1
  /\ sids <= 2 * inits + 1
  /\ stage = "describing" => sids <= 2 * inits - 1
  /\ stage = "AVTransport" => sids <= IF served = NoSid THEN 2 * inits - 1 ELSE 2 * inits
  /\ stage = "ConnectionManager" /\ served = NoSid => sids <= 2 * inits

(* One SetAVTransportURI at a time is half done.  Until its URL reaches the *)
(* player, AVTransport has it; at all other times what the player plays is  *)
(* known, or on its way there as the next one.                              *)
NextIsKnown ==
  /\ avt.nextMeta = avt.next
  /\ ~hasty =>
       /\ avt.meta = avt.url
       /\ \A c, d \in half : c.what = "SetURL" /\ d.what = "SetURL" => c = d
       /\ \A c \in half : Unsent(c) => avt.url = c.url
       /\ (\A c \in half : ~Unsent(c)) =>
             /\ player.url \in {avt.url, avt.next}
             /\ ~MovedOn => player.url = avt.url

(* What was announced last is the URL, while none is being set.            *)
SaidIsUrl == Setting \/ said = avt.url

(* A server that makes a SID for each subscription makes each one once.    *)
SidsAreFresh ==
  /\ hears.sid < sids
  /\ \A n \in notes : n.sid < sids
  /\ \A i \in DOMAIN subs : subs[i].sid # NoSid /\ subs[i].sid < sids
  /\ \A i, j \in DOMAIN subs : subs[i].sid = subs[j].sid => i = j
  /\ \A s \in Sids : s >= sids => sidmap[s] = "none"
  /\ served # NoSid => hears.sid # served

(* The client has the services of the SIDs right, as far as it has them.   *)
SidsAreRight ==
  \A i \in DOMAIN subs :
    /\ sidmap[subs[i].sid] \in {"none", subs[i].service}
    /\ subs[i].sid = served => subs[i].service = stage

(* Notifications are numbered, and each is heard once.                     *)
Heard(s, w) == IF s # hears.sid THEN -1 ELSE IF w = "TransportState" THEN hears.state ELSE hears.url

NotesAreNumbered ==
  /\ \A n, m \in notes : n.sid = m.sid /\ n.seq = m.seq => n = m
  /\ \A n \in notes : n.seq # Heard(n.sid, n.what)
  /\ \A i \in DOMAIN subs :
       /\ \A n \in notes : n.sid = subs[i].sid => n.seq < subs[i].key
       /\ \A w \in Whats : Heard(subs[i].sid, w) < subs[i].key

(* What the renderer said last, and what the player shows.                 *)
Said(w)  == IF w = "TransportState" THEN avt.state ELSE said
Shown(w) == IF w = "TransportState" THEN state ELSE url

Newest(n) == \A m \in notes : m.sid = n.sid /\ m.what = n.what => m.seq <= n.seq

(* Of the notifications that are still to be heard the newest has what the *)
(* renderer said last; when there is none, the player shows that.          *)
NewestIsTrue ==
  \A n \in notes : \A i \in DOMAIN subs :
    (/\ subs[i].service = "AVTransport" /\ subs[i].sid = n.sid
     /\ n.sid \in {hears.sid, served} /\ n.seq > Heard(n.sid, n.what) /\ Newest(n))
    => n.value = Said(n.what)

AllHeard(w) == \A n \in notes : n.sid = hears.sid /\ n.what = w => n.seq <= Heard(n.sid, w)

LastIsShown ==
  \A w \in Whats : Attached /\ Heard(hears.sid, w) >= 0 /\ AllHeard(w) => Shown(w) = Said(w)

OwnSidsHold ==
  ownSids => /\ SidsAreFresh /\ SidsAreRight /\ NotesAreNumbered
             /\ (~late => NewestIsTrue /\ LastIsShown)

IInv == AvtTypes /\ ClientTypes /\ ToldWithTheEnd /\ SidsAreFew /\ NextIsKnown /\ SaidIsUrl /\ OwnSidsHold
-----------------------------------------------------------------------------
(* A function of the first numbers is a sequence.                          *)
LEMMA AsSeq ==
  ASSUME NEW S, NEW n \in Nat, NEW f \in [1..n -> S]
  PROVE  f \in Seq(S)
  OBVIOUS

(* What an event does to the subscriptions and the notifications.          *)
NoteTo(s, what, value) == [sid |-> s.sid, seq |-> s.key, what |-> what, value |-> value]

LEMMA FireFacts ==
  ASSUME AvtTypes, NEW what \in Whats, NEW value \in U \cup States,
         what = "TransportState" => value \in States, FireEvent(what, value)
  PROVE  /\ subs' \in Seq(Sub) /\ DOMAIN subs' = DOMAIN subs
         /\ \A i \in DOMAIN subs :
              /\ subs'[i].service = subs[i].service /\ subs'[i].sid = subs[i].sid
              /\ subs[i].service = "AVTransport" => subs'[i].key = subs[i].key + 1
              /\ subs[i].service # "AVTransport" => subs'[i].key = subs[i].key
         /\ notes \subseteq notes' /\ notes' \subseteq Note
         /\ \A n \in notes' : n.what = "TransportState" => n.value \in States
         /\ \A n \in notes' : n \in notes \/ \E i \in DOMAIN subs :
              /\ subs[i].service = "AVTransport"
              /\ n.sid = subs[i].sid /\ n.seq = subs[i].key /\ n.what = what /\ n.value = value
         /\ \A i \in DOMAIN subs : subs[i].service = "AVTransport" =>
              \E n \in notes' : n.sid = subs[i].sid /\ n.seq = subs[i].key /\ n.what = what
<1> DEFINE mine == {i \in DOMAIN subs : subs[i].service = "AVTransport"}
<1> DEFINE new == {NoteTo(subs[i], what, value) : i \in mine}
<1>1. /\ notes' = notes \cup new
      /\ subs' = [i \in DOMAIN subs |-> IF i \in mine THEN [subs[i] EXCEPT !.key = @ + 1] ELSE subs[i]]
  BY DEF FireEvent, NoteTo
<1>2. subs \in Seq(Sub) /\ DOMAIN subs = 1..Len(subs) /\ Len(subs) \in Nat
      /\ \A i \in DOMAIN subs : subs[i] \in Sub
  BY DEF AvtTypes
<1>3. ASSUME NEW s \in Sub
      PROVE  /\ [s EXCEPT !.key = @ + 1] \in Sub
             /\ [s EXCEPT !.key = @ + 1].service = s.service
             /\ [s EXCEPT !.key = @ + 1].sid = s.sid
             /\ [s EXCEPT !.key = @ + 1].key = s.key + 1
             /\ NoteTo(s, what, value) \in Note
  BY DEF Sub, Note, NoteTo
<1>4. \A i \in DOMAIN subs :
        /\ i \in mine => subs'[i] = [subs[i] EXCEPT !.key = @ + 1]
        /\ i \notin mine => subs'[i] = subs[i]
  BY <1>1
<1>5. \A i \in DOMAIN subs : subs'[i] \in Sub
  BY <1>2, <1>3, <1>4
<1>6. subs' \in [1..Len(subs) -> Sub]
  BY <1>1, <1>2, <1>5, Zenon
<1>7. subs' \in Seq(Sub)
  <2>1. Len(subs) \in Nat
    BY <1>2
  <2> QED
    BY <1>6, <2>1, AsSeq, Zenon
<1>8. DOMAIN subs' = DOMAIN subs
  BY <1>1
<1>9. \A i \in DOMAIN subs :
        /\ subs'[i].service = subs[i].service /\ subs'[i].sid = subs[i].sid
        /\ subs[i].service = "AVTransport" => subs'[i].key = subs[i].key + 1
        /\ subs[i].service # "AVTransport" => subs'[i].key = subs[i].key
  BY <1>2, <1>3, <1>4
<1>10. notes \subseteq notes' /\ notes' \subseteq Note
  BY <1>1, <1>2, <1>3 DEF AvtTypes
<1>11. ASSUME NEW n \in new
       PROVE  \E i \in DOMAIN subs :
                /\ subs[i].service = "AVTransport"
                /\ n.sid = subs[i].sid /\ n.seq = subs[i].key /\ n.what = what /\ n.value = value
  BY DEF NoteTo
<1>12. \A n \in notes' : n.what = "TransportState" => n.value \in States
  BY <1>1, <1>11 DEF AvtTypes
<1>13. ASSUME NEW i \in DOMAIN subs, subs[i].service = "AVTransport"
       PROVE  \E n \in notes' : n.sid = subs[i].sid /\ n.seq = subs[i].key /\ n.what = what
  <2>1. NoteTo(subs[i], what, value) \in notes'
    BY <1>1, <1>13
  <2> QED
    BY <2>1 DEF NoteTo
<1> QED
  BY <1>1, <1>7, <1>8, <1>9, <1>10, <1>11, <1>12, <1>13

(* A sequence of one more, and of one less.                                *)
LEMMA SeqFacts ==
  ASSUME NEW S, NEW s \in Seq(S), NEW x \in S
  PROVE  /\ Append(s, x) \in Seq(S) /\ DOMAIN Append(s, x) = 1..(Len(s) + 1)
         /\ \A i \in 1..Len(s) : Append(s, x)[i] = s[i]
         /\ Append(s, x)[Len(s) + 1] = x
         /\ DOMAIN s = 1..Len(s) /\ Len(s) \in Nat
         /\ s # <<>> => /\ Tail(s) \in Seq(S) /\ Head(s) = s[1] /\ 1 \in DOMAIN s
                        /\ DOMAIN Tail(s) = 1..(Len(s) - 1)
                        /\ \A i \in 1..(Len(s) - 1) : Tail(s)[i] = s[i + 1] /\ i + 1 \in DOMAIN s
<1>1. DOMAIN s = 1..Len(s) /\ Len(s) \in Nat
  OBVIOUS
<1>2. /\ Append(s, x) \in Seq(S) /\ Len(Append(s, x)) = Len(s) + 1
      /\ \A i \in 1..Len(s) : Append(s, x)[i] = s[i]
      /\ Append(s, x)[Len(s) + 1] = x
  BY AppendProperties
<1>3. DOMAIN Append(s, x) = 1..(Len(s) + 1)
  BY <1>2
<1>4. ASSUME s # <<>>
      PROVE  /\ Tail(s) \in Seq(S) /\ Head(s) = s[1] /\ 1 \in DOMAIN s
             /\ DOMAIN Tail(s) = 1..(Len(s) - 1)
             /\ \A i \in 1..(Len(s) - 1) : Tail(s)[i] = s[i + 1] /\ i + 1 \in DOMAIN s
  <2>1. /\ Tail(s) \in Seq(S) /\ Len(Tail(s)) = Len(s) - 1 /\ Head(s) = s[1]
        /\ \A i \in 1..Len(Tail(s)) : Tail(s)[i] = s[i + 1]
    BY <1>4, HeadTailProperties
  <2>2. Len(s) # 0
    BY <1>4, EmptySeq
  <2> QED
    BY <1>1, <2>1, <2>2
<1> QED
  BY <1>1, <1>2, <1>3, <1>4

-----------------------------------------------------------------------------
(* The service.                                                            *)
LEMMA OnURLTypes ==
  ASSUME AvtTypes, NEW a \in [state : States, url : U, meta : U, next : U, nextMeta : U],
         NEW u \in U, OnURL(a, u)
  PROVE  /\ avt' \in [state : States, url : U, meta : U, next : U, nextMeta : U]
         /\ avt'.state = a.state /\ avt'.url = u /\ avt'.next = a.next /\ avt'.nextMeta = a.nextMeta
         /\ avt'.meta = IF u = a.next THEN a.nextMeta ELSE a.meta
         /\ subs' \in Seq(Sub) /\ notes' \subseteq Note
         /\ \A n \in notes' : n.what = "TransportState" => n.value \in States
         /\ FireEvent("AVTransportURI", u) /\ said' = u
<1>1. FireEvent("AVTransportURI", u) /\ said' = u /\ avt' = [a EXCEPT !.url = u, !.meta = MetaOf(a, u)]
  BY DEF OnURL
<1>2. MetaOf(a, u) \in U
  BY DEF MetaOf
<1>3. /\ avt' \in [state : States, url : U, meta : U, next : U, nextMeta : U]
      /\ avt'.state = a.state /\ avt'.url = u /\ avt'.next = a.next /\ avt'.nextMeta = a.nextMeta
      /\ avt'.meta = IF u = a.next THEN a.nextMeta ELSE a.meta
  BY <1>1, <1>2 DEF MetaOf
<1>4. /\ subs' \in Seq(Sub) /\ notes' \subseteq Note
      /\ \A n \in notes' : n.what = "TransportState" => n.value \in States
  BY <1>1, FireFacts DEF Whats
<1> QED
  BY <1>1, <1>3, <1>4

(* Each step of the service and of its player keeps the types.             *)
LEMMA RendererTypes ==
  ASSUME AvtTypes, Renderer \/ RendererRestarts
  PROVE  AvtTypes'
<1> USE AvTransportAssumption
<1>0. /\ player \in [url : U, next : U, state : States] /\ calls \in Seq(Call)
      /\ avt \in [state : States, url : U, meta : U, next : U, nextMeta : U]
      /\ commands \in Nat /\ hasty \in BOOLEAN /\ said \in U
      /\ half \subseteq Half /\ subs \in Seq(Sub) /\ notes \subseteq Note
      /\ \A n \in notes : n.what = "TransportState" => n.value \in States
      /\ \A i \in DOMAIN calls : calls[i].call = "OnPlayState" => calls[i].arg \in States
  BY DEF AvtTypes
<1>1. ASSUME Command PROVE commands' \in Nat
  BY <1>0, <1>1 DEF Command
<1>1a. ASSUME NEW what \in {"SetURL", "SetNextURL"}, NEW u \in U, Begins(what, u) PROVE half' \subseteq Half
  <2>1. [id |-> commands, what |-> what, url |-> u, at |-> "player"] \in Half
    BY <1>0 DEF Half
  <2> QED
    BY <1>0, <1>1a, <2>1 DEF Begins
<1>2. ASSUME NEW u \in Urls, SetAVTransportURI(u) PROVE AvtTypes'
  <2>1. u \in U /\ avt' \in [state : States, url : U, meta : U, next : U, nextMeta : U]
    BY <1>0, <1>2 DEF U, SetAVTransportURI
  <2>2. half' \subseteq Half /\ commands' \in Nat
    BY <1>1, <1>1a, <1>2, <2>1 DEF SetAVTransportURI
  <2>3. hasty' \in BOOLEAN /\ UNCHANGED <<player, calls, subs, notes, said>>
    BY <1>0, <1>2 DEF SetAVTransportURI
  <2> QED
    BY <1>0, <2>1, <2>2, <2>3 DEF AvtTypes
<1>2a. ASSUME NEW c \in half, PlayerSetURL(c) PROVE AvtTypes'
  <2>1. c \in Half /\ c.url \in U /\ NoUrl \in U
    BY <1>0 DEF Half, U
  <2>2. player' \in [url : U, next : U, state : States]
    BY <1>0, <1>2a, <2>1 DEF PlayerSetURL
  <2>3. [c EXCEPT !.at = "callback"] \in Half
    BY <2>1 DEF Half
  <2>4. half' \subseteq Half /\ UNCHANGED <<calls, avt, subs, notes, commands, hasty, said>>
    BY <1>0, <1>2a, <2>3 DEF PlayerSetURL
  <2> QED
    BY <1>0, <2>2, <2>4 DEF AvtTypes
<1>2b. ASSUME NEW c \in half, PlayerTellsURL(c) PROVE AvtTypes'
  <2>1. OnURL(avt, player.url) /\ half' = half \ {c} /\ UNCHANGED <<player, calls, commands, hasty>>
    BY <1>2b DEF PlayerTellsURL
  <2>2. player.url \in U
    BY <1>0
  <2>3. /\ avt' \in [state : States, url : U, meta : U, next : U, nextMeta : U]
        /\ subs' \in Seq(Sub) /\ notes' \subseteq Note /\ said' = player.url
        /\ \A n \in notes' : n.what = "TransportState" => n.value \in States
    BY <1>0, <2>1, <2>2, OnURLTypes
  <2> QED
    BY <1>0, <2>1, <2>2, <2>3 DEF AvtTypes
<1>2c. ASSUME NEW c \in half, PlayerSetNextURL(c) PROVE AvtTypes'
  <2>1. c \in Half /\ c.url \in U
    BY <1>0 DEF Half
  <2>2. player' \in [url : U, next : U, state : States]
    BY <1>0, <1>2c, <2>1 DEF PlayerSetNextURL
  <2>3. half' \subseteq Half /\ UNCHANGED <<calls, avt, subs, notes, commands, hasty, said>>
    BY <1>0, <1>2c DEF PlayerSetNextURL
  <2> QED
    BY <1>0, <2>2, <2>3 DEF AvtTypes
<1>3. ASSUME NEW u \in Urls, SetNextAVTransportURI(u) PROVE AvtTypes'
  <2>1. u \in U /\ avt' \in [state : States, url : U, meta : U, next : U, nextMeta : U]
    BY <1>0, <1>3 DEF U, SetNextAVTransportURI
  <2>2. half' \subseteq Half /\ commands' \in Nat
    BY <1>1, <1>1a, <1>3, <2>1 DEF SetNextAVTransportURI
  <2>3. hasty' \in BOOLEAN /\ UNCHANGED <<player, calls, subs, notes, said>>
    BY <1>0, <1>3 DEF SetNextAVTransportURI
  <2> QED
    BY <1>0, <2>1, <2>2, <2>3 DEF AvtTypes
<1>4. ASSUME NEW c \in Call, c.call = "OnPlayState" => c.arg \in States, calls' = Append(calls, c)
      PROVE  /\ calls' \in Seq(Call)
             /\ \A i \in DOMAIN calls' : calls'[i].call = "OnPlayState" => calls'[i].arg \in States
  BY <1>0, <1>4, SeqFacts DEF AvtTypes
<1>5. ASSUME NEW s \in States, SetPlayState(s) PROVE AvtTypes'
  <2>1. [call |-> "OnPlayState", arg |-> s] \in Call
    BY DEF Call
  <2>2. /\ calls' \in Seq(Call)
        /\ \A i \in DOMAIN calls' : calls'[i].call = "OnPlayState" => calls'[i].arg \in States
    BY <1>4, <1>5, <2>1 DEF SetPlayState
  <2> QED
    BY <1>0, <1>1, <1>5, <2>2 DEF SetPlayState, AvtTypes
<1>6. ASSUME PlayerMovesOn PROVE AvtTypes'
  <2>1. [call |-> "OnURL", arg |-> player.next] \in Call
    BY <1>0 DEF Call
  <2>2. /\ calls' \in Seq(Call)
        /\ \A i \in DOMAIN calls' : calls'[i].call = "OnPlayState" => calls'[i].arg \in States
    BY <1>4, <1>6, <2>1 DEF PlayerMovesOn
  <2>3. player' \in [url : U, next : U, state : States]
    BY <1>0, <1>6 DEF PlayerMovesOn, U
  <2>4. hasty' \in BOOLEAN
    BY <1>0, <1>6 DEF PlayerMovesOn
  <2> QED
    BY <1>0, <1>1, <1>6, <2>2, <2>3, <2>4 DEF PlayerMovesOn, AvtTypes
<1>7. ASSUME PlayerCalls PROVE AvtTypes'
  <2> DEFINE c == Head(calls)
  <2>1. /\ calls # <<>> /\ calls' = Tail(calls) /\ UNCHANGED <<player, half, commands>>
        /\ hasty' \in BOOLEAN
        /\ \/ c.call = "OnURL" /\ OnURL(avt, player.url)
           \/ c.call = "OnPlayState" /\ OnPlayState(c.arg) /\ UNCHANGED said
    BY <1>0, <1>7 DEF PlayerCalls
  <2>1a. /\ calls' \in Seq(Call) /\ c = calls[1] /\ 1 \in DOMAIN calls
         /\ \A i \in DOMAIN calls' : i + 1 \in DOMAIN calls /\ calls'[i] = calls[i + 1]
    <3>1. PICK x \in Call : x = calls[1]
      BY <1>0, <2>1, EmptySeq, ElementOfSeq, SeqFacts
    <3> QED
      BY <1>0, <2>1, <3>1, SeqFacts
  <2>2. /\ calls' \in Seq(Call) /\ c \in Call
        /\ c.call = "OnPlayState" => c.arg \in States
        /\ \A i \in DOMAIN calls' : calls'[i].call = "OnPlayState" => calls'[i].arg \in States
    BY <1>0, <2>1a DEF AvtTypes
  <2>3. CASE c.call = "OnURL"
    <3>1. /\ avt' \in [state : States, url : U, meta : U, next : U, nextMeta : U]
          /\ subs' \in Seq(Sub) /\ notes' \subseteq Note /\ said' = player.url
          /\ \A n \in notes' : n.what = "TransportState" => n.value \in States
      BY <1>0, <2>1, <2>3, OnURLTypes
    <3> QED
      BY <1>0, <2>1, <2>2, <3>1 DEF AvtTypes
  <2>4. CASE c.call # "OnURL"
    <3>1. c.arg \in States /\ OnPlayState(c.arg) /\ UNCHANGED said
      BY <2>1, <2>2, <2>4
    <3>2. avt' \in [state : States, url : U, meta : U, next : U, nextMeta : U]
      BY <1>0, <3>1 DEF OnPlayState
    <3>3. /\ subs' \in Seq(Sub) /\ notes' \subseteq Note
          /\ \A n \in notes' : n.what = "TransportState" => n.value \in States
      <4>1. CASE FireEvent("TransportState", c.arg)
        BY <3>1, <4>1, FireFacts DEF Whats
      <4>2. CASE UNCHANGED <<subs, notes>>
        BY <4>2 DEF AvtTypes
      <4> QED
        BY <3>1, <4>1, <4>2 DEF OnPlayState
    <3> QED
      BY <1>0, <2>1, <2>2, <3>1, <3>2, <3>3 DEF AvtTypes
  <2> QED
    BY <2>3, <2>4
<1>8. ASSUME RendererRestarts PROVE AvtTypes'
  <2>1. /\ NoUrl \in U /\ Stopped \in States /\ <<>> \in Seq(Call) /\ <<>> \in Seq(Sub)
        /\ \A i \in DOMAIN <<>> : FALSE
    BY DEF U
  <2>2. /\ player' = [url |-> NoUrl, next |-> NoUrl, state |-> Stopped] /\ calls' = <<>> /\ subs' = <<>>
        /\ avt' = [state |-> Stopped, url |-> NoUrl, meta |-> NoUrl, next |-> NoUrl, nextMeta |-> NoUrl]
        /\ commands' \in Nat /\ half' = {} /\ said' = NoUrl /\ UNCHANGED <<notes, hasty>>
    BY <1>1, <1>8 DEF RendererRestarts
  <2> QED
    BY <1>0, <2>1, <2>2 DEF AvtTypes
<1> QED
  BY <1>2, <1>2a, <1>2b, <1>2c, <1>3, <1>5, <1>6, <1>7, <1>8 DEF Renderer

-----------------------------------------------------------------------------
(* The client.  Where the chain of Init goes when a call is done: on to the *)
(* next call, or to its end, which is told.                                *)
LEMMA ProceedsFacts ==
  ASSUME ToldWithTheEnd, stage \in Calls, Proceeds
  PROVE  /\ stage' \in Stages /\ ToldWithTheEnd'
         /\ stage' # "idle" /\ stage' # "describing"
         /\ stage' = "AVTransport" => stage = "describing"
         /\ stage' = "ConnectionManager" => stage = "AVTransport"
BY DEF ToldWithTheEnd, Proceeds, After, CannotStart, Fails, Stages, Calls, Ended

ClientStep ==
  \/ StartInit \/ Answered \/ CallFails \/ CallIsLost \/ Subscribed \/ SubscribeDone
  \/ \E n \in notes : Receive(n) \/ NoteLost(n)
  \/ PositionUnknown

Chained == ToldWithTheEnd /\ SidsAreFew

(* Sids are few: a new one is below the bound.                             *)
LEMMA FewSids ==
  ASSUME ClientTypes, SidsAreFew
  PROVE  /\ Sids \subseteq Nat /\ NoSid \in Sids
         /\ stage \in {"AVTransport", "ConnectionManager"} /\ served = NoSid => sids \in Sids /\ 1 \in Sids
BY RemotePlayerAssumption DEF ClientTypes, SidsAreFew, Sids, NoSid

LEMMA NewSidIsSid ==
  ASSUME ClientTypes, SidsAreFew, stage \in {"AVTransport", "ConnectionManager"}, served = NoSid
  PROVE  /\ NewSid \in Sids /\ NewSid # NoSid /\ NewSid <= sids
         /\ [service |-> stage, sid |-> NewSid, key |-> 0] \in Sub
<1>1. NewSid \in Sids
  BY FewSids DEF NewSid
<1>2. NewSid # NoSid /\ NewSid <= sids
  BY DEF NewSid, NoSid, ClientTypes
<1> QED
  BY <1>1, <1>2 DEF Sub

(* Each step of the client keeps the types, and what is said of the chain. *)
LEMMA ClientSteps ==
  ASSUME AvtTypes, ClientTypes, Chained, ClientStep
  PROVE  AvtTypes' /\ ClientTypes' /\ Chained'
<1> USE DEF Chained
<1>0. MaxInits \in Nat /\ Sids \subseteq Nat /\ NoSid \in Sids
  BY RemotePlayerAssumption, FewSids
<1>1. ASSUME UNCHANGED avtVars PROVE AvtTypes'
  BY <1>1 DEF avtVars, AvtTypes
<1>2. ASSUME NEW n \in notes, notes' = notes \ {n}, UNCHANGED <<player, calls, avt, subs, half, commands, hasty, said>>
      PROVE  AvtTypes'
  BY <1>2 DEF AvtTypes
<1>3. ASSUME StartInit PROVE AvtTypes' /\ ClientTypes' /\ Chained'
  <2>1. ClientTypes'
    BY <1>0, <1>3 DEF StartInit, ClientTypes, Stages, Calls, Ended, unheard
  <2>2. ToldWithTheEnd'
    BY <1>3 DEF StartInit, ToldWithTheEnd
  <2>3. SidsAreFew'
    BY <1>0, <1>3 DEF StartInit, SidsAreFew, ClientTypes, Ended
  <2> QED
    BY <1>1, <1>3, <2>1, <2>2, <2>3 DEF StartInit
<1>4. ASSUME Answered PROVE AvtTypes' /\ ClientTypes' /\ Chained'
  <2>1. /\ stage' \in Stages /\ ToldWithTheEnd'
        /\ stage' # "idle" /\ stage' # "describing"
        /\ stage' = "AVTransport" => stage = "describing"
        /\ stage' = "ConnectionManager" => stage = "AVTransport"
    BY <1>4, ProceedsFacts DEF Answered, Calls
  <2>2. ClientTypes'
    BY <1>4, <2>1 DEF Answered, ClientTypes, unheard
  <2>3. SidsAreFew'
    BY <1>4, <2>1 DEF Answered, SidsAreFew, ClientTypes
  <2> QED
    BY <1>1, <1>4, <2>1, <2>2, <2>3 DEF Answered
<1>5. ASSUME CallFails PROVE AvtTypes' /\ ClientTypes' /\ Chained'
  <2>1. ClientTypes'
    BY <1>0, <1>5 DEF CallFails, Fails, ClientTypes, Stages, Calls, Ended, unheard
  <2>2. ToldWithTheEnd'
    BY <1>5 DEF CallFails, Fails, ToldWithTheEnd, Calls, Ended
  <2>3. SidsAreFew'
    BY <1>0, <1>5 DEF CallFails, Fails, SidsAreFew, ClientTypes, Calls
  <2> QED
    BY <1>1, <1>5, <2>1, <2>2, <2>3 DEF CallFails
<1>5a. ASSUME CallIsLost PROVE AvtTypes' /\ ClientTypes' /\ Chained'
  <2>1. ClientTypes'
    BY <1>0, <1>5a DEF CallIsLost, ClientTypes, Stages, Calls, Ended, unheard
  <2>2. ToldWithTheEnd'
    BY <1>5a DEF CallIsLost, ToldWithTheEnd, Calls
  <2>3. SidsAreFew'
    BY <1>0, <1>5a DEF CallIsLost, SidsAreFew, ClientTypes, Calls
  <2> QED
    BY <1>1, <1>5a, <2>1, <2>2, <2>3 DEF CallIsLost
<1>6. ASSUME Subscribed PROVE AvtTypes' /\ ClientTypes' /\ Chained'
  <2>1. /\ stage \in {"AVTransport", "ConnectionManager"} /\ served = NoSid
        /\ served' = NewSid /\ sids' = sids + 1
        /\ subs' = Append(subs, [service |-> stage, sid |-> NewSid, key |-> 0])
        /\ UNCHANGED <<player, calls, avt, notes, half, commands, hasty, said, ownSids, stage, sidmap, told, inits,
                       state, url, polling, hears, late>>
    BY <1>6 DEF Subscribed, ServeSubscribe, unheard
  <2>2. /\ NewSid \in Sids /\ NewSid # NoSid /\ NewSid <= sids
        /\ [service |-> stage, sid |-> NewSid, key |-> 0] \in Sub
    BY <2>1, NewSidIsSid
  <2>3. AvtTypes'
    <3>1. subs' \in Seq(Sub)
      BY <2>1, <2>2, SeqFacts DEF AvtTypes
    <3> QED
      BY <2>1, <3>1 DEF AvtTypes
  <2>4. ClientTypes'
    BY <2>1, <2>2 DEF ClientTypes
  <2>5. ToldWithTheEnd'
    BY <2>1 DEF ToldWithTheEnd
  <2>6. SidsAreFew'
    BY <1>0, <2>1, <2>2 DEF SidsAreFew, ClientTypes
  <2> QED
    BY <2>3, <2>4, <2>5, <2>6
<1>7. ASSUME SubscribeDone PROVE AvtTypes' /\ ClientTypes' /\ Chained'
  <2>1. /\ stage' \in Stages /\ ToldWithTheEnd'
        /\ stage' # "idle" /\ stage' # "describing"
        /\ stage' = "AVTransport" => stage = "describing"
        /\ stage' = "ConnectionManager" => stage = "AVTransport"
    BY <1>7, ProceedsFacts DEF SubscribeDone, Calls
  <2>2. sidmap' \in [Sids -> {"none", "AVTransport", "ConnectionManager"}]
    BY <1>7 DEF SubscribeDone, ClientTypes
  <2>3. hears' \in [state : Int, url : Int, sid : Sids]
    BY <1>7 DEF SubscribeDone, ClientTypes
  <2>4. ClientTypes'
    BY <1>0, <1>7, <2>1, <2>2, <2>3 DEF SubscribeDone, ClientTypes
  <2>5. SidsAreFew'
    BY <1>0, <1>7, <2>1 DEF SubscribeDone, SidsAreFew, ClientTypes
  <2> QED
    BY <1>1, <1>7, <2>1, <2>4, <2>5 DEF SubscribeDone
<1>8. ASSUME UNCHANGED <<stage, served, told, inits, sids>> PROVE Chained'
  BY <1>8 DEF ToldWithTheEnd, SidsAreFew
<1>9. ASSUME NEW n \in notes, Receive(n) PROVE AvtTypes' /\ ClientTypes' /\ Chained'
  <2>1. AvtTypes' /\ Chained'
    BY <1>2, <1>8, <1>9 DEF Receive
  <2>2. n \in Note /\ (n.what = "TransportState" => n.value \in States)
    BY DEF AvtTypes
  <2>3. hears' \in [state : Int, url : Int, sid : Sids]
    <3>1. CASE UNCHANGED hears
      BY <3>1 DEF ClientTypes
    <3>2. CASE hears' = [hears EXCEPT ![Which(n)] = n.seq]
      BY <2>2, <3>2 DEF ClientTypes, Which, Note
    <3> QED
      BY <1>9, <3>1, <3>2 DEF Receive
  <2>4. state' \in States /\ polling' \in BOOLEAN
    BY <1>9, <2>2 DEF Receive, Hear, Polls, ClientTypes
  <2>5. late' \in BOOLEAN
    BY <1>9 DEF Receive, Refused, OutOfOrder, ClientTypes
  <2> QED
    BY <1>9, <2>1, <2>3, <2>4, <2>5 DEF Receive, ClientTypes
<1>10. ASSUME NEW n \in notes, NoteLost(n) PROVE AvtTypes' /\ ClientTypes' /\ Chained'
  BY <1>2, <1>8, <1>10 DEF NoteLost, ClientTypes
<1>11. ASSUME PositionUnknown PROVE AvtTypes' /\ ClientTypes' /\ Chained'
  BY <1>1, <1>8, <1>11 DEF PositionUnknown, ClientTypes
<1> QED
  BY <1>3, <1>4, <1>5, <1>5a, <1>6, <1>7, <1>9, <1>10, <1>11 DEF ClientStep

-----------------------------------------------------------------------------
(* The words of the renderer's URL.                                        *)
LEMMA RendererNext ==
  ASSUME AvtTypes, NextIsKnown, Renderer \/ RendererRestarts
  PROVE  NextIsKnown'
<1> USE AvTransportAssumption
<1> DEFINE Sent == \A c \in half : ~Unsent(c)
<1> DEFINE OneIsSet == \A c, d \in half : c.what = "SetURL" /\ d.what = "SetURL" => c = d
<1> DEFINE UnsentIsUrl == \A c \in half : Unsent(c) => avt.url = c.url
<1> DEFINE Plays == player.url \in {avt.url, avt.next} /\ (~MovedOn => player.url = avt.url)
<1>0. /\ player \in [url : U, next : U, state : States] /\ calls \in Seq(Call)
      /\ avt \in [state : States, url : U, meta : U, next : U, nextMeta : U] /\ hasty \in BOOLEAN
      /\ half \subseteq Half
  BY DEF AvtTypes
<1>0a. avt.nextMeta = avt.next /\ (~hasty => avt.meta = avt.url /\ OneIsSet /\ UnsentIsUrl /\ (Sent => Plays))
  BY DEF NextIsKnown
<1>0b. ASSUME avt'.nextMeta = avt'.next,
              ~hasty' => avt'.meta = avt'.url /\ OneIsSet' /\ UnsentIsUrl' /\ (Sent' => Plays')
       PROVE  NextIsKnown'
  BY <1>0b DEF NextIsKnown
<1> HIDE DEF Sent, OneIsSet, UnsentIsUrl, Plays
<1>1. ASSUME UNCHANGED calls PROVE MovedOn' <=> MovedOn
  BY <1>1 DEF MovedOn
<1>1a. ASSUME NEW c, c \in half, half' = half \ {c} PROVE OneIsSet => OneIsSet'
  BY <1>1a DEF OneIsSet
<1>1b. ASSUME UNCHANGED half PROVE (Sent' <=> Sent) /\ (OneIsSet' <=> OneIsSet)
  BY <1>1b DEF Sent, OneIsSet, Unsent
<1>2. ASSUME NEW u \in Urls, SetAVTransportURI(u) PROVE NextIsKnown'
  <2> DEFINE new == [id |-> commands, what |-> "SetURL", url |-> u, at |-> "player"]
  <2>1. /\ half' = half \union {new} /\ hasty' = (hasty \/ Setting)
        /\ avt' = [avt EXCEPT !.url = u, !.meta = u]
    BY <1>2 DEF SetAVTransportURI, Begins
  <2>2. avt'.url = u /\ avt'.meta = u /\ avt'.next = avt.next /\ avt'.nextMeta = avt.nextMeta
    BY <1>0, <2>1
  <2>3. ASSUME ~hasty' PROVE OneIsSet' /\ UnsentIsUrl' /\ ~Sent'
    <3>1. \A c \in half : c.what # "SetURL"
      BY <2>1, <2>3 DEF Setting
    <3>2. OneIsSet'
      BY <2>1, <3>1 DEF OneIsSet
    <3>3. new \in half' /\ new.what = "SetURL" /\ new.at = "player" /\ new.url = u
      BY <2>1
    <3>4. UnsentIsUrl'
      <4>1. ASSUME NEW d \in half', d.what = "SetURL" PROVE d.url = u
        BY <2>1, <3>1, <3>3, <4>1
      <4> QED
        BY <2>2, <4>1 DEF UnsentIsUrl, Unsent
    <3>5. ~Sent'
      BY <3>3 DEF Sent, Unsent
    <3> QED
      BY <3>2, <3>4, <3>5
  <2> QED
    BY <1>0a, <1>0b, <2>2, <2>3
<1>2a. ASSUME NEW c \in half, PlayerSetURL(c) PROVE NextIsKnown'
  <2> DEFINE new == [c EXCEPT !.at = "callback"]
  <2>1. /\ Unsent(c) /\ player' = [player EXCEPT !.url = c.url, !.next = NoUrl]
        /\ half' = (half \ {c}) \union {new} /\ UNCHANGED <<calls, avt, hasty>>
    BY <1>2a DEF PlayerSetURL
  <2>2. player'.url = c.url /\ new.what = c.what /\ ~Unsent(new) /\ c.what = "SetURL"
    BY <1>0, <2>1 DEF Unsent, Half
  <2>3. ASSUME ~hasty' PROVE OneIsSet' /\ UnsentIsUrl' /\ Plays'
    <3>1. OneIsSet /\ UnsentIsUrl
      BY <1>0a, <2>1, <2>3
    <3>2. \A d \in half : d.what = "SetURL" => d = c
      BY <2>2, <3>1 DEF OneIsSet
    <3>3. OneIsSet'
      BY <2>1, <2>2, <3>2 DEF OneIsSet
    <3>4. UnsentIsUrl'
      BY <2>1, <2>2, <3>1 DEF UnsentIsUrl, Unsent
    <3>5. avt.url = c.url
      BY <2>1, <3>1 DEF UnsentIsUrl
    <3> QED
      BY <2>1, <2>2, <3>3, <3>4, <3>5 DEF Plays
  <2> QED
    BY <1>0a, <1>0b, <2>1, <2>3
<1>2b. ASSUME NEW c \in half, PlayerTellsURL(c) PROVE NextIsKnown'
  <2>1. /\ c.what = "SetURL" /\ c.at = "callback" /\ half' = half \ {c} /\ UNCHANGED <<player, calls, hasty>>
        /\ avt'.url = player.url /\ avt'.next = avt.next /\ avt'.nextMeta = avt.nextMeta
        /\ avt'.meta = IF player.url = avt.next THEN avt.nextMeta ELSE avt.meta
    BY <1>0, <1>2b, OnURLTypes DEF PlayerTellsURL
  <2>2. ASSUME ~hasty' PROVE avt'.meta = avt'.url /\ OneIsSet' /\ UnsentIsUrl' /\ Plays'
    <3>1. OneIsSet /\ (Sent => Plays) /\ avt.meta = avt.url
      BY <1>0a, <2>1, <2>2
    <3>2. Sent /\ \A d \in half' : ~Unsent(d)
      BY <2>1, <3>1 DEF Sent, OneIsSet, Unsent
    <3>3. avt'.meta = avt'.url
      BY <1>0a, <2>1, <3>1, <3>2 DEF Plays
    <3>4. OneIsSet' /\ UnsentIsUrl'
      BY <1>1a, <2>1, <3>1, <3>2 DEF UnsentIsUrl
    <3>5. Plays'
      BY <2>1 DEF Plays
    <3> QED
      BY <3>3, <3>4, <3>5
  <2> QED
    BY <1>0a, <1>0b, <2>1, <2>2
<1>2c. ASSUME NEW c \in half, PlayerSetNextURL(c) PROVE NextIsKnown'
  <2>1. /\ c.what = "SetNextURL" /\ half' = half \ {c} /\ player' = [player EXCEPT !.next = c.url]
        /\ UNCHANGED <<calls, avt, hasty>>
    BY <1>2c DEF PlayerSetNextURL
  <2>2. player'.url = player.url /\ ~Unsent(c)
    BY <1>0, <2>1 DEF Unsent
  <2>3. OneIsSet => OneIsSet'
    BY <1>1a, <2>1
  <2>4. (UnsentIsUrl => UnsentIsUrl') /\ (Sent' => Sent)
    BY <2>1, <2>2 DEF UnsentIsUrl, Sent, Unsent
  <2>5. Plays => Plays'
    BY <1>1, <2>1, <2>2 DEF Plays
  <2> QED
    BY <1>0a, <1>0b, <2>1, <2>3, <2>4, <2>5
<1>3. ASSUME NEW u \in Urls, SetNextAVTransportURI(u) PROVE NextIsKnown'
  <2> DEFINE new == [id |-> commands, what |-> "SetNextURL", url |-> u, at |-> "player"]
  <2>1. /\ avt' = [avt EXCEPT !.next = u, !.nextMeta = u] /\ half' = half \union {new}
        /\ hasty' = (hasty \/ (MovedOn /\ u # avt.next)) /\ UNCHANGED <<player, calls>>
    BY <1>3 DEF SetNextAVTransportURI, Begins
  <2>2. /\ avt'.url = avt.url /\ avt'.meta = avt.meta /\ avt'.next = u /\ avt'.nextMeta = u
        /\ ~Unsent(new) /\ new.what # "SetURL"
    BY <1>0, <2>1 DEF Unsent
  <2>3. MovedOn' <=> MovedOn
    BY <1>1, <2>1
  <2>4. ~hasty' => ~hasty /\ (MovedOn => u = avt.next)
    BY <2>1
  <2>5. OneIsSet => OneIsSet'
    BY <2>1, <2>2 DEF OneIsSet
  <2>6. (UnsentIsUrl => UnsentIsUrl') /\ (Sent' => Sent)
    BY <2>1, <2>2 DEF UnsentIsUrl, Sent, Unsent
  <2>7. ~hasty' => (Plays => Plays')
    BY <2>1, <2>2, <2>3, <2>4 DEF Plays
  <2> QED
    BY <1>0a, <1>0b, <2>2, <2>4, <2>5, <2>6, <2>7
<1>4. ASSUME NEW c \in Call, calls' = Append(calls, c)
      PROVE  MovedOn' <=> MovedOn \/ c.call = "OnURL"
  <2>1. /\ DOMAIN calls = 1..Len(calls) /\ Len(calls) \in Nat /\ DOMAIN calls' = 1..(Len(calls) + 1)
        /\ \A i \in 1..Len(calls) : calls'[i] = calls[i]
        /\ calls'[Len(calls) + 1] = c
    BY <1>0, <1>4, SeqFacts
  <2>2. 1..Len(calls) \subseteq 1..(Len(calls) + 1) /\ Len(calls) + 1 \in 1..(Len(calls) + 1)
        /\ \A i \in 1..(Len(calls) + 1) : i = Len(calls) + 1 \/ i \in 1..Len(calls)
    BY <2>1
  <2> QED
    BY <2>1, <2>2, Zenon DEF MovedOn
<1>4a. ASSUME UNCHANGED half, avt'.url = avt.url PROVE UnsentIsUrl => UnsentIsUrl'
  BY <1>4a DEF UnsentIsUrl, Unsent
<1>5. ASSUME NEW s \in States, SetPlayState(s) PROVE NextIsKnown'
  <2>1. [call |-> "OnPlayState", arg |-> s] \in Call
    BY DEF Call
  <2>2. MovedOn' <=> MovedOn
    BY <1>4, <1>5, <2>1 DEF SetPlayState
  <2>3. player'.url = player.url /\ UNCHANGED <<avt, half, hasty>>
    BY <1>0, <1>5 DEF SetPlayState
  <2>4. Plays => Plays'
    BY <2>2, <2>3 DEF Plays
  <2> QED
    BY <1>0a, <1>0b, <1>1b, <1>4a, <2>3, <2>4
<1>6. ASSUME PlayerMovesOn PROVE NextIsKnown'
  <2>1. [call |-> "OnURL", arg |-> player.next] \in Call
    BY <1>0 DEF Call
  <2>2. MovedOn'
    BY <1>4, <1>6, <2>1 DEF PlayerMovesOn
  <2>3. /\ player'.url = player.next /\ hasty' = (hasty \/ player.next # avt.next)
        /\ UNCHANGED <<avt, half>>
    BY <1>0, <1>6 DEF PlayerMovesOn
  <2>4. ~hasty' => ~hasty /\ Plays'
    BY <2>2, <2>3 DEF Plays
  <2> QED
    BY <1>0a, <1>0b, <1>1b, <1>4a, <2>3, <2>4
<1>7. ASSUME PlayerCalls PROVE NextIsKnown'
  <2> DEFINE c == Head(calls)
  <2>1. /\ calls # <<>> /\ calls' = Tail(calls) /\ UNCHANGED <<player, half>>
        /\ \/ c.call = "OnURL" /\ OnURL(avt, player.url) /\ hasty' = (hasty \/ Intervenes)
           \/ c.call = "OnPlayState" /\ OnPlayState(c.arg) /\ UNCHANGED hasty
    BY <1>7 DEF PlayerCalls
  <2>2. CASE c.call = "OnURL"
    <3>1. /\ avt'.url = player.url /\ avt'.next = avt.next /\ avt'.nextMeta = avt.nextMeta
          /\ avt'.meta = IF player.url = avt.next THEN avt.nextMeta ELSE avt.meta
          /\ hasty' = (hasty \/ Intervenes)
      BY <1>0, <2>1, <2>2, OnURLTypes
    <3>2. ASSUME ~hasty' PROVE avt'.meta = avt'.url /\ UnsentIsUrl' /\ Plays'
      <4>1. /\ ~hasty /\ UnsentIsUrl /\ (Sent => Plays) /\ avt.meta = avt.url
            /\ \A d \in half : Unsent(d) => d.url = player.url
        BY <1>0a, <3>1, <3>2 DEF Intervenes
      <4>2. player.url \in {avt.url, avt.next}
        BY <4>1 DEF Sent, UnsentIsUrl, Plays
      <4>3. UnsentIsUrl'
        BY <2>1, <3>1, <4>1 DEF UnsentIsUrl, Unsent
      <4> QED
        BY <1>0a, <2>1, <3>1, <4>1, <4>2, <4>3 DEF Plays
    <3>3. hasty \in BOOLEAN /\ (~hasty' => ~hasty)
      BY <1>0, <3>1
    <3> QED
      BY <1>0a, <1>0b, <1>1b, <2>1, <3>1, <3>2, <3>3
  <2>3. CASE c.call # "OnURL"
    <3>1. PICK x \in Call : TRUE
      BY <1>0, <2>1, EmptySeq, ElementOfSeq
    <3>2. /\ c = calls[1] /\ 1 \in DOMAIN calls /\ DOMAIN calls = 1..Len(calls) /\ Len(calls) \in Nat
          /\ DOMAIN calls' = 1..(Len(calls) - 1)
          /\ \A i \in 1..(Len(calls) - 1) : calls'[i] = calls[i + 1] /\ i + 1 \in DOMAIN calls
      BY <1>0, <2>1, <3>1, SeqFacts
    <3>3. \A i \in 1..Len(calls) : i = 1 \/ (i - 1 \in 1..(Len(calls) - 1) /\ (i - 1) + 1 = i)
      BY <3>2
    <3>4. MovedOn => MovedOn'
      <4>1. SUFFICES ASSUME NEW i \in DOMAIN calls, calls[i].call = "OnURL"
                     PROVE  \E j \in DOMAIN calls' : calls'[j].call = "OnURL"
        BY DEF MovedOn
      <4>2. i # 1 /\ i - 1 \in DOMAIN calls'
        BY <2>3, <3>2, <3>3, <4>1
      <4>3. calls'[i - 1] = calls[i]
        BY <3>2, <3>3, <4>2
      <4> QED
        BY <4>1, <4>2, <4>3
    <3>5. /\ avt'.url = avt.url /\ avt'.meta = avt.meta /\ avt'.next = avt.next
          /\ avt'.nextMeta = avt.nextMeta
      BY <1>0, <2>1, <2>3 DEF OnPlayState
    <3>6. Plays => Plays'
      BY <2>1, <3>4, <3>5 DEF Plays
    <3> QED
      BY <1>0a, <1>0b, <1>1b, <1>4a, <2>1, <2>3, <3>5, <3>6
  <2> QED
    BY <2>2, <2>3
<1>8. ASSUME RendererRestarts PROVE NextIsKnown'
  <2>1. /\ player'.url = NoUrl /\ half' = {}
        /\ avt'.url = NoUrl /\ avt'.meta = NoUrl /\ avt'.next = NoUrl /\ avt'.nextMeta = NoUrl
    BY <1>8 DEF RendererRestarts
  <2> QED
    BY <1>0b, <2>1 DEF OneIsSet, UnsentIsUrl, Plays
<1> QED
  BY <1>2, <1>2a, <1>2b, <1>2c, <1>3, <1>5, <1>6, <1>7, <1>8 DEF Renderer

(* While no URL is being set, the one announced last is the URL.           *)
LEMMA RendererSays ==
  ASSUME AvtTypes, SaidIsUrl, Renderer \/ RendererRestarts
  PROVE  SaidIsUrl'
<1>0. /\ avt \in [state : States, url : U, meta : U, next : U, nextMeta : U]
      /\ player \in [url : U, next : U, state : States] /\ half \subseteq Half
  BY DEF AvtTypes
<1>1. ASSUME avt'.url = avt.url, said' = said, \A c \in half : c.what = "SetURL" => c \in half'
      PROVE  SaidIsUrl'
  BY <1>1 DEF SaidIsUrl, Setting
<1>2. ASSUME NEW u \in U, OnURL(avt, u) PROVE SaidIsUrl'
  BY <1>0, <1>2 DEF OnURL, SaidIsUrl
<1>3. ASSUME NEW u \in Urls, SetAVTransportURI(u) PROVE SaidIsUrl'
  <2>1. [id |-> commands, what |-> "SetURL", url |-> u, at |-> "player"] \in half'
    BY <1>3 DEF SetAVTransportURI, Begins
  <2> QED
    BY <2>1 DEF SaidIsUrl, Setting
<1>4. ASSUME NEW c \in half, PlayerSetURL(c) PROVE SaidIsUrl'
  <2>1. [c EXCEPT !.at = "callback"] \in half' /\ [c EXCEPT !.at = "callback"].what = "SetURL"
    BY <1>0, <1>4 DEF PlayerSetURL, Unsent, Half
  <2> QED
    BY <2>1 DEF SaidIsUrl, Setting
<1>5. ASSUME NEW c \in half, PlayerTellsURL(c) PROVE SaidIsUrl'
  BY <1>0, <1>2, <1>5 DEF PlayerTellsURL
<1>6. ASSUME NEW c \in half, PlayerSetNextURL(c) PROVE SaidIsUrl'
  BY <1>1, <1>6 DEF PlayerSetNextURL
<1>7. ASSUME NEW u \in Urls, SetNextAVTransportURI(u) PROVE SaidIsUrl'
  BY <1>0, <1>1, <1>7 DEF SetNextAVTransportURI, Begins
<1>8. ASSUME NEW s \in States, SetPlayState(s) PROVE SaidIsUrl'
  BY <1>1, <1>8 DEF SetPlayState
<1>9. ASSUME PlayerMovesOn PROVE SaidIsUrl'
  BY <1>1, <1>9 DEF PlayerMovesOn
<1>10. ASSUME PlayerCalls PROVE SaidIsUrl'
  <2>1. CASE OnURL(avt, player.url)
    BY <1>0, <1>2, <2>1
  <2>2. CASE OnPlayState(Head(calls).arg) /\ UNCHANGED <<half, said>>
    <3>1. avt'.url = avt.url
      BY <1>0, <2>2 DEF OnPlayState
    <3> QED
      BY <1>1, <2>2, <3>1
  <2> QED
    BY <1>10, <2>1, <2>2 DEF PlayerCalls
<1>11. ASSUME RendererRestarts PROVE SaidIsUrl'
  BY <1>11 DEF RendererRestarts, SaidIsUrl
<1> QED
  BY <1>3, <1>4, <1>5, <1>6, <1>7, <1>8, <1>9, <1>10, <1>11 DEF Renderer

-----------------------------------------------------------------------------
(* The numbers of the notifications, and what the player shows.            *)
Types == AvtTypes /\ ClientTypes /\ Chained

LEMMA Kinds ==
  ASSUME Types
  PROVE  /\ \A n \in notes : n.sid \in Sids /\ n.seq \in Nat /\ n.what \in Whats
         /\ \A i \in DOMAIN subs : subs[i].sid \in Sids /\ subs[i].key \in Nat
         /\ \A s \in Sids, w \in Whats : Heard(s, w) \in Int
         /\ Sids \subseteq Nat /\ hears.sid \in Sids /\ sids \in Nat /\ served \in Sids
         /\ hears.state \in Int /\ hears.url \in Int
<1>1. \A n \in notes : n.sid \in Sids /\ n.seq \in Nat /\ n.what \in Whats
  BY DEF Types, AvtTypes, Note
<1>2. \A i \in DOMAIN subs : subs[i] \in Sub
  BY DEF Types, AvtTypes
<1>3. \A i \in DOMAIN subs : subs[i].sid \in Sids /\ subs[i].key \in Nat
  BY <1>2 DEF Sub
<1>4. Sids \subseteq Nat /\ hears.sid \in Sids /\ sids \in Nat /\ served \in Sids
      /\ hears.state \in Int /\ hears.url \in Int
  BY FewSids DEF Types, Chained, ClientTypes
<1>5. \A s \in Sids, w \in Whats : Heard(s, w) \in Int
  BY <1>4 DEF Heard
<1> QED
  BY <1>1, <1>3, <1>4, <1>5

(* A step that sends nothing, hears nothing and changes nothing of what is *)
(* said or shown; a call may end.                                          *)
LEMMA Quiet ==
  ASSUME Types, OwnSidsHold, ownSids,
         UNCHANGED <<ownSids, subs, notes, hears, sidmap, sids, state, url, late>>,
         \A w \in Whats : Said(w)' = Said(w),
         served' \in {served, NoSid}, served' # NoSid => stage' = stage
  PROVE  OwnSidsHold'
<1>1. /\ \A s, w : Heard(s, w)' = Heard(s, w)
      /\ \A n : Newest(n)' <=> Newest(n)
      /\ \A w \in Whats : (AllHeard(w)' <=> AllHeard(w)) /\ Shown(w)' = Shown(w)
      /\ Attached' <=> Attached
  BY DEF Heard, Newest, AllHeard, Shown, Attached
<1>2. SidsAreFresh'
  BY DEF OwnSidsHold, SidsAreFresh
<1>3. SidsAreRight'
  BY DEF OwnSidsHold, SidsAreRight, SidsAreFresh
<1>4. NotesAreNumbered'
  BY <1>1 DEF OwnSidsHold, NotesAreNumbered
<1>5. ASSUME ~late' PROVE NewestIsTrue' /\ LastIsShown'
  <2>1. NewestIsTrue /\ LastIsShown
    BY <1>5 DEF OwnSidsHold
  <2>2. \A n \in notes : n.what \in Whats
    BY Kinds
  <2>3. \A i \in DOMAIN subs : subs[i].sid # NoSid
    BY DEF OwnSidsHold, SidsAreFresh
  <2>4. NewestIsTrue'
    BY <1>1, <2>1, <2>2, <2>3 DEF NewestIsTrue
  <2>5. LastIsShown'
    <3>1. Heard(hears.sid, "TransportState")' = Heard(hears.sid, "TransportState")
          /\ Heard(hears.sid, "AVTransportURI")' = Heard(hears.sid, "AVTransportURI")
      BY DEF Heard
    <3> QED
      BY <1>1, <2>1, <3>1 DEF LastIsShown, Whats
  <2> QED
    BY <2>4, <2>5
<1> QED
  BY <1>2, <1>3, <1>4, <1>5 DEF OwnSidsHold

(* An event: the notification of it is the newest of every subscriber.     *)
LEMMA Fires ==
  ASSUME Types, OwnSidsHold, ownSids, NEW what \in Whats, NEW value \in U \cup States,
         what = "TransportState" => value \in States, FireEvent(what, value),
         Said(what)' = value, \A w \in Whats \ {what} : Said(w)' = Said(w),
         UNCHANGED <<ownSids, served, stage, sidmap, sids, hears, state, url, late>>
  PROVE  OwnSidsHold'
<1>1. /\ DOMAIN subs' = DOMAIN subs
      /\ \A i \in DOMAIN subs :
           /\ subs'[i].service = subs[i].service /\ subs'[i].sid = subs[i].sid
           /\ subs[i].service = "AVTransport" => subs'[i].key = subs[i].key + 1
           /\ subs[i].service # "AVTransport" => subs'[i].key = subs[i].key
      /\ notes \subseteq notes' /\ notes' \subseteq Note
  BY FireFacts DEF Types
<1>2. \A n \in notes' : n \in notes \/ \E i \in DOMAIN subs :
          /\ subs[i].service = "AVTransport"
          /\ n.sid = subs[i].sid /\ n.seq = subs[i].key /\ n.what = what /\ n.value = value
  BY FireFacts DEF Types
<1>3. \A i \in DOMAIN subs : subs[i].service = "AVTransport" =>
          \E n \in notes' : n.sid = subs[i].sid /\ n.seq = subs[i].key /\ n.what = what
  BY FireFacts DEF Types
<1>4. SidsAreFresh /\ SidsAreRight /\ NotesAreNumbered
  BY DEF OwnSidsHold
<1>5. /\ \A n \in notes : n.sid \in Sids /\ n.seq \in Nat /\ n.what \in Whats
      /\ \A i \in DOMAIN subs : subs[i].sid \in Sids /\ subs[i].key \in Nat
      /\ \A s \in Sids, w \in Whats : Heard(s, w) \in Int
      /\ Sids \subseteq Nat /\ hears.sid \in Sids
  BY Kinds
<1>6. \A s \in Sids, w \in Whats : Heard(s, w)' = Heard(s, w)
  BY DEF Heard
<1>7. SidsAreFresh'
  BY <1>1, <1>2, <1>4 DEF SidsAreFresh
<1>8. SidsAreRight'
  BY <1>1, <1>4 DEF SidsAreRight
<1>9. NotesAreNumbered'
  <2>1. \A n \in notes, i \in DOMAIN subs : n.sid = subs[i].sid => n.seq < subs[i].key
    BY <1>4 DEF NotesAreNumbered
  <2>2. ASSUME NEW n \in notes', NEW m \in notes', n.sid = m.sid, n.seq = m.seq
        PROVE  n = m
    <3>1. CASE n \in notes /\ m \in notes
      BY <1>4, <2>2, <3>1 DEF NotesAreNumbered
    <3>2. CASE n \in notes /\ m \notin notes
      <4>1. PICK i \in DOMAIN subs : m.sid = subs[i].sid /\ m.seq = subs[i].key
        BY <1>2, <3>2
      <4> QED
        BY <1>5, <2>1, <2>2, <3>2, <4>1
    <3>3. CASE n \notin notes /\ m \in notes
      <4>1. PICK i \in DOMAIN subs : n.sid = subs[i].sid /\ n.seq = subs[i].key
        BY <1>2, <3>3
      <4>2. m.seq < subs[i].key
        BY <2>1, <2>2, <3>3, <4>1
      <4>3. subs[i].key \in Nat
        BY <1>5
      <4> QED
        BY <2>2, <4>1, <4>2, <4>3
    <3>4. CASE n \notin notes /\ m \notin notes
      <4>1. n.what = m.what /\ n.value = m.value
        BY <1>2, <3>4
      <4>2. n \in Note /\ m \in Note
        BY <1>1
      <4> QED
        BY <2>2, <4>1, <4>2 DEF Note
    <3> QED
      BY <3>1, <3>2, <3>3, <3>4
  <2>3. ASSUME NEW n \in notes' PROVE n.seq # Heard(n.sid, n.what)
    <3>1. CASE n \in notes
      BY <1>4, <3>1 DEF NotesAreNumbered
    <3>2. CASE n \notin notes
      <4>1. PICK i \in DOMAIN subs : n.sid = subs[i].sid /\ n.seq = subs[i].key /\ n.what = what
        BY <1>2, <3>2
      <4>2. Heard(subs[i].sid, what) < subs[i].key
        BY <1>4 DEF NotesAreNumbered
      <4> QED
        BY <1>5, <4>1, <4>2
    <3> QED
      BY <3>1, <3>2
  <2>4. ASSUME NEW n \in notes', NEW i \in DOMAIN subs, n.sid = subs[i].sid
        PROVE  n.seq < subs'[i].key
    <3>1. CASE n \in notes
      BY <1>1, <1>5, <2>1, <2>4, <3>1
    <3>2. CASE n \notin notes
      <4>1. PICK j \in DOMAIN subs : n.sid = subs[j].sid /\ n.seq = subs[j].key
                                     /\ subs[j].service = "AVTransport"
        BY <1>2, <3>2
      <4>2. i = j
        BY <1>4, <2>4, <4>1 DEF SidsAreFresh
      <4> QED
        BY <1>1, <1>5, <4>1, <4>2
    <3> QED
      BY <3>1, <3>2
  <2>5. ASSUME NEW i \in DOMAIN subs, NEW w \in Whats
        PROVE  Heard(subs[i].sid, w) < subs'[i].key
    <3>1. Heard(subs[i].sid, w) < subs[i].key
      BY <1>4 DEF NotesAreNumbered
    <3>2. subs[i].key \in Nat /\ Heard(subs[i].sid, w) \in Int
      BY <1>5
    <3>3. subs'[i].key \in {subs[i].key, subs[i].key + 1}
      BY <1>1
    <3> QED
      BY <3>1, <3>2, <3>3
  <2>6. \A n \in notes' : n.sid \in Sids /\ n.what \in Whats
    BY <1>1 DEF Note
  <2>7. \A n \in notes' : Heard(n.sid, n.what)' = Heard(n.sid, n.what)
    BY DEF Heard
  <2>8. \A i \in DOMAIN subs, w \in Whats : Heard(subs[i].sid, w)' = Heard(subs'[i].sid, w)
    BY DEF Heard
  <2> QED
    BY <1>1, <2>2, <2>3, <2>4, <2>5, <2>7, <2>8 DEF NotesAreNumbered, Heard
<1>10. ASSUME ~late', NEW n \in notes', NEW i \in DOMAIN subs',
              subs'[i].service = "AVTransport", subs'[i].sid = n.sid,
              n.sid \in {hears.sid, served}, n.seq > Heard(n.sid, n.what), Newest(n)'
       PROVE  n.value = Said(n.what)'
  <2>1. CASE n \in notes /\ n.what = what
    <3>1. PICK m \in notes' : m.sid = subs[i].sid /\ m.seq = subs[i].key /\ m.what = what
      BY <1>1, <1>3, <1>10
    <3>2. m.seq <= n.seq
      BY <1>1, <1>10, <2>1, <3>1 DEF Newest
    <3>3. n.seq < subs[i].key
      BY <1>1, <1>4, <1>10, <2>1 DEF NotesAreNumbered
    <3> QED
      BY <1>1, <1>5, <2>1, <3>1, <3>2, <3>3
  <2>2. CASE n \in notes /\ n.what # what
    <3>1. Newest(n)
      BY <1>1, <1>10 DEF Newest
    <3>2. NewestIsTrue
      BY <1>10 DEF OwnSidsHold
    <3>3. n.value = Said(n.what)
      BY <1>1, <1>10, <2>2, <3>1, <3>2 DEF NewestIsTrue
    <3>4. n.what \in Whats \ {what}
      BY <1>5, <2>2
    <3>5. Said(n.what)' = Said(n.what)
      BY <3>4 
    <3> QED
      BY <3>3, <3>5
  <2>3. CASE n \notin notes
    <3>1. n.what = what /\ n.value = value
      BY <1>2, <2>3
    <3> QED
      BY <3>1
  <2> QED
    BY <2>1, <2>2, <2>3
<1>11. ASSUME ~late' PROVE NewestIsTrue'
  BY <1>10, <1>11 DEF NewestIsTrue, Heard
<1>12. ASSUME ~late', NEW w \in Whats, Attached', Heard(hears.sid, w) >= 0, AllHeard(w)'
       PROVE  Shown(w)' = Said(w)'
  <2>1. PICK i \in DOMAIN subs : subs[i].service = "AVTransport" /\ subs[i].sid = hears.sid
    BY <1>1, <1>12 DEF Attached
  <2>2. CASE w = what
    <3>1. PICK m \in notes' : m.sid = subs[i].sid /\ m.seq = subs[i].key /\ m.what = what
      BY <1>3, <2>1
    <3>2. m.seq <= Heard(hears.sid, w)
      BY <1>12, <2>1, <2>2, <3>1 DEF AllHeard, Heard
    <3>3. Heard(hears.sid, w) < subs[i].key
      BY <1>4, <2>1 DEF NotesAreNumbered
    <3>4. subs[i].key \in Nat /\ Heard(hears.sid, w) \in Int
      BY <1>5
    <3> QED
      BY <3>1, <3>2, <3>3, <3>4
  <2>3. CASE w # what
    <3>1. Attached
      BY <2>1 DEF Attached
    <3>2. AllHeard(w)
      BY <1>1, <1>12 DEF AllHeard, Heard
    <3>3. LastIsShown
      BY <1>12 DEF OwnSidsHold
    <3>4. Shown(w) = Said(w)
      BY <1>12, <3>1, <3>2, <3>3 DEF LastIsShown
    <3>5. Shown(w)' = Shown(w) /\ Said(w)' = Said(w)
      BY <2>3 DEF Shown
    <3> QED
      BY <3>4, <3>5
  <2> QED
    BY <2>2, <2>3
<1>13. ASSUME ~late' PROVE LastIsShown'
  BY <1>12, <1>13 DEF LastIsShown, Heard
<1> QED
  BY <1>7, <1>8, <1>9, <1>11, <1>13 DEF OwnSidsHold

(* The server subscribes the client, with a SID that it never used before. *)
LEMMA SubscribedSids ==
  ASSUME Types, OwnSidsHold, ownSids, Subscribed
  PROVE  OwnSidsHold'
<1>1. /\ stage \in {"AVTransport", "ConnectionManager"} /\ served = NoSid
      /\ served' = sids /\ sids' = sids + 1
      /\ subs' = Append(subs, [service |-> stage, sid |-> sids, key |-> 0])
      /\ UNCHANGED <<avt, said, notes, ownSids, stage, sidmap, hears, state, url, late>>
  BY DEF Subscribed, ServeSubscribe, unheard, NewSid
<1>2. sids \in Sids /\ sids # NoSid /\ [service |-> stage, sid |-> sids, key |-> 0] \in Sub
  BY <1>1, NewSidIsSid DEF Types, Chained, NewSid
<1>3. /\ DOMAIN subs = 1..Len(subs) /\ DOMAIN subs' = 1..(Len(subs) + 1) /\ Len(subs) \in Nat
      /\ \A i \in 1..Len(subs) : subs'[i] = subs[i]
      /\ subs'[Len(subs) + 1] = [service |-> stage, sid |-> sids, key |-> 0]
  BY <1>1, <1>2, SeqFacts DEF Types, AvtTypes
<1>4. \A i \in DOMAIN subs' :
        \/ i \in DOMAIN subs /\ subs'[i] = subs[i]
        \/ subs'[i].service = stage /\ subs'[i].sid = sids /\ subs'[i].key = 0 /\ i = Len(subs) + 1
  BY <1>3
<1>5. SidsAreFresh /\ SidsAreRight /\ NotesAreNumbered
  BY DEF OwnSidsHold
<1>6. /\ \A n \in notes : n.sid \in Sids /\ n.seq \in Nat /\ n.what \in Whats
      /\ \A i \in DOMAIN subs : subs[i].sid \in Sids /\ subs[i].key \in Nat
      /\ \A s \in Sids, w \in Whats : Heard(s, w) \in Int
      /\ Sids \subseteq Nat /\ hears.sid \in Sids /\ sids \in Nat
  BY Kinds
<1>7. /\ hears.sid < sids /\ \A n \in notes : n.sid < sids
      /\ \A i \in DOMAIN subs : subs[i].sid # NoSid /\ subs[i].sid < sids
      /\ \A s \in Sids : s >= sids => sidmap[s] = "none"
  BY <1>5 DEF SidsAreFresh
<1>8. SidsAreFresh'
  <2>1. \A i, j \in DOMAIN subs' : subs'[i].sid = subs'[j].sid => i = j
    BY <1>4, <1>5, <1>6, <1>7 DEF SidsAreFresh
  <2>2. ASSUME NEW i \in DOMAIN subs' PROVE subs'[i].sid # NoSid /\ subs'[i].sid < sids'
    <3>1. sids' = sids + 1 /\ sids \in Nat /\ sids # NoSid
      BY <1>1, <1>2, <1>6
    <3>2. CASE subs'[i].sid = sids
      BY <3>1, <3>2
    <3>3. CASE i \in DOMAIN subs /\ subs'[i] = subs[i]
      <4>1. subs[i].sid \in Nat /\ subs[i].sid # NoSid /\ subs[i].sid < sids
        BY <1>6, <1>7, <3>3
      <4> QED
        BY <3>1, <3>3, <4>1
    <3> QED
      BY <1>4, <3>2, <3>3
  <2>3. ASSUME NEW s \in Sids, s >= sids + 1 PROVE sidmap[s] = "none"
    <3>1. s \in Nat /\ sids \in Nat
      BY <1>6
    <3>2. s >= sids
      BY <2>3, <3>1
    <3> QED
      BY <1>7, <3>2
  <2>4. hears.sid < sids' /\ (\A n \in notes : n.sid < sids') /\ hears.sid # served'
    <3>1. sids' = sids + 1 /\ served' = sids /\ sids \in Nat /\ hears.sid \in Nat
      BY <1>1, <1>6
    <3>2. \A n \in notes : n.sid \in Nat /\ n.sid < sids
      BY <1>6, <1>7
    <3>3. hears.sid < sids
      BY <1>7
    <3> QED
      BY <3>1, <3>2, <3>3
  <2> QED
    BY <1>1, <2>1, <2>2, <2>3, <2>4 DEF SidsAreFresh
<1>9. SidsAreRight'
  <2>1. \A i \in DOMAIN subs : subs[i].sid # sids
    BY <1>6, <1>7
  <2>2. sidmap[sids] = "none"
    BY <1>2, <1>6, <1>7
  <2> QED
    BY <1>1, <1>4, <1>5, <2>1, <2>2 DEF SidsAreRight
<1>10. NotesAreNumbered'
  <2>1. \A n \in notes : n.sid # sids
    BY <1>6, <1>7
  <2>2. \A w \in Whats : Heard(sids, w) = -1
    BY <1>6, <1>7 DEF Heard
  <2>4. ASSUME NEW i \in DOMAIN subs'
        PROVE  /\ \A n \in notes : n.sid = subs'[i].sid => n.seq < subs'[i].key
               /\ \A w \in Whats : Heard(subs'[i].sid, w) < subs'[i].key
    <3>1. CASE i \in DOMAIN subs /\ subs'[i] = subs[i]
      BY <1>5, <3>1 DEF NotesAreNumbered
    <3>2. CASE subs'[i].sid = sids /\ subs'[i].key = 0
      BY <2>1, <2>2, <3>2
    <3> QED
      BY <1>4, <3>1, <3>2
  <2>5. \A n \in notes : n.seq # Heard(n.sid, n.what)
    BY <1>5 DEF NotesAreNumbered
  <2>6. \A n, m \in notes : n.sid = m.sid /\ n.seq = m.seq => n = m
    BY <1>5 DEF NotesAreNumbered
  <2> QED
    BY <1>1, <2>4, <2>5, <2>6 DEF NotesAreNumbered, Heard
<1>11. ASSUME ~late', NEW n \in notes, NEW i \in DOMAIN subs',
              subs'[i].service = "AVTransport", subs'[i].sid = n.sid,
              n.sid \in {hears.sid, served'}, n.seq > Heard(n.sid, n.what), Newest(n)
       PROVE  n.value = Said(n.what)
  <2>1. n.sid # sids
    BY <1>6, <1>7
  <2>2. i \in DOMAIN subs /\ subs'[i] = subs[i]
    BY <1>4, <1>11, <2>1
  <2>3. n.sid \in {hears.sid, served}
    BY <1>1, <1>11, <2>1
  <2>4. NewestIsTrue
    BY <1>1, <1>11 DEF OwnSidsHold
  <2> QED
    BY <1>11, <2>2, <2>3, <2>4 DEF NewestIsTrue
<1>12. ASSUME ~late' PROVE NewestIsTrue'
  BY <1>1, <1>11, <1>12 DEF NewestIsTrue, Heard, Newest, Said
<1>13. ASSUME ~late' PROVE LastIsShown'
  <2>1. LastIsShown
    BY <1>1, <1>13 DEF OwnSidsHold
  <2>2. Attached' => Attached
    BY <1>1, <1>4, <1>6, <1>7 DEF Attached
  <2> QED
    BY <1>1, <2>1, <2>2 DEF LastIsShown, Heard, AllHeard, Shown, Said
<1> QED
  BY <1>8, <1>9, <1>10, <1>12, <1>13 DEF OwnSidsHold

(* The client knows the SID: nothing has been heard by it yet.             *)
LEMMA SubscribeDoneSids ==
  ASSUME Types, OwnSidsHold, ownSids, SubscribeDone
  PROVE  OwnSidsHold'
<1>1. /\ served # NoSid /\ stage \in {"AVTransport", "ConnectionManager"}
      /\ sidmap' = [sidmap EXCEPT ![served] = stage]
      /\ hears' = IF stage = "AVTransport" THEN [state |-> -1, url |-> -1, sid |-> served] ELSE hears
      /\ served' = NoSid
      /\ UNCHANGED <<avt, said, subs, notes, ownSids, sids, state, url, late>>
  BY DEF SubscribeDone, avtVars
<1>2. SidsAreFresh /\ SidsAreRight /\ NotesAreNumbered
  BY DEF OwnSidsHold
<1>3. /\ \A n \in notes : n.sid \in Sids /\ n.seq \in Nat /\ n.what \in Whats
      /\ \A i \in DOMAIN subs : subs[i].sid \in Sids /\ subs[i].key \in Nat
      /\ \A s \in Sids, w \in Whats : Heard(s, w) \in Int
      /\ Sids \subseteq Nat /\ hears.sid \in Sids /\ sids \in Nat /\ served \in Sids
  BY Kinds
<1>4. served < sids /\ hears.sid # served
  BY <1>1, <1>2 DEF Types, Chained, SidsAreFew, SidsAreFresh
<1>5. \A s \in Sids : sidmap'[s] = IF s = served THEN stage ELSE sidmap[s]
  BY <1>1 DEF Types, ClientTypes
<1>8. SidsAreFresh'
  BY <1>1, <1>2, <1>3, <1>4, <1>5 DEF SidsAreFresh
<1>9. SidsAreRight'
  BY <1>1, <1>2, <1>3, <1>5 DEF SidsAreRight, SidsAreFresh
<1>10. NotesAreNumbered'
  <2>1. ASSUME NEW n \in notes PROVE n.seq # Heard(n.sid, n.what)'
    <3>1. n.seq # Heard(n.sid, n.what) /\ n.seq \in Nat
      BY <1>2, <1>3 DEF NotesAreNumbered
    <3>2. Heard(n.sid, n.what)' \in {-1, Heard(n.sid, n.what)}
      BY <1>1, <1>4 DEF Heard
    <3> QED
      BY <3>1, <3>2
  <2>2. ASSUME NEW i \in DOMAIN subs, NEW w \in Whats PROVE Heard(subs[i].sid, w)' < subs[i].key
    <3>1. Heard(subs[i].sid, w) < subs[i].key /\ subs[i].key \in Nat
      BY <1>2, <1>3 DEF NotesAreNumbered
    <3>2. Heard(subs[i].sid, w)' \in {-1, Heard(subs[i].sid, w)}
      BY <1>1, <1>4 DEF Heard
    <3> QED
      BY <3>1, <3>2
  <2> QED
    BY <1>1, <1>2, <2>1, <2>2 DEF NotesAreNumbered, Heard
<1>11. ASSUME ~late', NEW n \in notes, NEW i \in DOMAIN subs,
              subs[i].service = "AVTransport", subs[i].sid = n.sid,
              n.sid \in {hears'.sid, NoSid}, n.seq > Heard(n.sid, n.what)', Newest(n)
       PROVE  n.value = Said(n.what)
  <2>1. NewestIsTrue
    BY <1>1, <1>11 DEF OwnSidsHold
  <2>2. n.sid \in {hears.sid, served}
    BY <1>1, <1>2, <1>11 DEF SidsAreFresh
  <2>3. n.seq > Heard(n.sid, n.what)
    <3>1. CASE stage = "AVTransport"
      <4>1. n.sid = served
        BY <1>1, <1>2, <1>11, <3>1 DEF SidsAreFresh
      <4>2. Heard(n.sid, n.what) = -1
        BY <1>4, <4>1 DEF Heard
      <4> QED
        BY <1>3, <4>2
    <3>2. CASE stage # "AVTransport"
      BY <1>1, <1>11, <3>2 DEF Heard
    <3> QED
      BY <3>1, <3>2
  <2> QED
    BY <1>11, <2>1, <2>2, <2>3 DEF NewestIsTrue
<1>12. ASSUME ~late' PROVE NewestIsTrue'
  BY <1>1, <1>11, <1>12 DEF NewestIsTrue, Heard, Newest, Said
<1>13. ASSUME ~late' PROVE LastIsShown'
  <2>1. CASE stage = "AVTransport"
    <3>1. \A w \in Whats : ~(Heard(hears.sid, w) >= 0)'
      BY <1>1, <2>1 DEF Heard
    <3> QED
      BY <3>1 DEF LastIsShown
  <2>2. CASE stage # "AVTransport"
    <3>1. LastIsShown
      BY <1>1, <1>13 DEF OwnSidsHold
    <3> QED
      BY <1>1, <2>2, <3>1 DEF LastIsShown, Attached, Heard, AllHeard, Shown, Said
  <2> QED
    BY <2>1, <2>2
<1> QED
  BY <1>8, <1>9, <1>10, <1>12, <1>13 DEF OwnSidsHold

(* A notification comes to the client, or is lost.                         *)
LEMMA Leaves ==
  ASSUME Types, OwnSidsHold, ownSids, NEW n \in notes, notes' = notes \ {n}, late',
         UNCHANGED <<ownSids, subs, hears, sidmap, sids, served, stage>>
  PROVE  OwnSidsHold'
<1>1. SidsAreFresh'
  BY DEF OwnSidsHold, SidsAreFresh
<1>2. SidsAreRight'
  BY DEF OwnSidsHold, SidsAreRight
<1>3. NotesAreNumbered'
  BY DEF OwnSidsHold, NotesAreNumbered, Heard
<1> QED
  BY <1>1, <1>2, <1>3 DEF OwnSidsHold

(* It is for another service: the player shows what it showed.             *)
LEMMA ReceivedElsewhere ==
  ASSUME Types, OwnSidsHold, ownSids, NEW n \in notes, Receive(n), sidmap[n.sid] = "ConnectionManager"
  PROVE  OwnSidsHold'
<1>1. /\ notes' = notes \ {n} /\ late' = late
      /\ UNCHANGED <<avt, said, subs, ownSids, stage, served, sidmap, sids, state, url, hears>>
  BY DEF Receive, Refused, Types, ClientTypes
<1>2. SidsAreRight
  BY DEF OwnSidsHold
<1>3. \A i \in DOMAIN subs : subs[i].sid = n.sid => subs[i].service # "AVTransport"
  BY <1>2 DEF SidsAreRight
<1>4. SidsAreFresh'
  BY <1>1 DEF OwnSidsHold, SidsAreFresh
<1>5. SidsAreRight'
  BY <1>1, <1>2 DEF SidsAreRight
<1>6. NotesAreNumbered'
  BY <1>1 DEF OwnSidsHold, NotesAreNumbered, Heard
<1>7. ASSUME ~late', NEW m \in notes', NEW i \in DOMAIN subs,
             subs[i].service = "AVTransport", subs[i].sid = m.sid,
             m.sid \in {hears.sid, served}, m.seq > Heard(m.sid, m.what), Newest(m)'
      PROVE  m.value = Said(m.what)
  <2>1. m \in notes /\ n.sid # m.sid
    BY <1>1, <1>3, <1>7
  <2>2. Newest(m)
    BY <1>1, <1>7, <2>1 DEF Newest
  <2>3. NewestIsTrue
    BY <1>1, <1>7 DEF OwnSidsHold
  <2> QED
    BY <1>7, <2>1, <2>2, <2>3 DEF NewestIsTrue
<1>8. ASSUME ~late' PROVE NewestIsTrue'
  BY <1>1, <1>7, <1>8 DEF NewestIsTrue, Heard, Said
<1>9. ASSUME ~late', NEW w \in Whats, Attached, Heard(hears.sid, w) >= 0, AllHeard(w)'
      PROVE  Shown(w) = Said(w)
  <2>1. n.sid # hears.sid
    BY <1>3, <1>9 DEF Attached
  <2>2. AllHeard(w)
    BY <1>1, <1>9, <2>1 DEF AllHeard, Heard
  <2>3. LastIsShown
    BY <1>1, <1>9 DEF OwnSidsHold
  <2> QED
    BY <1>9, <2>2, <2>3 DEF LastIsShown
<1>10. ASSUME ~late' PROVE LastIsShown'
  BY <1>1, <1>9, <1>10 DEF LastIsShown, Attached, Heard, Shown, Said
<1> QED
  BY <1>4, <1>5, <1>6, <1>8, <1>10 DEF OwnSidsHold

(* It is in order: of its kind it is the newest that was heard.            *)
LEMMA ReceivedInOrder ==
  ASSUME Types, OwnSidsHold, ownSids, NEW n \in notes, Receive(n),
         sidmap[n.sid] = "AVTransport", ~OutOfOrder(n)
  PROVE  OwnSidsHold'
<1>1. /\ notes' = notes \ {n} /\ late' = late /\ Hear(n)
      /\ hears' = [hears EXCEPT ![Which(n)] = n.seq]
      /\ UNCHANGED <<avt, said, subs, ownSids, stage, served, sidmap, sids>>
  BY DEF Receive, Types, ClientTypes
<1>2. SidsAreFresh /\ SidsAreRight /\ NotesAreNumbered
  BY DEF OwnSidsHold
<1>3. /\ \A m \in notes : m.sid \in Sids /\ m.seq \in Nat /\ m.what \in Whats
      /\ \A i \in DOMAIN subs : subs[i].sid \in Sids /\ subs[i].key \in Nat
      /\ \A s \in Sids, w \in Whats : Heard(s, w) \in Int
      /\ Sids \subseteq Nat /\ hears.sid \in Sids
      /\ hears.state \in Int /\ hears.url \in Int
  BY Kinds
<1>4. hears \in [state : Int, url : Int, sid : Sids]
  BY DEF Types, ClientTypes
<1>5. n.sid = hears.sid /\ ~(n.seq < hears[Which(n)])
  BY DEF OutOfOrder
<1>6. /\ hears'.sid = hears.sid
      /\ n.what = "TransportState" => hears'.state = n.seq /\ hears'.url = hears.url /\ ~(n.seq < hears.state)
      /\ n.what # "TransportState" => hears'.url = n.seq /\ hears'.state = hears.state /\ ~(n.seq < hears.url)
  BY <1>1, <1>4, <1>5 DEF Which
<1>7. \A s, w : s # n.sid => Heard(s, w)' = Heard(s, w)
  BY <1>5, <1>6 DEF Heard
<1>8. \A w \in Whats : w # n.what => Heard(n.sid, w)' = Heard(n.sid, w)
  BY <1>3, <1>5, <1>6 DEF Heard, Whats
<1>9. Heard(n.sid, n.what)' = n.seq /\ n.seq >= Heard(n.sid, n.what)
  BY <1>3, <1>5, <1>6 DEF Heard, Whats
<1>10. n.seq > Heard(n.sid, n.what)
  <2>1. n.seq # Heard(n.sid, n.what)
    BY <1>2 DEF NotesAreNumbered
  <2>2. n.seq \in Nat /\ Heard(n.sid, n.what) \in Int
    BY <1>3
  <2> QED
    BY <1>9, <2>1, <2>2
<1>11. SidsAreFresh'
  BY <1>1, <1>2, <1>6 DEF SidsAreFresh
<1>12. SidsAreRight'
  BY <1>1, <1>2 DEF SidsAreRight
<1>13. NotesAreNumbered'
  <2>1. ASSUME NEW m \in notes' PROVE m.seq # Heard(m.sid, m.what)'
    <3>1. CASE m.sid = n.sid /\ m.what = n.what
      BY <1>1, <1>2, <1>9, <3>1 DEF NotesAreNumbered
    <3>2. CASE m.sid # n.sid
      BY <1>1, <1>2, <1>7, <3>2 DEF NotesAreNumbered
    <3>3. CASE m.sid = n.sid /\ m.what # n.what
      BY <1>1, <1>2, <1>3, <1>8, <3>3 DEF NotesAreNumbered
    <3> QED
      BY <3>1, <3>2, <3>3
  <2>2. ASSUME NEW i \in DOMAIN subs, NEW w \in Whats PROVE Heard(subs[i].sid, w)' < subs[i].key
    <3>1. CASE subs[i].sid = n.sid /\ w = n.what
      <4>1. n.seq < subs[i].key
        BY <1>2, <3>1 DEF NotesAreNumbered
      <4>2. Heard(subs[i].sid, w)' = n.seq
        BY <1>1, <1>3, <1>5, <1>6, <3>1 DEF Heard, Whats
      <4> QED
        BY <4>1, <4>2
    <3>2. CASE subs[i].sid # n.sid
      BY <1>1, <1>2, <1>7, <3>2 DEF NotesAreNumbered
    <3>3. CASE subs[i].sid = n.sid /\ w # n.what
      BY <1>1, <1>2, <1>8, <3>3 DEF NotesAreNumbered
    <3> QED
      BY <3>1, <3>2, <3>3
  <2> QED
    BY <1>1, <1>2, <2>1, <2>2 DEF NotesAreNumbered, Heard
<1>14. ASSUME ~late', NEW m \in notes', NEW i \in DOMAIN subs,
              subs[i].service = "AVTransport", subs[i].sid = m.sid,
              m.sid \in {hears.sid, served}, m.seq > Heard(m.sid, m.what)', Newest(m)'
       PROVE  m.value = Said(m.what)
  <2>1. m \in notes /\ m.seq \in Nat /\ n.seq \in Nat /\ m.what \in Whats
    BY <1>1, <1>3, <1>14
  <2>2. NewestIsTrue
    BY <1>1, <1>14 DEF OwnSidsHold
  <2>3. CASE m.sid = n.sid /\ m.what = n.what
    <3>1. m.seq > n.seq
      BY <1>9, <1>14, <2>3
    <3>2. m.seq > Heard(m.sid, m.what)
      <4>1. Heard(n.sid, n.what) \in Int
        BY <1>3
      <4> QED
        BY <1>10, <2>1, <2>3, <3>1, <4>1
    <3>3. Newest(m)
      BY <1>1, <1>14, <2>1, <3>1 DEF Newest
    <3> QED
      BY <1>14, <2>1, <2>2, <3>2, <3>3 DEF NewestIsTrue
  <2>4. CASE ~(m.sid = n.sid /\ m.what = n.what)
    <3>1. Heard(m.sid, m.what)' = Heard(m.sid, m.what)
      BY <1>7, <1>8, <2>1, <2>4
    <3>2. Newest(m)
      BY <1>1, <1>14, <2>4 DEF Newest
    <3> QED
      BY <1>14, <2>1, <2>2, <3>1, <3>2 DEF NewestIsTrue
  <2> QED
    BY <2>3, <2>4
<1>15. ASSUME ~late' PROVE NewestIsTrue'
  BY <1>1, <1>6, <1>14, <1>15 DEF NewestIsTrue, Heard, Said
<1>16. ASSUME ~late', NEW w \in Whats, Attached, Heard(hears.sid, w)' >= 0, AllHeard(w)'
       PROVE  Shown(w)' = Said(w)
  <2>1. PICK i \in DOMAIN subs : subs[i].service = "AVTransport" /\ subs[i].sid = hears.sid
    BY <1>16 DEF Attached
  <2>2. NewestIsTrue /\ LastIsShown
    BY <1>1, <1>16 DEF OwnSidsHold
  <2>3. CASE w = n.what
    <3>1. \A m \in notes' : m.sid = n.sid /\ m.what = n.what => m.seq <= n.seq
      BY <1>5, <1>6, <1>9, <1>16, <2>3 DEF AllHeard, Heard
    <3>2. n.seq \in Nat
      BY <1>3
    <3>3. Newest(n)
      BY <1>1, <3>1, <3>2 DEF Newest
    <3>4. n.value = Said(n.what)
      BY <1>5, <1>10, <2>1, <2>2, <3>3 DEF NewestIsTrue
    <3>5. Shown(w)' = n.value
      BY <1>1, <1>3, <2>3 DEF Shown, Hear, Whats
    <3> QED
      BY <2>3, <3>4, <3>5
  <2>4. CASE w # n.what
    <3>1. Heard(hears.sid, w)' = Heard(hears.sid, w)
      BY <1>3, <1>5, <1>6, <2>4 DEF Heard, Whats
    <3>2. AllHeard(w)
      BY <1>1, <1>5, <1>6, <1>16, <2>4, <3>1 DEF AllHeard, Heard
    <3>3. Shown(w) = Said(w)
      BY <1>16, <2>2, <3>1, <3>2 DEF LastIsShown
    <3>4. Shown(w)' = Shown(w)
      BY <1>1, <1>3, <2>4 DEF Shown, Hear, Whats
    <3> QED
      BY <3>3, <3>4
  <2> QED
    BY <2>3, <2>4
<1>17. ASSUME ~late' PROVE LastIsShown'
  <2>1. Attached' <=> Attached
    BY <1>1, <1>6 DEF Attached
  <2>2. \A w \in Whats : Said(w)' = Said(w)
    BY <1>1 DEF Said
  <2> QED
    BY <1>16, <1>17, <2>1, <2>2 DEF LastIsShown
<1> QED
  BY <1>11, <1>12, <1>13, <1>15, <1>17 DEF OwnSidsHold

(* All that the player hears.                                              *)
LEMMA ReceivedSids ==
  ASSUME Types, OwnSidsHold, ownSids, NEW n \in notes, Receive(n)
  PROVE  OwnSidsHold'
<1>1. /\ notes' = notes \ {n}
      /\ UNCHANGED <<ownSids, subs, sidmap, sids, served, stage>>
      /\ sidmap[n.sid] \in {"none", "AVTransport", "ConnectionManager"}
  BY Kinds DEF Receive, Types, ClientTypes
<1>2. CASE sidmap[n.sid] = "ConnectionManager"
  BY <1>2, ReceivedElsewhere
<1>3. CASE sidmap[n.sid] = "AVTransport" /\ ~OutOfOrder(n)
  BY <1>3, ReceivedInOrder
<1>4. CASE sidmap[n.sid] = "AVTransport" /\ OutOfOrder(n)
  <2>1. late' /\ UNCHANGED hears
    BY <1>4 DEF Receive
  <2> QED
    BY <1>1, <2>1, Leaves
<1>5. CASE sidmap[n.sid] = "none"
  <2>1. late' /\ UNCHANGED hears
    BY <1>5 DEF Receive, Refused
  <2> QED
    BY <1>1, <2>1, Leaves
<1> QED
  BY <1>1, <1>2, <1>3, <1>4, <1>5

(* Every step of the client.                                               *)
LEMMA ClientSids ==
  ASSUME Types, OwnSidsHold, ClientStep
  PROVE  OwnSidsHold'
<1>0. CASE ~ownSids
  <2>1. ownSids' = ownSids
    BY DEF ClientStep, StartInit, Answered, CallFails, CallIsLost, Subscribed, SubscribeDone, Receive, NoteLost, PositionUnknown
  <2> QED
    BY <1>0, <2>1 DEF OwnSidsHold
<1>1. CASE ownSids
  <2> USE <1>1
  <2>1. \A w : UNCHANGED <<avt, said>> => Said(w)' = Said(w)
    BY DEF Said
  <2>2. CASE StartInit
    <3>1. served = NoSid
      BY <2>2 DEF StartInit, Types, Chained, SidsAreFew, Ended
    <3> QED
      BY <2>1, <2>2, <3>1, Quiet DEF StartInit, avtVars, unheard
  <2>3. CASE Answered
    <3>1. served = NoSid
      BY <2>3 DEF Answered, Types, Chained, SidsAreFew
    <3> QED
      BY <2>1, <2>3, <3>1, Quiet DEF Answered, avtVars, unheard
  <2>4. CASE CallFails
    BY <2>1, <2>4, Quiet DEF CallFails, avtVars, unheard
  <2>4a. CASE CallIsLost
    BY <2>1, <2>4a, Quiet DEF CallIsLost, avtVars, unheard
  <2>5. CASE Subscribed
    BY <2>5, SubscribedSids
  <2>6. CASE SubscribeDone
    BY <2>6, SubscribeDoneSids
  <2>7. ASSUME NEW n \in notes, Receive(n) PROVE OwnSidsHold'
    BY <2>7, ReceivedSids
  <2>8. ASSUME NEW n \in notes, NoteLost(n) PROVE OwnSidsHold'
    BY <2>8, Leaves DEF NoteLost
  <2>9. CASE PositionUnknown
    BY <2>1, <2>9, Quiet DEF PositionUnknown, avtVars
  <2> QED
    BY <2>2, <2>3, <2>4, <2>4a, <2>5, <2>6, <2>7, <2>8, <2>9 DEF ClientStep
<1> QED
  BY <1>0, <1>1 DEF Types, ClientTypes

(* Every step of the renderer.                                             *)
LEMMA RendererSids ==
  ASSUME Types, OwnSidsHold, Renderer \/ RendererRestarts, UNCHANGED clientVars
  PROVE  OwnSidsHold'
<1> USE DEF clientVars
<1>0. CASE ~ownSids
  BY <1>0 DEF OwnSidsHold
<1>1. CASE ownSids
  <2> USE <1>1
  <2>0. /\ player \in [url : U, next : U, state : States] /\ calls \in Seq(Call)
        /\ avt \in [state : States, url : U, meta : U, next : U, nextMeta : U]
        /\ AvtTypes
    BY DEF Types, AvtTypes
  <2>1. ASSUME UNCHANGED <<subs, notes, said>>, avt'.state = avt.state
        PROVE  OwnSidsHold'
    <3>1. \A w \in Whats : Said(w)' = Said(w)
      BY <2>1 DEF Said
    <3> QED
      BY <2>1, <3>1, Quiet
  <2>2. ASSUME NEW u \in U, NEW a \in [state : States, url : U, meta : U, next : U, nextMeta : U],
               a.state = avt.state, OnURL(a, u)
        PROVE  OwnSidsHold'
    <3>1. avt'.state = avt.state /\ said' = u /\ FireEvent("AVTransportURI", u)
      BY <2>0, <2>2, OnURLTypes
    <3>2. Said("AVTransportURI")' = u /\ \A w \in Whats \ {"AVTransportURI"} : Said(w)' = Said(w)
      BY <3>1 DEF Said, Whats
    <3>3. "AVTransportURI" \in Whats /\ u \in U \cup States
      BY DEF Whats
    <3> QED
      BY <3>1, <3>2, <3>3, Fires DEF clientVars
  <2>3. ASSUME NEW u \in Urls, SetAVTransportURI(u) PROVE OwnSidsHold'
    BY <2>0, <2>1, <2>3 DEF SetAVTransportURI
  <2>3a. ASSUME NEW c \in half, PlayerSetURL(c) PROVE OwnSidsHold'
    BY <2>1, <2>3a DEF PlayerSetURL
  <2>3b. ASSUME NEW c \in half, PlayerTellsURL(c) PROVE OwnSidsHold'
    BY <2>0, <2>2, <2>3b DEF PlayerTellsURL
  <2>3c. ASSUME NEW c \in half, PlayerSetNextURL(c) PROVE OwnSidsHold'
    BY <2>1, <2>3c DEF PlayerSetNextURL
  <2>4. ASSUME NEW u \in Urls, SetNextAVTransportURI(u) PROVE OwnSidsHold'
    BY <2>0, <2>1, <2>4 DEF SetNextAVTransportURI
  <2>5. ASSUME NEW s \in States, SetPlayState(s) PROVE OwnSidsHold'
    BY <2>1, <2>5 DEF SetPlayState
  <2>6. ASSUME PlayerMovesOn PROVE OwnSidsHold'
    BY <2>1, <2>6 DEF PlayerMovesOn
  <2>7. ASSUME PlayerCalls PROVE OwnSidsHold'
    <3> DEFINE c == Head(calls)
    <3>1. /\ calls # <<>>
          /\ \/ c.call = "OnURL" /\ OnURL(avt, player.url)
             \/ c.call = "OnPlayState" /\ OnPlayState(c.arg) /\ UNCHANGED said
      BY <2>7 DEF PlayerCalls
    <3>2. CASE c.call = "OnURL"
      BY <2>0, <2>2, <3>1, <3>2
    <3>3. CASE c.call # "OnURL"
      <4>1. PICK x \in Call : TRUE
        BY <2>0, <3>1, EmptySeq, ElementOfSeq
      <4>2. c = calls[1] /\ 1 \in DOMAIN calls /\ calls[1] \in Call
        BY <2>0, <3>1, <4>1, SeqFacts, ElementOfSeq
      <4>3. c.arg \in States /\ OnPlayState(c.arg) /\ UNCHANGED said
        BY <2>0, <3>1, <3>3, <4>2 DEF AvtTypes, Call
      <4>4. avt'.state = c.arg
        BY <2>0, <4>3 DEF OnPlayState
      <4>5. CASE c.arg = avt.state
        BY <2>1, <4>3, <4>4, <4>5 DEF OnPlayState
      <4>6. CASE c.arg # avt.state
        <5>1. FireEvent("TransportState", c.arg)
          BY <4>3, <4>6 DEF OnPlayState
        <5>2. /\ Said("TransportState")' = c.arg
              /\ \A w \in Whats \ {"TransportState"} : Said(w)' = Said(w)
          BY <4>3, <4>4 DEF Said, Whats
        <5>3. "TransportState" \in Whats /\ c.arg \in U \cup States
          BY <4>3 DEF Whats
        <5> HIDE DEF c
        <5> QED
          BY <4>3, <5>1, <5>2, <5>3, Fires
      <4> QED
        BY <4>5, <4>6
    <3> QED
      BY <3>2, <3>3
  <2>8. ASSUME RendererRestarts PROVE OwnSidsHold'
    <3>1. subs' = <<>> /\ UNCHANGED notes
      BY <2>8 DEF RendererRestarts
    <3>2. DOMAIN subs' = {}
      BY <3>1
    <3>3. \A n \in notes : Heard(n.sid, n.what)' = Heard(n.sid, n.what)
      BY <3>1 DEF Heard
    <3>4. SidsAreFresh' /\ SidsAreRight'
      BY <3>1, <3>2 DEF OwnSidsHold, SidsAreFresh, SidsAreRight
    <3>5. NotesAreNumbered'
      BY <3>1, <3>2, <3>3 DEF OwnSidsHold, NotesAreNumbered
    <3>6. NewestIsTrue' /\ LastIsShown'
      BY <3>2 DEF NewestIsTrue, LastIsShown, Attached
    <3> QED
      BY <3>4, <3>5, <3>6 DEF OwnSidsHold
  <2> QED
    BY <2>3, <2>3a, <2>3b, <2>3c, <2>4, <2>5, <2>6, <2>7, <2>8 DEF Renderer
<1> QED
  BY <1>0, <1>1 DEF Types, ClientTypes

-----------------------------------------------------------------------------
(* At first nothing is said, nothing is shown, and nobody has asked.       *)
LEMMA AtFirst == Init => IInv
<1> SUFFICES ASSUME Init PROVE IInv
  OBVIOUS
<1> USE AvTransportAssumption, RemotePlayerAssumption
<1>0. /\ player = [url |-> NoUrl, next |-> NoUrl, state |-> Stopped] /\ calls = <<>>
      /\ avt = [state |-> Stopped, url |-> NoUrl, meta |-> NoUrl, next |-> NoUrl, nextMeta |-> NoUrl]
      /\ subs = <<>> /\ notes = {} /\ half = {} /\ commands = 0 /\ hasty = FALSE /\ said = NoUrl
      /\ ownSids \in BOOLEAN /\ stage = "idle" /\ served = NoSid /\ sidmap = [s \in Sids |-> "none"]
      /\ state = Stopped /\ url = NoUrl /\ polling = FALSE /\ told = 0 /\ inits = 0 /\ sids = 1
      /\ hears = [state |-> -1, url |-> -1, sid |-> NoSid] /\ late = FALSE
  BY DEF Init, AvtInit
<1>1. <<>> \in Seq(Call) /\ <<>> \in Seq(Sub) /\ DOMAIN <<>> = {} /\ NoUrl \in U /\ NoSid \in Sids
  BY DEF U, Sids, NoSid
<1>2. AvtTypes
  BY <1>0, <1>1 DEF AvtTypes
<1>3. ClientTypes
  <2>1. sidmap \in [Sids -> {"none", "AVTransport", "ConnectionManager"}]
    BY <1>0
  <2>2. hears \in [state : Int, url : Int, sid : Sids]
    BY <1>0, <1>1
  <2>3. inits \in 0..MaxInits /\ sids \in Nat \ {0}
    BY <1>0
  <2> QED
    BY <1>0, <1>1, <2>1, <2>2, <2>3 DEF ClientTypes, Stages
<1>4. ToldWithTheEnd /\ SidsAreFew
  BY <1>0 DEF ToldWithTheEnd, SidsAreFew
<1>5. NextIsKnown /\ SaidIsUrl
  BY <1>0 DEF NextIsKnown, SaidIsUrl
<1>6. SidsAreFresh
  BY <1>0, <1>1 DEF SidsAreFresh, NoSid
<1>7. SidsAreRight /\ NotesAreNumbered /\ NewestIsTrue /\ LastIsShown
  BY <1>0, <1>1 DEF SidsAreRight, NotesAreNumbered, NewestIsTrue, LastIsShown, Attached
<1> QED
  BY <1>2, <1>3, <1>4, <1>5, <1>6, <1>7 DEF IInv, OwnSidsHold

(* Every step keeps the invariant.                                         *)
LEMMA EveryStep == IInv /\ [Next]_vars => IInv'
<1> SUFFICES ASSUME IInv, [Next]_vars PROVE IInv'
  OBVIOUS
<1>0. Types /\ NextIsKnown /\ SaidIsUrl /\ OwnSidsHold
  BY DEF IInv, Types, Chained
<1>1. CASE Renderer /\ UNCHANGED clientVars
  <2>1. AvtTypes' /\ NextIsKnown' /\ SaidIsUrl'
    BY <1>0, <1>1, RendererTypes, RendererNext, RendererSays DEF Types
  <2>2. OwnSidsHold'
    BY <1>0, <1>1, RendererSids
  <2>3. ClientTypes' /\ ToldWithTheEnd' /\ SidsAreFew'
    BY <1>0, <1>1 DEF Types, Chained, clientVars, ClientTypes, ToldWithTheEnd, SidsAreFew
  <2> QED
    BY <2>1, <2>2, <2>3 DEF IInv
<1>2. CASE Restart
  <2>0. RendererRestarts /\ UNCHANGED clientVars
    BY <1>2 DEF Restart
  <2>1. AvtTypes' /\ NextIsKnown' /\ SaidIsUrl'
    BY <1>0, <2>0, RendererTypes, RendererNext, RendererSays DEF Types
  <2>2. OwnSidsHold'
    BY <1>0, <2>0, RendererSids
  <2>3. ClientTypes' /\ ToldWithTheEnd' /\ SidsAreFew'
    BY <1>0, <2>0 DEF Types, Chained, clientVars, ClientTypes, ToldWithTheEnd, SidsAreFew
  <2> QED
    BY <2>1, <2>2, <2>3 DEF IInv
<1>3. CASE ClientStep
  <2>1. AvtTypes' /\ ClientTypes' /\ Chained'
    BY <1>0, <1>3, ClientSteps DEF Types
  <2>2. OwnSidsHold'
    BY <1>0, <1>3, ClientSids
  <2>3. UNCHANGED <<player, calls, avt, half, hasty, said>>
    BY <1>3 DEF ClientStep, StartInit, Answered, CallFails, CallIsLost, Subscribed, SubscribeDone,
                Receive, NoteLost, PositionUnknown, avtVars
  <2>4. NextIsKnown' /\ SaidIsUrl'
    BY <1>0, <2>3 DEF NextIsKnown, MovedOn, Unsent, SaidIsUrl, Setting
  <2> QED
    BY <2>1, <2>2, <2>4 DEF IInv, Chained
<1>4. CASE UNCHANGED vars
  <2>1. UNCHANGED avtVars /\ UNCHANGED clientVars
    BY <1>4 DEF vars
  <2>2. AvtTypes' /\ ClientTypes' /\ ToldWithTheEnd' /\ SidsAreFew' /\ NextIsKnown' /\ SaidIsUrl'
    BY <1>0, <2>1 DEF Types, Chained, avtVars, clientVars, AvtTypes, ClientTypes, ToldWithTheEnd,
                      SidsAreFew, NextIsKnown, MovedOn, Unsent, SaidIsUrl, Setting
  <2>3. OwnSidsHold'
    <3>1. \A w \in Whats : Said(w)' = Said(w)
      BY <2>1 DEF avtVars, Said
    <3>2. CASE ownSids
      BY <1>0, <2>1, <3>1, <3>2, Quiet DEF avtVars, clientVars
    <3>3. CASE ~ownSids
      BY <2>1, <3>3 DEF clientVars, OwnSidsHold
    <3> QED
      BY <1>0, <3>2, <3>3 DEF Types, ClientTypes
  <2> QED
    BY <2>2, <2>3 DEF IInv
<1> QED
  BY <1>1, <1>2, <1>3, <1>4 DEF Next, ClientStep

LEMMA AlwaysIInv == Spec => []IInv
BY AtFirst, EveryStep, PTL DEF Spec

(* The words the renderer gives with its URL are those of that URL, for any *)
(* number of commands on any number of threads and callbacks between their  *)
(* steps: except after a callback with another URL came between the notes   *)
(* of SetAVTransportURI and the player's SetURL, after two of them were     *)
(* under way at once, or after a next URL was replaced while the player was *)
(* on its way to it.                                                        *)
THEOREM MetadataAlwaysIsOfUrl == Spec => []MetadataIsOfUrl
<1>1. IInv => MetadataIsOfUrl
  BY DEF IInv, NextIsKnown, MetadataIsOfUrl
<1> QED
  BY <1>1, AlwaysIInv, PTL

(* A player whose renderer makes a SID for each subscription shows, when   *)
(* nothing is under way, what the renderer says: if no notification was    *)
(* lost, came too early to be known, or overtook another.  What the        *)
(* renderer announced last is its URL, while no SetAVTransportURI is half  *)
(* done.                                                                   *)
THEOREM AlwaysSeesTheRenderer == Spec => []SeesTheRenderer
<1>1. IInv => SeesTheRenderer
  <2> SUFFICES ASSUME IInv, ownSids, ~late, notes = {}, ~Setting, Attached
               PROVE  /\ hears.state >= 0 => state = avt.state
                      /\ hears.url >= 0 => url = avt.url
    BY DEF SeesTheRenderer
  <2>1. LastIsShown
    BY DEF IInv, OwnSidsHold
  <2>2. \A w \in Whats : Heard(hears.sid, w) >= 0 => Shown(w) = Said(w)
    BY <2>1 DEF LastIsShown, AllHeard
  <2>3. "TransportState" \in Whats /\ "AVTransportURI" \in Whats
    BY DEF Whats
  <2>4. /\ Heard(hears.sid, "TransportState") = hears.state /\ Heard(hears.sid, "AVTransportURI") = hears.url
        /\ Shown("TransportState") = state /\ Shown("AVTransportURI") = url
        /\ Said("TransportState") = avt.state /\ Said("AVTransportURI") = avt.url
    BY DEF Heard, Shown, Said, IInv, SaidIsUrl
  <2> QED
    BY <2>2, <2>3, <2>4
<1> QED
  BY <1>1, AlwaysIInv, PTL

(* Init's callback is called once when its chain has ended, with its end   *)
(* or its first error, and not before; never when Init returned the error, *)
(* nor when a call's end was told to nobody: InitToldOnce's first half.    *)
THEOREM AlwaysToldWithTheEnd == Spec => [](TypeOK /\ told = IF stage \in {"ready", "failed"} THEN 1 ELSE 0)
<1>1. IInv => TypeOK
  BY DEF IInv, AvtTypes, ClientTypes, ToldWithTheEnd, TypeOK, Stages, U
<1>2. IInv => told = IF stage \in {"ready", "failed"} THEN 1 ELSE 0
  BY DEF IInv, ToldWithTheEnd
<1> QED
  BY <1>1, <1>2, AlwaysIInv, PTL
=============================================================================
