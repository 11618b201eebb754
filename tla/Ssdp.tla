-------------------------------- MODULE Ssdp --------------------------------
(***************************************************************************)
(* Discovery: libupnp/ssdp.cpp.  Every node is a process with one          *)
(* Responder.  It advertises services and searches for others over UDP,    *)
(* which may lose any packet for any receiver; the two sockets a Responder *)
(* reads are drained in whichever order the poller finds them readable.    *)
(*                                                                         *)
(* A service type is a pair of a name and a version.  A device's UDN is    *)
(* the same in every run (MakeUUID hashes the host's name), its location   *)
(* is not (the port is chosen in each run): the model uses the node as the *)
(* UDN and the number of the run as the location.                          *)
(***************************************************************************)
EXTENDS Integers, Sequences, FiniteSets

CONSTANTS
  Nodes,
  TypeNames, MaxVersion,
  Offers,       \* what each node advertises: Nodes -> SUBSET Types
  Wants,        \* what each node searches for: Nodes -> SUBSET Types
  MaxRuns,      \* bound: times each node is started: Nodes -> Nat
  MaxRenewals,  \* bound: times an advertisement wakes up after its burst
  MaxLosses     \* bound: packets lost

Types == TypeNames \X (1..MaxVersion)

ASSUME SsdpAssumption ==
  /\ MaxVersion \in Nat /\ MaxRuns \in [Nodes -> Nat] /\ MaxRenewals \in Nat /\ MaxLosses \in Nat
  /\ Offers \in [Nodes -> SUBSET Types] /\ Wants \in [Nodes -> SUBSET Types]
  \* A device has finitely many services, and each in one version (what
  \* libupnp/server.cpp advertises is its list of services).
  /\ IsFiniteSet(Nodes) /\ \A n \in Nodes : IsFiniteSet(Offers[n])
  /\ \A n \in Nodes : \A s, t \in Offers[n] : s[1] = t[1] => s = t

VARIABLES
  life,       \* is the process running, and does it still have its Responder?
  run,        \* the number of its run
  map,        \* m_map's keys: what this node looks for
  known,      \* m_set, each pair with the location its callback was given
  adverts,    \* m_adverts: the cycle and the timer of each advertisement
  multicast,  \* what is unread on m_multicast_socket
  unicast,    \* what is unread on m_search_socket
  renewals, losses,  \* counters of the bounds
  stale       \* history: <<c, u>> when c was not told properly that u went

node == <<life, run, map, known, adverts>>
vars == <<node, multicast, unicast, renewals, losses, stale>>

Notify(u, t, alive) == [verb |-> "NOTIFY", udn |-> u, loc |-> run[u], type |-> t, alive |-> alive]
Reply(u, t) == [verb |-> "200", udn |-> u, loc |-> run[u], type |-> t, alive |-> TRUE]
SearchFor(c, t) == [verb |-> "M-SEARCH", from |-> c, type |-> t]

IsUp(n) == life[n] = "up"

\* The test of SSDP searches: the same service, in this version or an older one.
MatchServiceType(search, mine) == search[1] = mine[1] /\ search[2] <= mine[2]

Advertised(n) == {t \in Types : adverts[n][t].timer # "none"}

Init ==
  /\ life = [n \in Nodes |-> "off"]
  /\ run = [n \in Nodes |-> 0]
  /\ map = [n \in Nodes |-> {}]
  /\ known = [n \in Nodes |-> {}]
  /\ adverts = [n \in Nodes |-> [t \in Types |-> [cycle |-> 0, timer |-> "none"]]]
  /\ multicast = [n \in Nodes |-> <<>>]
  /\ unicast = [n \in Nodes |-> <<>>]
  /\ renewals = 0 /\ losses = 0 /\ stale = {}

-----------------------------------------------------------------------------
\* A multicast reaches every Responder that is up but those in lost (also the
\* sender's own, which has joined the group like the others).  Left out are
\* packets that OnPacket drops whenever it reads them: searches, for a node
\* that never advertises, and notifications, for one that never searches.
Hears(n, verb) == IsUp(n) /\ (IF verb = "NOTIFY" THEN Wants[n] # {} ELSE Offers[n] # {})

Losses == {lost \in SUBSET Nodes : losses + Cardinality(lost) <= MaxLosses}

Multicast(verb, packets, lost) ==
  /\ lost \subseteq {n \in Nodes : Hears(n, verb)}
  /\ losses' = losses + Cardinality(lost)
  /\ multicast' = [n \in Nodes |-> IF Hears(n, verb) /\ n \notin lost
                                    THEN multicast[n] \o packets ELSE multicast[n]]

\* SendNotify's end: after three in a row the repeating timer is replaced by
\* one that is 800*1000 seconds away.
NextCycle_OfTwo(a) == IF a.cycle = 1 THEN [cycle |-> 0, timer |-> "asleep"]
                                     ELSE [a EXCEPT !.cycle = @ + 1]
NextCycle(a) == IF a.cycle = 2 THEN [cycle |-> 0, timer |-> "asleep"]
                               ELSE [a EXCEPT !.cycle = @ + 1]

\* The Responder is made and the process runs (again, perhaps).
Start(n) ==
  /\ life[n] = "off" /\ run[n] < MaxRuns[n]
  /\ life' = [life EXCEPT ![n] = "up"]
  /\ run' = [run EXCEPT ![n] = @ + 1]
  /\ UNCHANGED <<map, known, adverts, multicast, unicast, renewals, losses, stale>>

\* Responder::Advertise: its timer is due at once, and every 84 to 99 ms.
Advertise(n, t) ==
  /\ IsUp(n) /\ t \in Offers[n] \ Advertised(n)
  /\ adverts' = [adverts EXCEPT ![n][t] = [cycle |-> 0, timer |-> "burst"]]
  /\ UNCHANGED <<life, run, map, known, multicast, unicast, renewals, losses, stale>>

\* Responder::Search: the callback is stored, and one M-SEARCH is sent.
Search(n, t) ==
  /\ IsUp(n) /\ t \in Wants[n] \ map[n]
  /\ map' = [map EXCEPT ![n] = @ \union {t}]
  /\ \E lost \in Losses : Multicast("M-SEARCH", <<SearchFor(n, t)>>, lost)
  /\ UNCHANGED <<life, run, known, adverts, unicast, renewals, stale>>

\* Advertisement::OnTimer, in a burst of three ...
OnTimer(n, t) ==
  /\ IsUp(n) /\ adverts[n][t].timer = "burst"
  /\ \E lost \in Losses : Multicast("NOTIFY", <<Notify(n, t, TRUE)>>, lost)
  /\ adverts' = [adverts EXCEPT ![n][t] = NextCycle(@)]
  /\ UNCHANGED <<life, run, map, known, unicast, renewals, stale>>

\* ... or at the first of the next burst, nine days later.
Renew(n, t) ==
  /\ IsUp(n) /\ adverts[n][t].timer = "asleep" /\ renewals < MaxRenewals
  /\ renewals' = renewals + 1
  /\ \E lost \in Losses : Multicast("NOTIFY", <<Notify(n, t, TRUE)>>, lost)
  /\ adverts' = [adverts EXCEPT ![n][t] = NextCycle([@ EXCEPT !.timer = "burst"])]
  /\ UNCHANGED <<life, run, map, known, unicast, stale>>

-----------------------------------------------------------------------------
\* OnPacket, for a NOTIFY or for the answer to a search.  A pair that is in
\* m_set is not told again, whatever its location.
Seen(n, p) == \E k \in known[n] : k.udn = p.udn /\ k.type = p.type
Forgets(n, p) == {k \in known[n] : ~(k.udn = p.udn /\ k.type = p.type)}
Learns(n, p) == known[n] \union {[udn |-> p.udn, type |-> p.type, loc |-> p.loc]}

AfterNews_KeptOnByebye(n, p) ==
  IF p.type \notin map[n] \/ ~p.alive \/ Seen(n, p) THEN known[n] ELSE Learns(n, p)
AfterNews(n, p) ==
  IF p.type \notin map[n] THEN known[n]
  ELSE IF ~p.alive THEN Forgets(n, p)
  ELSE IF Seen(n, p) THEN known[n] ELSE Learns(n, p)

OnNews(n, p) ==
  /\ known' = [known EXCEPT ![n] = AfterNews(n, p)]
  /\ UNCHANGED <<unicast, losses>>

\* OnPacket, for a search: an answer, if an advertisement matches (were there
\* several they would send the same words, which tell nothing new).
Answers(n, p) == \E a \in Advertised(n) : MatchServiceType(p.type, a)

OnSearch(n, p) ==
  /\ UNCHANGED known
  /\ IF Answers(n, p) /\ life[p.from] # "off"
     THEN \/ /\ unicast' = [unicast EXCEPT ![p.from] = Append(@, Reply(n, p.type))]
             /\ UNCHANGED losses
          \/ /\ losses < MaxLosses /\ losses' = losses + 1
             /\ UNCHANGED unicast
     ELSE UNCHANGED <<unicast, losses>>

\* OnMulticastActivity reads one packet.
OnMulticastActivity(n) ==
  /\ IsUp(n) /\ multicast[n] # <<>>
  /\ LET p == Head(multicast[n])
     IN IF p.verb = "M-SEARCH" THEN OnSearch(n, p) ELSE OnNews(n, p)
  /\ multicast' = [multicast EXCEPT ![n] = Tail(@)]
  /\ UNCHANGED <<life, run, map, adverts, renewals, stale>>

\* OnSearchActivity reads one packet, the answer to a search.  The destructor
\* takes only the first of the two sockets from the poller, so this one is
\* read, and the callbacks are called, as long as the process runs.  An answer
\* may come out of its socket after the byebye that followed it came out of
\* the other.
IsByebye(q, udn, type, loc) ==
  q.verb = "NOTIFY" /\ q.udn = udn /\ q.type = type /\ q.loc = loc /\ ~q.alive

Overtaken(n, p) ==
  /\ p.type \in Offers[p.udn]
  /\ ~IsUp(p.udn) \/ run[p.udn] # p.loc
  /\ ~\E i \in DOMAIN multicast[n] : IsByebye(multicast[n][i], p.udn, p.type, p.loc)

OnSearchActivity(n) ==
  /\ life[n] # "off" /\ unicast[n] # <<>>
  /\ LET p == Head(unicast[n])
     IN /\ known' = [known EXCEPT ![n] = AfterNews(n, p)]
        /\ stale' = IF Overtaken(n, p) THEN stale \union {<<n, p.udn>>} ELSE stale
  /\ unicast' = [unicast EXCEPT ![n] = Tail(@)]
  /\ UNCHANGED <<life, run, map, adverts, multicast, renewals, losses>>

-----------------------------------------------------------------------------
\* ~Responder: each advertisement says byebye, and the multicast socket is
\* taken from the poller.  (Where the byebye is the third packet of a cycle it
\* arms the timer again, nine days away: the process is long gone by then.)
Byebyes(n) == {Notify(n, t, FALSE) : t \in Advertised(n)}

Shutdown(n) ==
  /\ IsUp(n)
  /\ \E packets \in [1..Cardinality(Byebyes(n)) -> Byebyes(n)], lost \in Losses :
       /\ {packets[i] : i \in DOMAIN packets} = Byebyes(n)
       /\ Multicast("NOTIFY", packets, lost)
       /\ stale' = stale \union {<<c, n>> : c \in lost}
  /\ life' = [life EXCEPT ![n] = "closing"]
  /\ adverts' = [adverts EXCEPT ![n] = [t \in Types |-> [cycle |-> 0, timer |-> "none"]]]
  /\ UNCHANGED <<run, map, known, unicast, renewals>>

\* The process is gone, and with it all it had in memory and in its sockets.
Gone(n) ==
  /\ life' = [life EXCEPT ![n] = "off"]
  /\ map' = [map EXCEPT ![n] = {}]
  /\ known' = [known EXCEPT ![n] = {}]
  /\ adverts' = [adverts EXCEPT ![n] = [t \in Types |-> [cycle |-> 0, timer |-> "none"]]]
  /\ multicast' = [multicast EXCEPT ![n] = <<>>]
  /\ unicast' = [unicast EXCEPT ![n] = <<>>]
  /\ UNCHANGED <<run, renewals, losses>>

Exit(n) == life[n] = "closing" /\ Gone(n) /\ UNCHANGED stale

\* It is killed: nobody is told.
Crash(n) ==
  /\ IsUp(n) /\ Gone(n)
  /\ stale' = stale \union {<<c, n>> : c \in {c \in Nodes \ {n} : IsUp(c)}}

Next ==
  \E n \in Nodes :
    \/ Start(n) \/ OnMulticastActivity(n) \/ OnSearchActivity(n)
    \/ Shutdown(n) \/ Exit(n) \/ Crash(n)
    \/ \E t \in Types : Advertise(n, t) \/ Search(n, t) \/ OnTimer(n, t) \/ Renew(n, t)

\* The poller calls what is readable, and the timers of a burst; when a program
\* starts, advertises, searches, renews or ends is its own affair.
Fairness ==
  \A n \in Nodes :
    /\ WF_vars(OnMulticastActivity(n)) /\ WF_vars(OnSearchActivity(n))
    /\ \A t \in Types : WF_vars(OnTimer(n, t))

Spec == Init /\ [][Next]_vars /\ Fairness
-----------------------------------------------------------------------------
\* Values the variables can have.
TypeOK ==
  /\ life \in [Nodes -> {"off", "up", "closing"}]
  /\ \A n \in Nodes : run[n] \in 0..MaxRuns[n]
  /\ \A n \in Nodes :
       /\ map[n] \subseteq Wants[n]
       /\ \A k \in known[n] : k.udn \in Nodes /\ k.type \in map[n] /\ k.loc \in 1..MaxRuns[k.udn]
       /\ \A t \in Types : adverts[n][t] \in [cycle : 0..2, timer : {"none", "burst", "asleep"}]
  /\ renewals \in 0..MaxRenewals /\ losses \in 0..MaxLosses
  /\ stale \subseteq Nodes \X Nodes

Unread(c) == multicast[c] # <<>> \/ unicast[c] # <<>>
Knows(c, u, t) == \E k \in known[c] : k.udn = u /\ k.type = t

\* What a node believes of a service in the version it is advertised in is true
\* once the node has read its sockets: the service is advertised now, at the
\* location the callback was given.  The exceptions are the ones the code
\* cannot help or does not try to: the device crashed, its byebye was lost, or
\* the answer to a search was read after the byebye that followed it.
KnownIsTrue ==
  /\ TypeOK
  /\ \A c \in Nodes : IsUp(c) /\ ~Unread(c) =>
       \A k \in known[c] : k.type \in Offers[k.udn] /\ <<c, k.udn>> \notin stale =>
         k.type \in Advertised(k.udn) /\ k.loc = run[k.udn]

Searchers == {n \in Nodes : Wants[n] # {}}
Devices == {n \in Nodes : Offers[n] # {}}
BothUp(c, u) == IsUp(c) /\ IsUp(u)
Fresh(u, t) == adverts[u][t] = [cycle |-> 0, timer |-> "burst"]
Asked(c, u, t) == \E i \in DOMAIN multicast[u] : multicast[u][i] = SearchFor(c, t)

\* A service is found.  A node that looked for exactly this type before the
\* first notification finds it though two packets are lost: that is what the
\* burst of three is for.  A node that looks later, or for an older version,
\* has one question and one answer, and finds it if nothing is lost.
Found ==
  \A c \in Searchers, u \in Devices : \A t \in Wants[c] :
    /\ BothUp(c, u) /\ t \in map[c] /\ Fresh(u, t) /\ losses = 0
         ~> Knows(c, u, t) \/ ~BothUp(c, u)
    /\ BothUp(c, u) /\ Asked(c, u, t) /\ (\E a \in Advertised(u) : MatchServiceType(t, a))
         ~> Knows(c, u, t) \/ ~BothUp(c, u) \/ losses > 0
=============================================================================
