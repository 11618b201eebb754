---------------------------- MODULE Network_proofs ----------------------------
(***************************************************************************)
(* The two protocols that the programs speak: SSDP, by which they find one *)
(* another, and HTTP, over which everything else goes.                     *)
(*                                                                         *)
(* What a node believes of the others' services is true, for any number of *)
(* nodes, services, runs, renewals and lost packets.  What an HTTP server  *)
(* answers is answered to the request it belongs to, and what its client   *)
(* tells of an answer is so, for all contents, requests and buffer sizes,  *)
(* and wherever the connection is lost.                                    *)
(***************************************************************************)
EXTENDS Ssdp, HttpSession, FiniteSetTheorems, SequenceTheorems, WellFoundedInduction, TLAPS

(* What can be in a socket.                                                *)
News     == [verb : {"NOTIFY", "200"}, udn : Nodes, loc : Nat, type : Types, alive : BOOLEAN]
Searches == [verb : {"M-SEARCH"}, from : Nodes, type : Types]
Mail     == News \cup Searches

Advert == [cycle : 0..2, timer : {"none", "burst", "asleep"}]
Belief == [udn : Nodes, type : Types, loc : Nat]

Types1 ==
  /\ life \in [Nodes -> {"off", "up", "closing"}]
  /\ run \in [Nodes -> Nat]
  /\ map \in [Nodes -> SUBSET Types]
  /\ known \in [Nodes -> SUBSET Belief]
  /\ adverts \in [Nodes -> [Types -> Advert]]
  /\ multicast \in [Nodes -> Seq(Mail)]
  /\ unicast \in [Nodes -> Seq(News)]
  /\ renewals \in 0..MaxRenewals /\ losses \in 0..MaxLosses
  /\ stale \subseteq Nodes \X Nodes

(* A process has nothing before it starts, and only what it offers and wants *)
(* later.                                                                  *)
NodesBounded ==
  \A n \in Nodes :
    /\ run[n] <= MaxRuns[n]
    /\ life[n] = "off" => map[n] = {} /\ known[n] = {} /\ multicast[n] = <<>> /\ unicast[n] = <<>>
    /\ life[n] # "off" => run[n] >= 1
    /\ map[n] \subseteq Wants[n] /\ Advertised(n) \subseteq Offers[n]
    /\ \A k \in known[n] : k.type \in map[n] /\ k.loc \in 1..run[k.udn]

(* Nobody has heard of a run that has not begun, or of a service that its  *)
(* device does not have.                                                   *)
IsHonest(p) ==
  p.verb # "M-SEARCH" => /\ p.verb = "NOTIFY" /\ p.type \in Offers[p.udn]
                         /\ p.loc \in 1..run[p.udn]

MailBounded ==
  \A c \in Nodes :
    /\ \A i \in DOMAIN multicast[c] :
         /\ IsHonest(multicast[c][i])
         /\ multicast[c][i].verb = "NOTIFY" => Wants[c] # {}
    /\ \A i \in DOMAIN unicast[c] : unicast[c][i].alive /\ unicast[c][i].loc \in 1..run[unicast[c][i].udn]

Bounds == NodesBounded /\ MailBounded

(* A service is there, in this run of its device.                          *)
Current(u, t, l) == IsUp(u) /\ t \in Advertised(u) /\ l = run[u]

(* Its byebye is in the socket, behind packet i.                           *)
Recalled(c, i, u, t, l) ==
  \E j \in DOMAIN multicast[c] : j > i /\ IsByebye(multicast[c][j], u, t, l)

BeliefsHold ==
  \A c \in Nodes : IsUp(c) =>
    \A k \in known[c] : k.type \in Offers[k.udn] /\ <<c, k.udn>> \notin stale =>
      Current(k.udn, k.type, k.loc) \/ Recalled(c, 0, k.udn, k.type, k.loc)

NoticesHold ==
  \A c \in Nodes : IsUp(c) =>
    \A i \in DOMAIN multicast[c] : \A p \in {multicast[c][i]} :
      p.verb = "NOTIFY" /\ p.alive /\ <<c, p.udn>> \notin stale =>
        Current(p.udn, p.type, p.loc) \/ Recalled(c, i, p.udn, p.type, p.loc)

(* An answer was right in the run it came from.                            *)
AnswersHold ==
  \A c \in Nodes : \A i \in DOMAIN unicast[c] : \A p \in {unicast[c][i]} :
    p.type \in Offers[p.udn] /\ IsUp(p.udn) /\ p.loc = run[p.udn] => p.type \in Advertised(p.udn)

IInv == Types1 /\ Bounds /\ BeliefsHold /\ NoticesHold /\ AnswersHold
-----------------------------------------------------------------------------
LEMMA InitEstablishes == Init => IInv
<1> SUFFICES ASSUME Init PROVE IInv
  OBVIOUS
<1> USE SsdpAssumption DEF Init
<1>1. Types1
  BY DEF Types1, Advert
<1>2. Bounds
  BY <1>1 DEF Bounds, NodesBounded, MailBounded, Advertised
<1>3. BeliefsHold /\ NoticesHold /\ AnswersHold
  BY DEF BeliefsHold, NoticesHold, AnswersHold, IsUp
<1> QED BY <1>1, <1>2, <1>3 DEF IInv
-----------------------------------------------------------------------------
(* The ends of a sequence.                                                 *)
LEMMA TailFacts ==
  ASSUME NEW S, NEW q \in Seq(S), q # <<>>
  PROVE  /\ 1 \in DOMAIN q /\ Head(q) = q[1] /\ Tail(q) \in Seq(S)
         /\ \A i \in DOMAIN Tail(q) : i \in Nat /\ i + 1 \in DOMAIN q /\ Tail(q)[i] = q[i + 1]
         /\ \A j \in DOMAIN q : j \in Nat /\ j >= 1 /\ (j > 1 => j - 1 \in DOMAIN Tail(q) /\ Tail(q)[j - 1] = q[j])
<1>1. /\ Head(q) = q[1] /\ Tail(q) \in Seq(S) /\ Len(Tail(q)) = Len(q) - 1
      /\ \A i \in 1..Len(Tail(q)) : Tail(q)[i] = q[i + 1]
  BY HeadTailProperties
<1>2. /\ DOMAIN q = 1..Len(q) /\ Len(q) \in Nat /\ Len(q) # 0
      /\ DOMAIN Tail(q) = 1..Len(Tail(q))
  BY <1>1, LenProperties, EmptySeq
<1> QED BY <1>1, <1>2

LEMMA AppendFacts ==
  ASSUME NEW S, NEW q \in Seq(S), NEW e \in S
  PROVE  /\ Append(q, e) \in Seq(S)
         /\ \A i \in DOMAIN Append(q, e) : Append(q, e)[i] = e \/ (i \in DOMAIN q /\ Append(q, e)[i] = q[i])
<1>1. /\ Append(q, e) \in Seq(S) /\ Len(Append(q, e)) = Len(q) + 1
      /\ \A i \in 1..Len(q) : Append(q, e)[i] = q[i]
      /\ Append(q, e)[Len(q) + 1] = e
  BY AppendProperties
<1>2. /\ DOMAIN q = 1..Len(q) /\ Len(q) \in Nat
      /\ DOMAIN Append(q, e) = 1..Len(Append(q, e))
  BY <1>1, LenProperties
<1> QED BY <1>1, <1>2

(* What is in a socket is what its type says.                              *)
LEMMA MailIsTyped ==
  ASSUME Types1, NEW c \in Nodes
  PROVE  /\ \A i \in DOMAIN multicast[c] : multicast[c][i] \in Mail /\ i \in Nat /\ i > 0
         /\ \A i \in DOMAIN unicast[c] : unicast[c][i] \in News
<1>1. multicast[c] \in Seq(Mail) /\ unicast[c] \in Seq(News)
  BY DEF Types1
<1>2. /\ DOMAIN multicast[c] = 1..Len(multicast[c]) /\ Len(multicast[c]) \in Nat
      /\ DOMAIN unicast[c] = 1..Len(unicast[c])
  BY <1>1, LenProperties
<1>3. \A i \in DOMAIN multicast[c] : multicast[c][i] \in Mail
  BY <1>1, <1>2, ElementOfSeq
<1>4. \A i \in DOMAIN unicast[c] : unicast[c][i] \in News
  BY <1>1, <1>2, ElementOfSeq
<1> QED BY <1>2, <1>3, <1>4

(* What a socket holds stays where it is, behind what comes in.            *)
Grows(c) ==
  \A i \in DOMAIN multicast[c] : i \in DOMAIN multicast'[c] /\ multicast'[c][i] = multicast[c][i]

(* What a step brings into a socket is one of packets.                     *)
Brings(c, packets) ==
  \A i \in DOMAIN multicast'[c] :
    i \in DOMAIN multicast[c] \/ \E m \in DOMAIN packets : multicast'[c][i] = packets[m]

(* All of packets come in, behind what is there.                           *)
Arrive(c, packets) ==
  \A i \in DOMAIN multicast[c] \cup {0}, m \in DOMAIN packets :
    \E j \in DOMAIN multicast'[c] : j > i /\ multicast'[c][j] = packets[m]

LEMMA MulticastFacts ==
  ASSUME Types1, NEW verb, NEW packets \in Seq(Mail), NEW lost \in Losses, Multicast(verb, packets, lost)
  PROVE  /\ multicast' \in [Nodes -> Seq(Mail)] /\ losses' \in 0..MaxLosses
         /\ \A c \in Nodes : Grows(c) /\ Brings(c, packets)
         /\ \A c \in Nodes : ~Hears(c, verb) => multicast'[c] = multicast[c]
         /\ \A c \in Nodes : Hears(c, verb) /\ c \notin lost => Arrive(c, packets)
<1>1. losses' \in 0..MaxLosses
  <2>1. IsFiniteSet(lost)
    BY SsdpAssumption, FS_Subset DEF Losses
  <2>2. Cardinality(lost) \in Nat
    BY <2>1, FS_CardinalityType
  <2> QED BY <2>2, SsdpAssumption DEF Multicast, Losses, Types1
<1>2. ASSUME NEW c \in Nodes
      PROVE  /\ multicast'[c] \in Seq(Mail) /\ Grows(c) /\ Brings(c, packets)
             /\ ~Hears(c, verb) => multicast'[c] = multicast[c]
             /\ Hears(c, verb) /\ c \notin lost => Arrive(c, packets)
  <2> DEFINE q == multicast[c]
             r == multicast'[c]
  <2>1. q \in Seq(Mail) /\ r = IF Hears(c, verb) /\ c \notin lost THEN q \o packets ELSE q
    BY DEF Types1, Multicast
  <2> HIDE DEF q, r
  <2>2. /\ DOMAIN q = 1..Len(q) /\ Len(q) \in Nat
        /\ DOMAIN packets = 1..Len(packets) /\ Len(packets) \in Nat
    BY <2>1, LenProperties
  <2>3. CASE Hears(c, verb) /\ c \notin lost
    <3>1. /\ r \in Seq(Mail) /\ DOMAIN r = 1..(Len(q) + Len(packets))
          /\ \A i \in 1..(Len(q) + Len(packets)) : r[i] = IF i <= Len(q) THEN q[i] ELSE packets[i - Len(q)]
      BY <2>1, <2>3, ConcatProperties, LenProperties
    <3>2. \A i \in DOMAIN q : i \in DOMAIN r /\ r[i] = q[i]
      BY <2>2, <3>1
    <3>3. \A i \in DOMAIN r : i \in DOMAIN q \/ (i - Len(q) \in DOMAIN packets /\ r[i] = packets[i - Len(q)])
      BY <2>2, <3>1
    <3>4. ASSUME NEW i \in DOMAIN q \cup {0}, NEW m \in DOMAIN packets
          PROVE  \E j \in DOMAIN r : j > i /\ r[j] = packets[m]
      <4>1. Len(q) + m \in DOMAIN r /\ Len(q) + m > i /\ r[Len(q) + m] = packets[m]
        BY <2>2, <3>1
      <4> QED BY <4>1
    <3> QED BY <2>3, <3>1, <3>2, <3>3, <3>4 DEF Grows, Brings, Arrive, q, r
  <2>4. CASE ~(Hears(c, verb) /\ c \notin lost)
    BY <2>1, <2>4 DEF Grows, Brings, q, r
  <2> QED BY <2>3, <2>4
<1>3. multicast' \in [Nodes -> Seq(Mail)]
  BY <1>2 DEF Multicast
<1> QED BY <1>1, <1>2, <1>3

(* What was recalled still is when the socket has grown.                   *)
LEMMA RecalledStays ==
  ASSUME NEW c, Grows(c), NEW i, NEW u, NEW t, NEW l, Recalled(c, i, u, t, l)
  PROVE  Recalled(c, i, u, t, l)'
  BY DEF Recalled, Grows

(* Steps in which nobody comes or goes, and what comes into the sockets is *)
(* searches and news of what is there.                                     *)
LEMMA NewsKeeps ==
  ASSUME IInv, UNCHANGED <<life, run, known, stale, unicast>>,
         \A n \in Nodes : Advertised(n) \subseteq Advertised(n)',
         NEW packets, \A c \in Nodes : Grows(c) /\ Brings(c, packets),
         \A m \in DOMAIN packets : \A p \in {packets[m]} :
           p.verb = "NOTIFY" => Current(p.udn, p.type, p.loc)'
  PROVE  BeliefsHold' /\ NoticesHold' /\ AnswersHold'
<1> USE DEF IInv
<1>1. ASSUME NEW u \in Nodes, NEW t, NEW l, Current(u, t, l) PROVE Current(u, t, l)'
  BY <1>1 DEF Current, IsUp
<1>2. BeliefsHold'
  <2> SUFFICES ASSUME NEW c \in Nodes, IsUp(c)', NEW k \in known[c],
                      k.type \in Offers[k.udn], <<c, k.udn>> \notin stale
               PROVE  Current(k.udn, k.type, k.loc)' \/ Recalled(c, 0, k.udn, k.type, k.loc)'
    BY DEF BeliefsHold
  <2>1. Current(k.udn, k.type, k.loc) \/ Recalled(c, 0, k.udn, k.type, k.loc)
    BY DEF BeliefsHold, IsUp
  <2>2. k.udn \in Nodes
    BY DEF Types1, Belief
  <2> QED BY <1>1, <2>1, <2>2, RecalledStays
<1>3. NoticesHold'
  <2> SUFFICES ASSUME NEW c \in Nodes, IsUp(c)', NEW i \in DOMAIN multicast'[c], NEW p, p = multicast'[c][i],
                      p.verb = "NOTIFY", p.alive, <<c, p.udn>> \notin stale
               PROVE  Current(p.udn, p.type, p.loc)' \/ Recalled(c, i, p.udn, p.type, p.loc)'
    BY DEF NoticesHold
  <2>1. CASE i \in DOMAIN multicast[c]
    <3>1. multicast[c][i] = p
      BY <2>1 DEF Grows
    <3>2. Current(p.udn, p.type, p.loc) \/ Recalled(c, i, p.udn, p.type, p.loc)
      BY <2>1, <3>1 DEF NoticesHold, IsUp
    <3>3. p.udn \in Nodes
      <4>1. p \in Mail
        BY <2>1, <3>1, MailIsTyped
      <4> QED BY <4>1 DEF Mail, News, Searches
    <3> QED BY <1>1, <3>2, <3>3, RecalledStays
  <2>2. CASE i \notin DOMAIN multicast[c]
    <3>1. PICK m \in DOMAIN packets : p = packets[m]
      BY <2>2 DEF Brings
    <3> QED BY <3>1
  <2> QED BY <2>1, <2>2
<1>4. AnswersHold'
  <2> SUFFICES ASSUME NEW c \in Nodes, NEW i \in DOMAIN unicast[c], NEW p, p = unicast[c][i],
                      p.type \in Offers[p.udn], IsUp(p.udn)', p.loc = run[p.udn]
               PROVE  p.type \in Advertised(p.udn)'
    BY DEF AnswersHold
  <2>1. p.udn \in Nodes
    <3>1. p \in News
      BY MailIsTyped
    <3> QED BY <3>1 DEF News
  <2> QED BY <2>1 DEF AnswersHold, IsUp
<1> QED BY <1>2, <1>3, <1>4
-----------------------------------------------------------------------------
(* What a step that sends keeps of the bounds.                             *)
LEMMA MailStaysBounded ==
  ASSUME IInv, UNCHANGED <<run, unicast>>, NEW packets,
         \A c \in Nodes : Grows(c) /\ Brings(c, packets),
         \A m \in DOMAIN packets : IsHonest(packets[m]),
         \A c \in Nodes : (\E m \in DOMAIN packets : packets[m].verb = "NOTIFY") =>
           Wants[c] # {} \/ multicast'[c] = multicast[c]
  PROVE  MailBounded'
<1>1. ASSUME NEW p, IsHonest(p) PROVE IsHonest(p)'
  BY <1>1 DEF IsHonest
<1>2. ASSUME NEW c \in Nodes, NEW i \in DOMAIN multicast'[c], NEW p, p = multicast'[c][i]
      PROVE  IsHonest(p)' /\ (p.verb = "NOTIFY" => Wants[c] # {})
  <2>1. CASE i \in DOMAIN multicast[c]
    <3>1. p = multicast[c][i]
      BY <1>2, <2>1 DEF Grows
    <3>2. IsHonest(p) /\ (p.verb = "NOTIFY" => Wants[c] # {})
      BY <2>1, <3>1 DEF IInv, Bounds, MailBounded
    <3> QED BY <1>1, <3>2
  <2>2. CASE i \notin DOMAIN multicast[c]
    <3>1. PICK m \in DOMAIN packets : p = packets[m]
      BY <1>2, <2>2 DEF Brings
    <3>2. multicast'[c] # multicast[c]
      BY <2>2
    <3>3. IsHonest(p)
      BY <3>1
    <3> QED BY <1>1, <3>1, <3>2, <3>3
  <2> QED BY <2>1, <2>2
<1>3. \A c \in Nodes : \A i \in DOMAIN unicast'[c] :
        unicast'[c][i].alive /\ unicast'[c][i].loc \in 1..run'[unicast'[c][i].udn]
  BY DEF IInv, Bounds, MailBounded
<1>4. \A c \in Nodes : \A i \in DOMAIN multicast'[c] :
        (multicast'[c][i].verb = "NOTIFY" => Wants[c] # {}) /\ IsHonest(multicast[c][i])'
  BY <1>2 DEF IsHonest
<1> QED BY <1>3, <1>4 DEF MailBounded

LEMMA SingleFacts ==
  ASSUME NEW p \in Mail
  PROVE  <<p>> \in Seq(Mail) /\ DOMAIN <<p>> = {1} /\ <<p>>[1] = p
  OBVIOUS

LEMMA StartKeeps ==
  ASSUME IInv, NEW n \in Nodes, Start(n)
  PROVE  IInv'
<1> USE SsdpAssumption DEF IInv, Start
<1>1. Types1'
  BY SMTT(20) DEF Types1
<1>2. /\ life'[n] = "up" /\ run'[n] = run[n] + 1 /\ run[n] \in Nat
      /\ \A c \in Nodes \ {n} : life'[c] = life[c] /\ run'[c] = run[c]
      /\ \A c \in Nodes : run'[c] \in Nat /\ run[c] \in Nat /\ run'[c] >= run[c]
      /\ map[n] = {} /\ known[n] = {} /\ multicast[n] = <<>> /\ unicast[n] = <<>>
  BY DEF Types1, Bounds, NodesBounded
<1>3. NodesBounded'
  <2>1. ASSUME NEW c \in Nodes, NEW k \in known[c] PROVE k.type \in map[c] /\ k.loc \in 1..run'[k.udn]
    <3>1. k.udn \in Nodes
      BY DEF Types1, Belief
    <3> QED BY <1>2, <3>1 DEF Bounds, NodesBounded
  <2> QED BY <1>2, <2>1 DEF Bounds, NodesBounded, Advertised
<1>4. MailBounded'
  <2>1. ASSUME NEW c \in Nodes, NEW i \in DOMAIN multicast[c] PROVE IsHonest(multicast[c][i])'
    <3>1. multicast[c][i] \in Mail /\ IsHonest(multicast[c][i])
      BY MailIsTyped DEF Bounds, MailBounded
    <3> QED BY <1>2, <3>1 DEF Mail, News, Searches, IsHonest
  <2>2. ASSUME NEW c \in Nodes, NEW i \in DOMAIN unicast[c] PROVE unicast[c][i].loc \in 1..run'[unicast[c][i].udn]
    <3>1. unicast[c][i] \in News
      BY MailIsTyped
    <3> QED BY <1>2, <3>1 DEF News, Bounds, MailBounded
  <2> QED BY <2>1, <2>2 DEF Bounds, MailBounded
<1>5. ASSUME NEW u \in Nodes, NEW t, NEW l, Current(u, t, l) PROVE Current(u, t, l)'
  BY <1>2, <1>5 DEF Current, IsUp, Advertised
<1>6. BeliefsHold'
  <2> SUFFICES ASSUME NEW c \in Nodes, IsUp(c)', NEW k \in known[c],
                      k.type \in Offers[k.udn], <<c, k.udn>> \notin stale
               PROVE  Current(k.udn, k.type, k.loc)' \/ Recalled(c, 0, k.udn, k.type, k.loc)'
    BY DEF BeliefsHold
  <2>1. IsUp(c) /\ k.udn \in Nodes
    BY <1>2 DEF IsUp, Types1, Belief
  <2> QED BY <1>5, <2>1 DEF BeliefsHold, Recalled
<1>7. NoticesHold'
  <2> SUFFICES ASSUME NEW c \in Nodes, IsUp(c)', NEW i \in DOMAIN multicast[c], NEW p, p = multicast[c][i],
                      p.verb = "NOTIFY", p.alive, <<c, p.udn>> \notin stale
               PROVE  Current(p.udn, p.type, p.loc)' \/ Recalled(c, i, p.udn, p.type, p.loc)'
    BY DEF NoticesHold
  <2>1. IsUp(c)
    BY <1>2 DEF IsUp
  <2>2. p.udn \in Nodes
    BY MailIsTyped DEF Mail, News, Searches
  <2> QED BY <1>5, <2>1, <2>2 DEF NoticesHold, Recalled
<1>8. AnswersHold'
  <2> SUFFICES ASSUME NEW c \in Nodes, NEW i \in DOMAIN unicast[c], NEW p, p = unicast[c][i],
                      p.type \in Offers[p.udn], IsUp(p.udn)', p.loc = run'[p.udn]
               PROVE  p.type \in Advertised(p.udn)'
    BY DEF AnswersHold
  <2>1. p.udn \in Nodes /\ p.loc \in 1..run[p.udn]
    BY MailIsTyped DEF News, Bounds, MailBounded
  <2>2. p.udn # n
    BY <1>2, <2>1
  <2>3. IsUp(p.udn) /\ p.loc = run[p.udn]
    BY <1>2, <2>1, <2>2 DEF IsUp
  <2> QED BY <2>3 DEF AnswersHold, Advertised
<1> QED BY <1>1, <1>3, <1>4, <1>6, <1>7, <1>8 DEF Bounds

LEMMA AdvertiseKeeps ==
  ASSUME IInv, NEW n \in Nodes, NEW t \in Types, Advertise(n, t)
  PROVE  IInv'
<1> USE SsdpAssumption DEF IInv, Advertise
<1>1. Types1'
  BY DEF Types1, Advert
<1>2. /\ Advertised(n)' = Advertised(n) \cup {t}
      /\ \A c \in Nodes \ {n} : Advertised(c)' = Advertised(c)
  BY DEF Advertised, Types1
<1>3. NodesBounded'
  BY <1>2, SMTT(20) DEF Bounds, NodesBounded
<1>4. /\ \A c \in Nodes : Grows(c) /\ Brings(c, <<>>)
      /\ DOMAIN <<>> = {}
  BY DEF Grows, Brings
<1>5. MailBounded'
  BY DEF Bounds, MailBounded, IsHonest
<1>6. \A c \in Nodes : Advertised(c) \subseteq Advertised(c)'
  BY <1>2
<1>7. BeliefsHold' /\ NoticesHold' /\ AnswersHold'
  BY <1>4, <1>6, NewsKeeps
<1> QED BY <1>1, <1>3, <1>5, <1>7 DEF Bounds

LEMMA SearchKeeps ==
  ASSUME IInv, NEW n \in Nodes, NEW t \in Types, Search(n, t)
  PROVE  IInv'
<1> USE SsdpAssumption DEF IInv, Search
<1> DEFINE packets == <<SearchFor(n, t)>>
<1>1. PICK lost \in Losses : Multicast("M-SEARCH", packets, lost)
  OBVIOUS
<1>2. packets \in Seq(Mail) /\ DOMAIN packets = {1} /\ packets[1].verb = "M-SEARCH"
  BY SingleFacts DEF SearchFor, Mail, Searches
<1> HIDE DEF packets
<1>3. /\ multicast' \in [Nodes -> Seq(Mail)] /\ losses' \in 0..MaxLosses
      /\ \A c \in Nodes : Grows(c) /\ Brings(c, packets)
      /\ \A c \in Nodes : ~Hears(c, "M-SEARCH") => multicast'[c] = multicast[c]
  BY <1>1, <1>2, MulticastFacts
<1>4. Types1'
  BY <1>3 DEF Types1
<1>5. NodesBounded'
  BY <1>3 DEF Bounds, NodesBounded, Advertised, Hears, IsUp, Types1
<1>6. MailBounded'
  <2>1. \A m \in DOMAIN packets : IsHonest(packets[m]) /\ packets[m].verb # "NOTIFY"
    BY <1>2 DEF IsHonest
  <2> QED BY <1>3, <2>1, MailStaysBounded
<1>7. BeliefsHold' /\ NoticesHold' /\ AnswersHold'
  <2>1. \A c \in Nodes : Advertised(c) \subseteq Advertised(c)'
    BY DEF Advertised
  <2>2. \A m \in DOMAIN packets : \A p \in {packets[m]} : p.verb = "NOTIFY" => Current(p.udn, p.type, p.loc)'
    BY <1>2
  <2> QED BY <1>3, <2>1, <2>2, NewsKeeps
<1> QED BY <1>4, <1>5, <1>6, <1>7 DEF Bounds

(* A notification of a timer, in a burst or after a renewal.               *)
LEMMA NotifyKeeps ==
  ASSUME IInv, NEW n \in Nodes, NEW t \in Types, IsUp(n), adverts[n][t].timer # "none",
         NEW a \in Advert, a.timer # "none", adverts' = [adverts EXCEPT ![n][t] = a],
         \E lost \in Losses : Multicast("NOTIFY", <<Notify(n, t, TRUE)>>, lost),
         UNCHANGED <<life, run, map, known, unicast, stale>>, renewals' \in 0..MaxRenewals
  PROVE  IInv'
<1> USE SsdpAssumption DEF IInv
<1> DEFINE p == Notify(n, t, TRUE)
           packets == <<p>>
<1>1. PICK lost \in Losses : Multicast("NOTIFY", packets, lost)
  OBVIOUS
<1>2. /\ p \in Mail /\ p.verb = "NOTIFY" /\ p.udn = n /\ p.type = t /\ p.loc = run[n] /\ p.alive
      /\ run[n] \in Nat /\ run[n] >= 1
  BY DEF Notify, Mail, News, Types1, Bounds, NodesBounded, IsUp
<1> HIDE DEF p
<1>3. packets \in Seq(Mail) /\ DOMAIN packets = {1} /\ packets[1] = p
  BY <1>2, SingleFacts
<1> HIDE DEF packets
<1>4. /\ multicast' \in [Nodes -> Seq(Mail)] /\ losses' \in 0..MaxLosses
      /\ \A c \in Nodes : Grows(c) /\ Brings(c, packets)
      /\ \A c \in Nodes : ~Hears(c, "NOTIFY") => multicast'[c] = multicast[c]
  BY <1>1, <1>3, MulticastFacts
<1>5. \A c \in Nodes : Advertised(c)' = Advertised(c)
  BY DEF Advertised, Types1
<1>6. t \in Advertised(n) /\ t \in Offers[n]
  BY DEF Advertised, Bounds, NodesBounded
<1>7. Types1'
  BY <1>4 DEF Types1
<1>8. NodesBounded'
  BY <1>4, <1>5 DEF Bounds, NodesBounded, Hears, IsUp
<1>9. MailBounded'
  <2>1. \A m \in DOMAIN packets : IsHonest(packets[m])
    BY <1>2, <1>3, <1>6 DEF IsHonest
  <2> QED BY <1>4, <2>1, MailStaysBounded DEF Hears
<1>10. BeliefsHold' /\ NoticesHold' /\ AnswersHold'
  <2>1. \A m \in DOMAIN packets : \A q \in {packets[m]} : Current(q.udn, q.type, q.loc)'
    BY <1>2, <1>3, <1>5, <1>6 DEF Current, IsUp
  <2> QED BY <1>4, <1>5, <2>1, NewsKeeps
<1> QED BY <1>7, <1>8, <1>9, <1>10 DEF Bounds

LEMMA OnTimerKeeps ==
  ASSUME IInv, NEW n \in Nodes, NEW t \in Types, OnTimer(n, t)
  PROVE  IInv'
<1> DEFINE a == NextCycle(adverts[n][t])
<1>1. adverts[n][t] \in Advert /\ renewals \in 0..MaxRenewals
  BY DEF IInv, Types1
<1>2. a \in Advert /\ a.timer # "none" /\ adverts' = [adverts EXCEPT ![n][t] = a]
  BY <1>1 DEF OnTimer, NextCycle, Advert
<1> HIDE DEF a
<1> QED BY <1>1, <1>2, NotifyKeeps DEF OnTimer

LEMMA RenewKeeps ==
  ASSUME IInv, NEW n \in Nodes, NEW t \in Types, Renew(n, t)
  PROVE  IInv'
<1> DEFINE b == [adverts[n][t] EXCEPT !.timer = "burst"]
           a == NextCycle(b)
<1>1. adverts[n][t] \in Advert /\ renewals' \in 0..MaxRenewals
  BY SsdpAssumption DEF IInv, Types1, Renew
<1>2. b \in Advert /\ b.timer = "burst"
  BY <1>1 DEF Advert
<1>3. adverts' = [adverts EXCEPT ![n][t] = a]
  BY DEF Renew
<1>4. a \in Advert /\ a.timer # "none"
  <2> HIDE DEF b
  <2> QED BY <1>2 DEF NextCycle, Advert
<1> HIDE DEF a
<1> QED BY <1>1, <1>3, <1>4, NotifyKeeps DEF Renew
-----------------------------------------------------------------------------
(* What is read is news that nodes may believe.                            *)
LEMMA AfterNewsFacts ==
  ASSUME Types1, NodesBounded, NEW n \in Nodes, NEW p \in News, p.loc \in 1..run[p.udn],
         known' = [known EXCEPT ![n] = AfterNews(n, p)]
  PROVE  /\ known' \in [Nodes -> SUBSET Belief]
         /\ \A k \in known'[n] : k.type \in map[n] /\ k.loc \in 1..run[k.udn]
         /\ \A c \in Nodes \ {n} : known'[c] = known[c]
         /\ p.type \in map[n] /\ ~p.alive => \A k \in known'[n] : k.udn # p.udn \/ k.type # p.type
         /\ \A k \in known'[n] : k \notin known[n] =>
              p.alive /\ k.udn = p.udn /\ k.type = p.type /\ k.loc = p.loc
<1>1. known[n] \subseteq Belief /\ known'[n] = AfterNews(n, p)
  BY DEF Types1
<1>2. [udn |-> p.udn, type |-> p.type, loc |-> p.loc] \in Belief
  BY DEF Belief, News
<1>3. \A k \in known[n] : k.type \in map[n] /\ k.loc \in 1..run[k.udn]
  BY DEF NodesBounded
<1>4. AfterNews(n, p) \subseteq Belief
  BY <1>1, <1>2 DEF AfterNews, Forgets, Learns
<1>5. known' \in [Nodes -> SUBSET Belief]
  BY <1>4 DEF Types1
<1>6. \A k \in known'[n] : k \notin known[n] =>
        /\ p.alive /\ k.udn = p.udn /\ k.type = p.type /\ k.loc = p.loc
        /\ p.type \in map[n]
  BY <1>1 DEF AfterNews, Forgets, Learns
<1>7. p.type \in map[n] /\ ~p.alive => \A k \in known'[n] : k.udn # p.udn \/ k.type # p.type
  BY <1>1 DEF AfterNews, Forgets
<1>8. \A c \in Nodes \ {n} : known'[c] = known[c]
  BY DEF Types1
<1>9. \A k \in known'[n] : k.type \in map[n] /\ k.loc \in 1..run[k.udn]
  BY <1>3, <1>6
<1> QED BY <1>5, <1>6, <1>7, <1>8, <1>9

(* What one packet out of the multicast socket does to the two sets of     *)
(* news it may change.                                                     *)
LEMMA ReadFacts ==
  ASSUME IInv, NEW n \in Nodes, OnMulticastActivity(n), NEW p, p = Head(multicast[n])
  PROVE  /\ p = multicast[n][1] /\ 1 \in DOMAIN multicast[n]
         /\ multicast' \in [Nodes -> Seq(Mail)]
         /\ \A c \in Nodes \ {n} : multicast'[c] = multicast[c] /\ known'[c] = known[c]
         /\ \A i \in DOMAIN multicast'[n] :
              i \in Nat /\ i + 1 \in DOMAIN multicast[n] /\ multicast'[n][i] = multicast[n][i + 1]
         /\ \A j \in DOMAIN multicast[n] :
              j \in Nat /\ j >= 1 /\ (j > 1 => j - 1 \in DOMAIN multicast'[n] /\ multicast'[n][j - 1] = multicast[n][j])
         /\ known' \in [Nodes -> SUBSET Belief]
         /\ \A k \in known'[n] : k.type \in map[n] /\ k.loc \in 1..run[k.udn]
         /\ p.verb # "M-SEARCH" /\ p.type \in map[n] /\ ~p.alive =>
              \A k \in known'[n] : k.udn # p.udn \/ k.type # p.type
         /\ \A k \in known'[n] : k \notin known[n] =>
              p.verb = "NOTIFY" /\ p.alive /\ k.udn = p.udn /\ k.type = p.type /\ k.loc = p.loc
<1> USE DEF IInv
<1>1. multicast[n] \in Seq(Mail) /\ multicast[n] # <<>> /\ multicast' = [multicast EXCEPT ![n] = Tail(@)]
  BY DEF Types1, OnMulticastActivity
<1>2. /\ 1 \in DOMAIN multicast[n] /\ p = multicast[n][1] /\ Tail(multicast[n]) \in Seq(Mail)
      /\ \A i \in DOMAIN Tail(multicast[n]) :
           i \in Nat /\ i + 1 \in DOMAIN multicast[n] /\ Tail(multicast[n])[i] = multicast[n][i + 1]
      /\ \A j \in DOMAIN multicast[n] :
           j \in Nat /\ j >= 1 /\ (j > 1 => j - 1 \in DOMAIN Tail(multicast[n]) /\ Tail(multicast[n])[j - 1] = multicast[n][j])
  BY <1>1, TailFacts
<1>3. /\ multicast' \in [Nodes -> Seq(Mail)] /\ multicast'[n] = Tail(multicast[n])
      /\ \A c \in Nodes \ {n} : multicast'[c] = multicast[c]
  BY <1>1, <1>2 DEF Types1
<1>4. CASE p.verb = "M-SEARCH"
  <2>1. known' = known
    BY <1>4 DEF OnMulticastActivity, OnSearch
  <2> QED BY <1>2, <1>3, <1>4, <2>1 DEF Types1, Bounds, NodesBounded
<1>5. CASE p.verb # "M-SEARCH"
  <2>1. known' = [known EXCEPT ![n] = AfterNews(n, p)]
    BY <1>5 DEF OnMulticastActivity, OnNews
  <2>2. p \in Mail /\ p.verb = "NOTIFY" /\ p.loc \in 1..run[p.udn]
    BY <1>2, <1>5, MailIsTyped DEF Bounds, MailBounded, IsHonest
  <2>3. p \in News
    BY <1>5, <2>2 DEF Mail, Searches
  <2>4. /\ known' \in [Nodes -> SUBSET Belief]
        /\ \A k \in known'[n] : k.type \in map[n] /\ k.loc \in 1..run[k.udn]
        /\ \A c \in Nodes \ {n} : known'[c] = known[c]
        /\ p.type \in map[n] /\ ~p.alive => \A k \in known'[n] : k.udn # p.udn \/ k.type # p.type
        /\ \A k \in known'[n] : k \notin known[n] =>
             p.alive /\ k.udn = p.udn /\ k.type = p.type /\ k.loc = p.loc
    BY <2>1, <2>2, <2>3, AfterNewsFacts, ZenonT(30) DEF Bounds
  <2> QED BY <1>2, <1>3, <2>2, <2>4
<1> QED BY <1>4, <1>5

(* An answer tells of the service in the version that is advertised, if it *)
(* is one that the device has.                                             *)
LEMMA AnswerFacts ==
  ASSUME IInv, NEW n \in Nodes, OnMulticastActivity(n)
  PROVE  /\ unicast' \in [Nodes -> Seq(News)] /\ losses' \in 0..MaxLosses
         /\ \A c \in Nodes : unicast'[c] # unicast[c] => life[c] # "off"
         /\ \A c \in Nodes : \A i \in DOMAIN unicast'[c] : \A q \in {unicast'[c][i]} :
              \/ i \in DOMAIN unicast[c] /\ q = unicast[c][i]
              \/ /\ q.alive /\ q.udn = n /\ q.loc = run[n]
                 /\ q.type \in Offers[n] => q.type \in Advertised(n)
<1> USE SsdpAssumption DEF IInv
<1> DEFINE p == Head(multicast[n])
<1>1. multicast[n] \in Seq(Mail) /\ multicast[n] # <<>>
  BY DEF Types1, OnMulticastActivity
<1>2. p = multicast[n][1] /\ 1 \in DOMAIN multicast[n]
  BY <1>1, TailFacts
<1>3. p \in Mail
  BY <1>2, MailIsTyped
<1> HIDE DEF p
<1>4. CASE UNCHANGED <<unicast, losses>>
  BY <1>4 DEF Types1
<1>5. CASE /\ p.verb = "M-SEARCH" /\ Answers(n, p) /\ life[p.from] # "off"
           /\ unicast' = [unicast EXCEPT ![p.from] = Append(@, Reply(n, p.type))] /\ losses' = losses
  <2>1. p.from \in Nodes /\ p.type \in Types
    BY <1>3, <1>5 DEF Mail, News, Searches
  <2> DEFINE r == Reply(n, p.type)
  <2>2. r \in News /\ r.alive /\ r.udn = n /\ r.loc = run[n] /\ r.type = p.type
    BY <2>1 DEF Reply, News, Types1
  <2>3. r.type \in Offers[n] => r.type \in Advertised(n)
    <3>1. PICK a \in Advertised(n) : p.type[1] = a[1]
      BY <1>5 DEF Answers, MatchServiceType
    <3>2. a \in Offers[n]
      BY DEF Bounds, NodesBounded
    <3> QED BY <2>2, <3>1, <3>2
  <2> HIDE DEF r
  <2>4. unicast' = [unicast EXCEPT ![p.from] = Append(@, r)]
    BY <1>5 DEF r
  <2>5. /\ Append(unicast[p.from], r) \in Seq(News)
        /\ \A i \in DOMAIN Append(unicast[p.from], r) :
             Append(unicast[p.from], r)[i] = r \/ (i \in DOMAIN unicast[p.from] /\ Append(unicast[p.from], r)[i] = unicast[p.from][i])
    BY <2>1, <2>2, AppendFacts DEF Types1
  <2>6. /\ unicast' \in [Nodes -> Seq(News)] /\ losses' \in 0..MaxLosses
        /\ unicast'[p.from] = Append(unicast[p.from], r)
        /\ \A c \in Nodes \ {p.from} : unicast'[c] = unicast[c]
    BY <1>5, <2>1, <2>4, <2>5 DEF Types1
  <2> QED BY <1>5, <2>2, <2>3, <2>5, <2>6
<1>6. CASE unicast' = unicast /\ losses < MaxLosses /\ losses' = losses + 1
  BY <1>6 DEF Types1
<1> QED BY <1>4, <1>5, <1>6 DEF OnMulticastActivity, OnSearch, OnNews, p

LEMMA OnMulticastActivityKeeps ==
  ASSUME IInv, NEW n \in Nodes, OnMulticastActivity(n)
  PROVE  IInv'
<1> USE SsdpAssumption DEF IInv
<1> DEFINE p == Head(multicast[n])
<1>1. /\ p = multicast[n][1] /\ 1 \in DOMAIN multicast[n]
      /\ multicast' \in [Nodes -> Seq(Mail)]
      /\ \A c \in Nodes \ {n} : multicast'[c] = multicast[c] /\ known'[c] = known[c]
      /\ \A i \in DOMAIN multicast'[n] :
           i \in Nat /\ i + 1 \in DOMAIN multicast[n] /\ multicast'[n][i] = multicast[n][i + 1]
      /\ \A j \in DOMAIN multicast[n] :
           j \in Nat /\ j >= 1 /\ (j > 1 => j - 1 \in DOMAIN multicast'[n] /\ multicast'[n][j - 1] = multicast[n][j])
      /\ known' \in [Nodes -> SUBSET Belief]
      /\ \A k \in known'[n] : k.type \in map[n] /\ k.loc \in 1..run[k.udn]
      /\ p.verb # "M-SEARCH" /\ p.type \in map[n] /\ ~p.alive =>
           \A k \in known'[n] : k.udn # p.udn \/ k.type # p.type
      /\ \A k \in known'[n] : k \notin known[n] =>
           p.verb = "NOTIFY" /\ p.alive /\ k.udn = p.udn /\ k.type = p.type /\ k.loc = p.loc
  BY ReadFacts, ZenonT(60)
<1> HIDE DEF p
<1>2. /\ unicast' \in [Nodes -> Seq(News)] /\ losses' \in 0..MaxLosses
      /\ \A c \in Nodes : unicast'[c] # unicast[c] => life[c] # "off"
      /\ \A c \in Nodes : \A i \in DOMAIN unicast'[c] : \A q \in {unicast'[c][i]} :
           \/ i \in DOMAIN unicast[c] /\ q = unicast[c][i]
           \/ /\ q.alive /\ q.udn = n /\ q.loc = run[n]
              /\ q.type \in Offers[n] => q.type \in Advertised(n)
  BY AnswerFacts
<1>3. /\ IsUp(n) /\ life[n] = "up" /\ run[n] \in Nat /\ run[n] >= 1
      /\ UNCHANGED <<life, run, map, adverts, renewals, stale>>
  BY DEF OnMulticastActivity, IsUp, Bounds, NodesBounded, Types1
<1>4. Types1'
  BY <1>1, <1>2, <1>3 DEF Types1
<1>5. NodesBounded'
  <2>1. ASSUME NEW c \in Nodes
        PROVE  /\ life[c] = "off" => map[c] = {} /\ known'[c] = {} /\ multicast'[c] = <<>> /\ unicast'[c] = <<>>
               /\ \A k \in known'[c] : k.type \in map[c] /\ k.loc \in 1..run[k.udn]
    <3>1. CASE c = n
      BY <1>1, <1>3, <3>1
    <3>2. CASE c # n
      <4>1. multicast'[c] = multicast[c] /\ known'[c] = known[c] /\ (unicast'[c] = unicast[c] \/ life[c] # "off")
        BY <1>1, <1>2, <3>2
      <4> QED BY <4>1 DEF Bounds, NodesBounded
    <3> QED BY <3>1, <3>2
  <2>2. \A c \in Nodes : Advertised(c)' = Advertised(c)
    BY <1>3 DEF Advertised
  <2> QED BY <1>3, <2>1, <2>2 DEF Bounds, NodesBounded
<1>6. MailBounded'
  <2>1. ASSUME NEW c \in Nodes, NEW i \in DOMAIN multicast'[c], NEW q, q = multicast'[c][i]
        PROVE  IsHonest(q)' /\ (q.verb = "NOTIFY" => Wants[c] # {})
    <3>1. PICK j \in DOMAIN multicast[c] : q = multicast[c][j]
      <4>1. CASE c = n
        BY <1>1, <2>1, <4>1
      <4>2. CASE c # n
        BY <1>1, <2>1, <4>2
      <4> QED BY <4>1, <4>2
    <3> QED BY <1>3, <3>1 DEF Bounds, MailBounded, IsHonest
  <2>2. ASSUME NEW c \in Nodes, NEW i \in DOMAIN unicast'[c], NEW q, q = unicast'[c][i]
        PROVE  q.alive /\ q.loc \in 1..run'[q.udn]
    BY <1>2, <1>3, <2>2 DEF Bounds, MailBounded
  <2>3. \A c \in Nodes : \A i \in DOMAIN multicast'[c] :
          IsHonest(multicast[c][i])' /\ (multicast'[c][i].verb = "NOTIFY" => Wants[c] # {})
    BY <2>1 DEF IsHonest
  <2> QED BY <2>2, <2>3 DEF MailBounded
<1>7. ASSUME NEW u, NEW t, NEW l, Current(u, t, l) PROVE Current(u, t, l)'
  BY <1>3, <1>7 DEF Current, IsUp, Advertised
<1>8. BeliefsHold'
  <2> SUFFICES ASSUME NEW c \in Nodes, IsUp(c)', NEW k \in known'[c],
                      k.type \in Offers[k.udn], <<c, k.udn>> \notin stale
               PROVE  Current(k.udn, k.type, k.loc)' \/ Recalled(c, 0, k.udn, k.type, k.loc)'
    BY <1>3 DEF BeliefsHold
  <2>1. IsUp(c)
    BY <1>3 DEF IsUp
  <2>2. CASE c # n
    BY <1>1, <1>7, <2>1, <2>2 DEF BeliefsHold, Recalled
  <2>3. CASE c = n /\ k \in known[n]
    <3>1. CASE Recalled(n, 0, k.udn, k.type, k.loc)
      <4>1. PICK j \in DOMAIN multicast[n] : IsByebye(multicast[n][j], k.udn, k.type, k.loc)
        BY <3>1 DEF Recalled
      <4>2. j # 1
        <5> SUFFICES ASSUME j = 1 PROVE FALSE
          OBVIOUS
        <5>1. p.verb = "NOTIFY" /\ ~p.alive /\ p.udn = k.udn /\ p.type = k.type
          BY <1>1, <4>1 DEF IsByebye
        <5>2. k.type \in map[n]
          BY <1>1, <2>3
        <5> QED BY <1>1, <2>3, <5>1, <5>2
      <4>3. j \in Nat /\ j > 1 /\ j - 1 \in DOMAIN multicast'[n] /\ multicast'[n][j - 1] = multicast[n][j]
        BY <1>1, <4>2
      <4> QED BY <2>3, <4>1, <4>3 DEF Recalled, IsByebye
    <3>2. CASE Current(k.udn, k.type, k.loc)
      BY <1>7, <3>2
    <3> QED BY <2>1, <2>3, <3>1, <3>2 DEF BeliefsHold
  <2>4. CASE c = n /\ k \notin known[n]
    <3>1. p.verb = "NOTIFY" /\ p.alive /\ k.udn = p.udn /\ k.type = p.type /\ k.loc = p.loc
      BY <1>1, <2>4
    <3>2. Current(p.udn, p.type, p.loc) \/ Recalled(n, 1, p.udn, p.type, p.loc)
      BY <1>1, <2>1, <2>4, <3>1 DEF NoticesHold
    <3>3. CASE Recalled(n, 1, k.udn, k.type, k.loc)
      <4>1. PICK j \in DOMAIN multicast[n] : j > 1 /\ IsByebye(multicast[n][j], k.udn, k.type, k.loc)
        BY <3>3 DEF Recalled
      <4>2. j \in Nat /\ j - 1 \in DOMAIN multicast'[n] /\ multicast'[n][j - 1] = multicast[n][j]
        BY <1>1, <4>1
      <4> QED BY <2>4, <4>1, <4>2 DEF Recalled, IsByebye
    <3> QED BY <1>7, <3>1, <3>2, <3>3
  <2> QED BY <2>2, <2>3, <2>4
<1>9. NoticesHold'
  <2> SUFFICES ASSUME NEW c \in Nodes, IsUp(c)', NEW i \in DOMAIN multicast'[c], NEW q, q = multicast'[c][i],
                      q.verb = "NOTIFY", q.alive, <<c, q.udn>> \notin stale
               PROVE  Current(q.udn, q.type, q.loc)' \/ Recalled(c, i, q.udn, q.type, q.loc)'
    BY <1>3 DEF NoticesHold
  <2>1. IsUp(c)
    BY <1>3 DEF IsUp
  <2>2. CASE c # n
    BY <1>1, <1>7, <2>1, <2>2 DEF NoticesHold, Recalled
  <2>3. CASE c = n
    <3>1. i \in Nat /\ i + 1 \in DOMAIN multicast[n] /\ q = multicast[n][i + 1]
      BY <1>1, <2>3
    <3>2. Current(q.udn, q.type, q.loc) \/ Recalled(n, i + 1, q.udn, q.type, q.loc)
      BY <2>1, <2>3, <3>1 DEF NoticesHold
    <3>3. CASE Recalled(n, i + 1, q.udn, q.type, q.loc)
      <4>1. PICK j \in DOMAIN multicast[n] : j > i + 1 /\ IsByebye(multicast[n][j], q.udn, q.type, q.loc)
        BY <3>3 DEF Recalled
      <4>2. /\ j \in Nat /\ j - 1 > i
            /\ j - 1 \in DOMAIN multicast'[n] /\ multicast'[n][j - 1] = multicast[n][j]
        BY <1>1, <3>1, <4>1
      <4> QED BY <2>3, <4>1, <4>2 DEF Recalled, IsByebye
    <3> QED BY <1>7, <3>2, <3>3
  <2> QED BY <2>2, <2>3
<1>10. AnswersHold'
  <2> SUFFICES ASSUME NEW c \in Nodes, NEW i \in DOMAIN unicast'[c], NEW q, q = unicast'[c][i],
                      q.type \in Offers[q.udn], IsUp(q.udn)', q.loc = run'[q.udn]
               PROVE  q.type \in Advertised(q.udn)'
    BY DEF AnswersHold
  <2>1. IsUp(q.udn) /\ q.loc = run[q.udn] /\ Advertised(q.udn)' = Advertised(q.udn)
    BY <1>3 DEF IsUp, Advertised
  <2>2. CASE i \in DOMAIN unicast[c] /\ q = unicast[c][i]
    BY <2>1, <2>2 DEF AnswersHold
  <2>3. CASE q.udn = n /\ (q.type \in Offers[n] => q.type \in Advertised(n))
    BY <2>1, <2>3
  <2> QED BY <1>2, <2>2, <2>3
<1> QED BY <1>4, <1>5, <1>6, <1>8, <1>9, <1>10 DEF Bounds

LEMMA OnSearchActivityKeeps ==
  ASSUME IInv, NEW n \in Nodes, OnSearchActivity(n)
  PROVE  IInv'
<1> USE SsdpAssumption DEF IInv
<1> DEFINE p == Head(unicast[n])
<1>1. unicast[n] \in Seq(News) /\ unicast[n] # <<>> /\ unicast' = [unicast EXCEPT ![n] = Tail(@)]
  BY DEF Types1, OnSearchActivity
<1>2. /\ 1 \in DOMAIN unicast[n] /\ p = unicast[n][1] /\ Tail(unicast[n]) \in Seq(News)
      /\ \A i \in DOMAIN Tail(unicast[n]) : i + 1 \in DOMAIN unicast[n] /\ Tail(unicast[n])[i] = unicast[n][i + 1]
  BY <1>1, TailFacts
<1>3. /\ unicast' \in [Nodes -> Seq(News)] /\ unicast'[n] = Tail(unicast[n])
      /\ \A c \in Nodes \ {n} : unicast'[c] = unicast[c]
  BY <1>1, <1>2 DEF Types1
<1>4. p \in News /\ p.alive /\ p.loc \in 1..run[p.udn]
  BY <1>2, MailIsTyped DEF Bounds, MailBounded
<1>5. /\ life[n] # "off" /\ known' = [known EXCEPT ![n] = AfterNews(n, p)]
      /\ stale' = IF Overtaken(n, p) THEN stale \cup {<<n, p.udn>>} ELSE stale
      /\ UNCHANGED <<life, run, map, adverts, multicast, renewals, losses>>
  BY DEF OnSearchActivity
<1> HIDE DEF p
<1>6. /\ known' \in [Nodes -> SUBSET Belief]
      /\ \A k \in known'[n] : k.type \in map[n] /\ k.loc \in 1..run[k.udn]
      /\ \A c \in Nodes \ {n} : known'[c] = known[c]
      /\ \A k \in known'[n] : k \notin known[n] =>
           p.alive /\ k.udn = p.udn /\ k.type = p.type /\ k.loc = p.loc
  BY <1>4, <1>5, AfterNewsFacts DEF Bounds
<1>7. Types1'
  <2>1. stale' \subseteq Nodes \X Nodes
    BY <1>4, <1>5 DEF Types1, News
  <2> QED BY <1>3, <1>5, <1>6, <2>1 DEF Types1
<1>8. NodesBounded'
  <2>1. ASSUME NEW c \in Nodes
        PROVE  /\ life[c] = "off" => map[c] = {} /\ known'[c] = {} /\ multicast[c] = <<>> /\ unicast'[c] = <<>>
               /\ \A k \in known'[c] : k.type \in map[c] /\ k.loc \in 1..run[k.udn]
    <3>1. CASE c = n
      BY <1>5, <1>6, <3>1
    <3>2. CASE c # n
      BY <1>3, <1>6, <3>2 DEF Bounds, NodesBounded
    <3> QED BY <3>1, <3>2
  <2>2. \A c \in Nodes : Advertised(c)' = Advertised(c)
    BY <1>5 DEF Advertised
  <2> QED BY <1>5, <2>1, <2>2 DEF Bounds, NodesBounded
<1>9. ASSUME NEW c \in Nodes, NEW i \in DOMAIN unicast'[c]
      PROVE  \E j \in DOMAIN unicast[c] : unicast'[c][i] = unicast[c][j]
  <2>1. CASE c = n
    BY <1>2, <1>3, <2>1
  <2>2. CASE c # n
    BY <1>3, <2>2
  <2> QED BY <2>1, <2>2
<1>10. MailBounded'
  <2>1. \A c \in Nodes : \A i \in DOMAIN unicast'[c] : unicast'[c][i].alive /\ unicast'[c][i].loc \in 1..run[unicast'[c][i].udn]
    BY <1>9 DEF Bounds, MailBounded
  <2> QED BY <1>5, <2>1 DEF Bounds, MailBounded, IsHonest
<1>11. ASSUME NEW u, NEW t, NEW l, Current(u, t, l) PROVE Current(u, t, l)'
  BY <1>5, <1>11 DEF Current, IsUp, Advertised
<1>12. BeliefsHold'
  <2> SUFFICES ASSUME NEW c \in Nodes, IsUp(c)', NEW k \in known'[c],
                      k.type \in Offers[k.udn], <<c, k.udn>> \notin stale'
               PROVE  Current(k.udn, k.type, k.loc)' \/ Recalled(c, 0, k.udn, k.type, k.loc)'
    BY DEF BeliefsHold
  <2>1. IsUp(c) /\ <<c, k.udn>> \notin stale
    BY <1>5 DEF IsUp
  <2>2. CASE k \in known[c]
    <3>1. Current(k.udn, k.type, k.loc) \/ Recalled(c, 0, k.udn, k.type, k.loc)
      BY <2>1, <2>2 DEF BeliefsHold
    <3> QED BY <1>5, <1>11, <3>1 DEF Recalled
  <2>3. CASE k \notin known[c]
    <3>1. c = n
      BY <1>6, <2>3
    <3>2. k.udn = p.udn /\ k.type = p.type /\ k.loc = p.loc
      BY <1>6, <2>3, <3>1
    <3>3. ~Overtaken(n, p)
      BY <1>5, <3>1, <3>2
    <3>4. CASE IsUp(p.udn) /\ run[p.udn] = p.loc
      <4>1. p.type \in Advertised(p.udn)
        BY <1>2, <3>2, <3>4 DEF AnswersHold
      <4> QED BY <1>11, <3>2, <3>4, <4>1 DEF Current
    <3>5. CASE \E i \in DOMAIN multicast[n] : IsByebye(multicast[n][i], p.udn, p.type, p.loc)
      <4>1. \A i \in DOMAIN multicast[n] : i > 0
        BY MailIsTyped
      <4> QED BY <1>5, <3>1, <3>2, <3>5, <4>1 DEF Recalled, IsByebye
    <3> QED BY <3>2, <3>3, <3>4, <3>5 DEF Overtaken
  <2> QED BY <2>2, <2>3
<1>13. NoticesHold'
  <2> SUFFICES ASSUME NEW c \in Nodes, IsUp(c)', NEW i \in DOMAIN multicast[c], NEW q, q = multicast[c][i],
                      q.verb = "NOTIFY", q.alive, <<c, q.udn>> \notin stale'
               PROVE  Current(q.udn, q.type, q.loc)' \/ Recalled(c, i, q.udn, q.type, q.loc)'
    BY <1>5 DEF NoticesHold
  <2>1. IsUp(c) /\ <<c, q.udn>> \notin stale
    BY <1>5 DEF IsUp
  <2>2. Current(q.udn, q.type, q.loc) \/ Recalled(c, i, q.udn, q.type, q.loc)
    BY <2>1 DEF NoticesHold
  <2> QED BY <1>5, <1>11, <2>2 DEF Recalled
<1>14. AnswersHold'
  <2> SUFFICES ASSUME NEW c \in Nodes, NEW i \in DOMAIN unicast'[c], NEW q, q = unicast'[c][i],
                      q.type \in Offers[q.udn], IsUp(q.udn)', q.loc = run'[q.udn]
               PROVE  q.type \in Advertised(q.udn)'
    BY DEF AnswersHold
  <2>1. IsUp(q.udn) /\ q.loc = run[q.udn] /\ Advertised(q.udn)' = Advertised(q.udn)
    BY <1>5 DEF IsUp, Advertised
  <2> QED BY <1>9, <2>1 DEF AnswersHold
<1> QED BY <1>7, <1>8, <1>10, <1>12, <1>13, <1>14 DEF Bounds

LEMMA ByebyeFacts ==
  ASSUME IInv, NEW n \in Nodes, IsUp(n),
         NEW packets \in [1..Cardinality(Byebyes(n)) -> Byebyes(n)]
  PROVE  /\ packets \in Seq(Mail)
         /\ \A m \in DOMAIN packets : packets[m].verb = "NOTIFY" /\ ~packets[m].alive /\ IsHonest(packets[m])
<1>1. Advertised(n) \subseteq Offers[n] /\ Offers[n] \subseteq Types /\ run[n] \in Nat /\ run[n] >= 1
  BY SsdpAssumption DEF IInv, Types1, Bounds, NodesBounded, IsUp
<1>2. ASSUME NEW p \in Byebyes(n)
      PROVE  p \in Mail /\ p.verb = "NOTIFY" /\ ~p.alive /\ IsHonest(p)
  <2>1. PICK t \in Advertised(n) : p = [verb |-> "NOTIFY", udn |-> n, loc |-> run[n], type |-> t, alive |-> FALSE]
    BY DEF Byebyes, Notify
  <2>2. p \in News
    BY <1>1, <2>1 DEF News
  <2> QED BY <1>1, <2>1, <2>2 DEF Mail, IsHonest
<1>3. IsFiniteSet(Advertised(n))
  BY <1>1, SsdpAssumption, FS_Subset
<1>4. IsFiniteSet(Byebyes(n))
  <2> DEFINE says == [t \in Advertised(n) |-> Notify(n, t, FALSE)]
  <2>1. says \in Surjection(Advertised(n), Byebyes(n))
    BY DEF Surjection, Byebyes
  <2> QED BY <1>3, <2>1, FS_Surjection
<1>5. Cardinality(Byebyes(n)) \in Nat
  BY <1>4, FS_CardinalityType
<1>6. packets \in Seq(Byebyes(n))
  BY <1>5, SeqDef, Zenon
<1>7. packets \in [1..Cardinality(Byebyes(n)) -> Mail]
  BY <1>2
<1>8. packets \in Seq(Mail)
  BY <1>5, <1>7, SeqDef, Zenon
<1> QED BY <1>2, <1>8

LEMMA ShutdownKeeps ==
  ASSUME IInv, NEW n \in Nodes, Shutdown(n)
  PROVE  IInv'
<1> USE SsdpAssumption DEF IInv
<1>1. PICK packets \in [1..Cardinality(Byebyes(n)) -> Byebyes(n)], lost \in Losses :
        /\ \A p \in Byebyes(n) : \E m \in DOMAIN packets : packets[m] = p
        /\ Multicast("NOTIFY", packets, lost)
        /\ stale' = stale \cup {<<c, n>> : c \in lost}
  BY DEF Shutdown
<1>2. /\ IsUp(n) /\ life' = [life EXCEPT ![n] = "closing"]
      /\ adverts' = [adverts EXCEPT ![n] = [t \in Types |-> [cycle |-> 0, timer |-> "none"]]]
      /\ UNCHANGED <<run, map, known, unicast, renewals>>
  BY DEF Shutdown
<1>3. /\ packets \in Seq(Mail)
      /\ \A m \in DOMAIN packets : packets[m].verb = "NOTIFY" /\ ~packets[m].alive /\ IsHonest(packets[m])
  BY <1>2, ByebyeFacts
<1>4. /\ multicast' \in [Nodes -> Seq(Mail)] /\ losses' \in 0..MaxLosses
      /\ \A c \in Nodes : Grows(c) /\ Brings(c, packets)
      /\ \A c \in Nodes : ~Hears(c, "NOTIFY") => multicast'[c] = multicast[c]
      /\ \A c \in Nodes : Hears(c, "NOTIFY") /\ c \notin lost => Arrive(c, packets)
  <2>1. packets \in Seq(Mail) /\ Multicast("NOTIFY", packets, lost) /\ Types1
    BY <1>1, <1>3
  <2> QED BY <2>1, MulticastFacts
<1>5. /\ life'[n] = "closing" /\ life[n] = "up"
      /\ \A c \in Nodes \ {n} : life'[c] = life[c] /\ Advertised(c)' = Advertised(c)
      /\ Advertised(n)' = {}
  BY <1>2 DEF Types1, IsUp, Advertised
<1>6. Types1'
  <2>1. stale' \subseteq Nodes \X Nodes
    BY <1>1 DEF Losses, Types1
  <2>2. [t \in Types |-> [cycle |-> 0, timer |-> "none"]] \in [Types -> Advert]
    BY DEF Advert
  <2>3. adverts' \in [Nodes -> [Types -> Advert]] /\ life' \in [Nodes -> {"off", "up", "closing"}]
    BY <1>2, <2>2 DEF Types1
  <2> QED BY <1>2, <1>4, <2>1, <2>3 DEF Types1
<1>7. NodesBounded'
  <2>1. ASSUME NEW c \in Nodes
        PROVE  life'[c] = "off" => map[c] = {} /\ known[c] = {} /\ multicast'[c] = <<>> /\ unicast[c] = <<>>
    <3>1. c # n \/ life'[c] # "off"
      BY <1>5
    <3> QED BY <1>4, <1>5, <3>1 DEF Bounds, NodesBounded, Hears, IsUp
  <2> QED BY <1>2, <1>5, <2>1 DEF Bounds, NodesBounded
<1>8. MailBounded'
  BY <1>2, <1>3, <1>4, MailStaysBounded DEF Hears
<1>9. \A c \in Nodes : IsUp(c)' => IsUp(c) /\ c # n
  BY <1>5 DEF IsUp
<1>10. ASSUME NEW c \in Nodes, IsUp(c), Wants[c] # {}, NEW t, t \in Types, <<c, n>> \notin stale',
              NEW l, Current(n, t, l), NEW i \in DOMAIN multicast[c] \cup {0}
       PROVE  Recalled(c, i, n, t, l)'
  <2>1. c \notin lost
    BY <1>1, <1>10, Zenon
  <2>2. Notify(n, t, FALSE) \in Byebyes(n)
    BY <1>10 DEF Byebyes, Current
  <2>3. PICK m \in DOMAIN packets : packets[m] = Notify(n, t, FALSE)
    BY <1>1, <2>2, Zenon
  <2>4. PICK j \in DOMAIN multicast'[c] : j > i /\ multicast'[c][j] = packets[m]
    BY <1>4, <1>10, <2>1 DEF Hears, Arrive
  <2>5. IsByebye(packets[m], n, t, l)
    BY <1>10, <2>3 DEF IsByebye, Notify, Current
  <2> QED BY <2>4, <2>5 DEF Recalled, IsByebye
<1>11. ASSUME NEW u \in Nodes, u # n, NEW t, NEW l, Current(u, t, l) PROVE Current(u, t, l)'
  BY <1>2, <1>5, <1>11 DEF Current, IsUp
<1>12. BeliefsHold'
  <2> SUFFICES ASSUME NEW c \in Nodes, IsUp(c)', NEW k \in known[c],
                      k.type \in Offers[k.udn], <<c, k.udn>> \notin stale'
               PROVE  Current(k.udn, k.type, k.loc)' \/ Recalled(c, 0, k.udn, k.type, k.loc)'
    BY <1>2 DEF BeliefsHold
  <2>1. IsUp(c) /\ <<c, k.udn>> \notin stale
    BY <1>1, <1>9
  <2>2. k.udn \in Nodes /\ k.type \in Types /\ Wants[c] # {}
    BY DEF Types1, Belief, Bounds, NodesBounded
  <2>3. CASE Recalled(c, 0, k.udn, k.type, k.loc)
    BY <1>4, <2>3, RecalledStays
  <2>4. CASE Current(k.udn, k.type, k.loc) /\ k.udn # n
    BY <1>11, <2>2, <2>4
  <2>5. CASE Current(k.udn, k.type, k.loc) /\ k.udn = n
    BY <1>10, <2>1, <2>2, <2>5
  <2> QED BY <2>1, <2>3, <2>4, <2>5 DEF BeliefsHold
<1>13. NoticesHold'
  <2> SUFFICES ASSUME NEW c \in Nodes, IsUp(c)', NEW i \in DOMAIN multicast'[c], NEW q, q = multicast'[c][i],
                      q.verb = "NOTIFY", q.alive, <<c, q.udn>> \notin stale'
               PROVE  Current(q.udn, q.type, q.loc)' \/ Recalled(c, i, q.udn, q.type, q.loc)'
    BY DEF NoticesHold
  <2>1. IsUp(c) /\ <<c, q.udn>> \notin stale
    BY <1>1, <1>9
  <2>2. i \in DOMAIN multicast[c] /\ q = multicast[c][i]
    BY <1>3, <1>4 DEF Brings, Grows
  <2>3. q.udn \in Nodes /\ q.type \in Types
    BY <2>2, MailIsTyped DEF Mail, News, Searches
  <2>4. Wants[c] # {}
    BY <2>2 DEF Bounds, MailBounded
  <2>5. CASE Recalled(c, i, q.udn, q.type, q.loc)
    BY <1>4, <2>5, RecalledStays
  <2>6. CASE Current(q.udn, q.type, q.loc) /\ q.udn # n
    BY <1>11, <2>3, <2>6
  <2>7. CASE Current(q.udn, q.type, q.loc) /\ q.udn = n
    BY <1>10, <2>1, <2>2, <2>3, <2>4, <2>7
  <2> QED BY <2>1, <2>2, <2>5, <2>6, <2>7 DEF NoticesHold
<1>14. AnswersHold'
  <2> SUFFICES ASSUME NEW c \in Nodes, NEW i \in DOMAIN unicast[c], NEW q, q = unicast[c][i],
                      q.type \in Offers[q.udn], IsUp(q.udn)', q.loc = run[q.udn]
               PROVE  q.type \in Advertised(q.udn)'
    BY <1>2, ZenonT(30) DEF AnswersHold
  <2>1. q.udn \in Nodes
    BY MailIsTyped DEF News
  <2>2. IsUp(q.udn) /\ Advertised(q.udn)' = Advertised(q.udn)
    BY <1>5, <1>9, <2>1
  <2> QED BY <2>2 DEF AnswersHold
<1> QED BY <1>6, <1>7, <1>8, <1>12, <1>13, <1>14 DEF Bounds

(* The end of a process, with warning or without.                          *)
LEMMA GoneKeeps ==
  ASSUME IInv, NEW n \in Nodes, life[n] # "off", Gone(n),
         stale \subseteq stale', stale' \subseteq Nodes \X Nodes,
         IsUp(n) => \A c \in Nodes \ {n} : IsUp(c) => <<c, n>> \in stale'
  PROVE  IInv'
<1> USE SsdpAssumption DEF IInv
<1>1. /\ life'[n] = "off" /\ map'[n] = {} /\ known'[n] = {} /\ multicast'[n] = <<>> /\ unicast'[n] = <<>>
      /\ Advertised(n)' = {}
      /\ \A c \in Nodes \ {n} :
           /\ life'[c] = life[c] /\ map'[c] = map[c] /\ known'[c] = known[c]
           /\ multicast'[c] = multicast[c] /\ unicast'[c] = unicast[c] /\ Advertised(c)' = Advertised(c)
      /\ UNCHANGED <<run, renewals, losses>>
  BY DEF Gone, Types1, Advertised
<1>2. Types1'
  BY DEF Types1, Gone, Advert
<1>3. NodesBounded'
  BY <1>1 DEF Bounds, NodesBounded
<1>4. MailBounded'
  <2>1. ASSUME NEW c \in Nodes, NEW i \in DOMAIN multicast'[c]
        PROVE  IsHonest(multicast[c][i])' /\ (multicast'[c][i].verb = "NOTIFY" => Wants[c] # {})
    <3>1. c # n
      BY <1>1
    <3> QED BY <1>1, <3>1 DEF Bounds, MailBounded, IsHonest
  <2>2. ASSUME NEW c \in Nodes, NEW i \in DOMAIN unicast'[c]
        PROVE  unicast'[c][i].alive /\ unicast'[c][i].loc \in 1..run'[unicast'[c][i].udn]
    <3>1. c # n
      BY <1>1
    <3> QED BY <1>1, <3>1 DEF Bounds, MailBounded
  <2> QED BY <2>1, <2>2 DEF MailBounded
<1>5. \A c \in Nodes : IsUp(c)' => IsUp(c) /\ c # n
  BY <1>1 DEF IsUp
<1>6. ASSUME NEW c \in Nodes, IsUp(c)', NEW u \in Nodes, <<c, u>> \notin stale', NEW t, NEW l, Current(u, t, l)
      PROVE  Current(u, t, l)'
  <2>1. u # n
    BY <1>5, <1>6 DEF Current
  <2> QED BY <1>1, <1>6, <2>1 DEF Current, IsUp
<1>7. BeliefsHold'
  <2> SUFFICES ASSUME NEW c \in Nodes, IsUp(c)', NEW k \in known'[c],
                      k.type \in Offers[k.udn], <<c, k.udn>> \notin stale'
               PROVE  Current(k.udn, k.type, k.loc)' \/ Recalled(c, 0, k.udn, k.type, k.loc)'
    BY DEF BeliefsHold
  <2>1. IsUp(c) /\ c # n /\ k \in known[c] /\ multicast'[c] = multicast[c] /\ <<c, k.udn>> \notin stale
    BY <1>1, <1>5
  <2>2. k.udn \in Nodes
    BY <2>1 DEF Types1, Belief
  <2> QED BY <1>6, <2>1, <2>2 DEF BeliefsHold, Recalled
<1>8. NoticesHold'
  <2> SUFFICES ASSUME NEW c \in Nodes, IsUp(c)', NEW i \in DOMAIN multicast'[c], NEW q, q = multicast'[c][i],
                      q.verb = "NOTIFY", q.alive, <<c, q.udn>> \notin stale'
               PROVE  Current(q.udn, q.type, q.loc)' \/ Recalled(c, i, q.udn, q.type, q.loc)'
    BY DEF NoticesHold
  <2>1. IsUp(c) /\ c # n /\ multicast'[c] = multicast[c] /\ <<c, q.udn>> \notin stale
    BY <1>1, <1>5
  <2>2. q.udn \in Nodes
    BY <2>1, MailIsTyped DEF Mail, News, Searches
  <2> QED BY <1>6, <2>1, <2>2 DEF NoticesHold, Recalled
<1>9. AnswersHold'
  <2> SUFFICES ASSUME NEW c \in Nodes, NEW i \in DOMAIN unicast'[c], NEW q, q = unicast'[c][i],
                      q.type \in Offers[q.udn], IsUp(q.udn)', q.loc = run'[q.udn]
               PROVE  q.type \in Advertised(q.udn)'
    BY DEF AnswersHold
  <2>1. c # n /\ unicast'[c] = unicast[c]
    BY <1>1
  <2>2. q.udn \in Nodes
    BY <2>1, MailIsTyped DEF News
  <2>3. IsUp(q.udn) /\ Advertised(q.udn)' = Advertised(q.udn)
    BY <1>1, <1>5, <2>2
  <2> QED BY <1>1, <2>1, <2>3 DEF AnswersHold
<1> QED BY <1>2, <1>3, <1>4, <1>7, <1>8, <1>9 DEF Bounds
-----------------------------------------------------------------------------
LEMMA StepKeeps == IInv /\ [Next]_vars => IInv'
<1> SUFFICES ASSUME IInv, [Next]_vars PROVE IInv'
  OBVIOUS
<1>1. CASE UNCHANGED vars
  <2> USE <1>1 DEF vars, node, IInv
  <2>1. \A c \in Nodes : Advertised(c)' = Advertised(c)
    BY DEF Advertised
  <2>2. Types1'
    BY DEF Types1
  <2>3. NodesBounded'
    BY <2>1 DEF Bounds, NodesBounded
  <2>4. MailBounded'
    BY DEF Bounds, MailBounded, IsHonest
  <2>5. DOMAIN <<>> = {} /\ \A c \in Nodes : Grows(c) /\ Brings(c, <<>>)
    BY DEF Grows, Brings
  <2>6. BeliefsHold' /\ NoticesHold' /\ AnswersHold'
    BY <2>1, <2>5, NewsKeeps
  <2> QED BY <2>2, <2>3, <2>4, <2>6 DEF Bounds
<1>2. ASSUME NEW n \in Nodes, Exit(n) PROVE IInv'
  <2>1. life[n] = "closing" /\ Gone(n) /\ stale' = stale /\ stale \subseteq Nodes \X Nodes
    BY <1>2 DEF Exit, IInv, Types1
  <2> QED BY <2>1, GoneKeeps DEF IsUp
<1>3. ASSUME NEW n \in Nodes, Crash(n) PROVE IInv'
  <2>1. /\ life[n] = "up" /\ Gone(n) /\ stale \subseteq Nodes \X Nodes
        /\ stale' = stale \cup {<<c, n>> : c \in {c \in Nodes \ {n} : IsUp(c)}}
    BY <1>3 DEF Crash, IsUp, IInv, Types1
  <2>2. stale' \subseteq Nodes \X Nodes /\ \A c \in Nodes \ {n} : IsUp(c) => <<c, n>> \in stale'
    BY <2>1
  <2> QED BY <2>1, <2>2, GoneKeeps
<1> QED BY <1>1, <1>2, <1>3, StartKeeps, AdvertiseKeeps, SearchKeeps, OnTimerKeeps, RenewKeeps,
           OnMulticastActivityKeeps, OnSearchActivityKeeps, ShutdownKeeps DEF Next

LEMMA Invariance == Spec => []IInv
<1> QED BY InitEstablishes, StepKeeps, PTL DEF Spec

LEMMA IInvSuffices == IInv => KnownIsTrue
<1> SUFFICES ASSUME IInv PROVE KnownIsTrue
  OBVIOUS
<1> USE SsdpAssumption DEF IInv
<1>1. TypeOK
  <2>1. \A n \in Nodes : run[n] \in 0..MaxRuns[n]
    BY DEF Types1, Bounds, NodesBounded
  <2>2. ASSUME NEW n \in Nodes, NEW k \in known[n]
        PROVE  k.udn \in Nodes /\ k.type \in map[n] /\ k.loc \in 1..MaxRuns[k.udn]
    <3>1. k.udn \in Nodes /\ k.loc \in 1..run[k.udn] /\ k.type \in map[n]
      BY DEF Types1, Belief, Bounds, NodesBounded
    <3> QED BY <2>1, <3>1
  <2> QED BY <2>1, <2>2 DEF TypeOK, Types1, Bounds, NodesBounded, Advert
<1>2. ASSUME NEW c \in Nodes, IsUp(c), ~Unread(c), NEW k \in known[c],
             k.type \in Offers[k.udn], <<c, k.udn>> \notin stale
      PROVE  k.type \in Advertised(k.udn) /\ k.loc = run[k.udn]
  <2>1. DOMAIN multicast[c] = {}
    BY <1>2 DEF Unread
  <2> QED BY <1>2, <2>1 DEF BeliefsHold, Recalled, Current
<1> QED BY <1>1, <1>2 DEF KnownIsTrue

(* Whatever is lost, and whoever comes, goes and crashes: what a node      *)
(* believes of a service, once it has read its sockets, is true, unless it *)
(* was never told that the service went.                                   *)
THEOREM KnownAlwaysTrue == Spec => []KnownIsTrue
BY Invariance, IInvSuffices, PTL

-----------------------------------------------------------------------------
(* A least number of a set.                                                *)
LEMMA LeastNat ==
  ASSUME NEW T, T \subseteq Nat, T # {}
  PROVE  \E x \in T : \A y \in T : x <= y
<1>1. PICK x \in T : \A y \in T : <<y, x>> \notin OpToRel(<, Nat)
  BY NatLessThanWellFounded, WFMin
<1>2. \A y \in T : ~(y < x)
  BY <1>1 DEF OpToRel
<1> QED
  BY <1>2

LEMMA LeastIs ==
  ASSUME NEW a \in Int, NEW b \in Int
  PROVE  /\ Least(a, b) \in {a, b} /\ Least(a, b) <= a /\ Least(a, b) <= b
         /\ a <= b => Least(a, b) = a
         /\ b <= a => Least(a, b) = b
  BY DEF Least

(* The parts of a sequence, before and after the first n of it.            *)
LEMMA Parts ==
  ASSUME NEW S, NEW s \in Seq(S), NEW n \in Nat
  PROVE  /\ First(n, s) \in Seq(S) /\ Rest(n, s) \in Seq(S)
         /\ First(n, s) \o Rest(n, s) = s
         /\ Len(First(n, s)) = Least(n, Len(s))
         /\ Len(Rest(n, s)) = Len(s) - Least(n, Len(s))
<1>1. /\ Len(s) \in Nat /\ \A i \in 1..Len(s) : s[i] \in S
  OBVIOUS
<1> DEFINE m == Least(n, Len(s))
<1>2. m \in 0..Len(s)
  BY <1>1 DEF Least
<1>3. First(n, s) \in Seq(S) /\ Len(First(n, s)) = m
  BY <1>1, <1>2, SubSeqProperties DEF First
<1>4. Rest(n, s) \in Seq(S)
  BY <1>1, SubSeqProperties DEF Rest
<1>5. Len(Rest(n, s)) = Len(s) - m
  <2>1. Len(Rest(n, s)) = IF n + 1 <= Len(s) THEN Len(s) - (n + 1) + 1 ELSE 0
    BY <1>1, SubSeqProperties DEF Rest
  <2>2. \A l \in Nat : (IF n + 1 <= l THEN l - (n + 1) + 1 ELSE 0) = l - Least(n, l)
    BY DEF Least
  <2> QED
    BY <1>1, <2>1, <2>2
<1>6. First(n, s) \o Rest(n, s) = s
  <2>1. CASE n <= Len(s)
    <3>1. First(n, s) = SubSeq(s, 1, n)
      BY <1>1, <2>1 DEF First, Least
    <3>2. SubSeq(s, 1, n) \o SubSeq(s, n + 1, Len(s)) = SubSeq(s, 1, Len(s))
      <4>1. 1 \in 1..Len(s) + 1 /\ n \in 1 - 1..Len(s) /\ Len(s) \in n..Len(s)
        BY <1>1, <2>1
      <4> QED
        BY <4>1, ConcatAdjacentSubSeq
    <3> QED
      BY <3>1, <3>2, SubSeqFull DEF Rest
  <2>2. CASE Len(s) < n
    <3>1. First(n, s) = s
      BY <1>1, <2>2, SubSeqFull DEF First, Least
    <3>2. Rest(n, s) = <<>>
      BY <1>1, <2>2, SubSeqEmpty DEF Rest
    <3> QED
      BY <3>1, <3>2, ConcatEmptySeq
  <2> QED
    BY <1>1, <2>1, <2>2
<1> QED
  BY <1>3, <1>4, <1>5, <1>6

(* The first of none are none.                                             *)
LEMMA FirstOfNone ==
  ASSUME NEW S, NEW s \in Seq(S), NEW n \in Int, n <= 0
  PROVE  First(n, s) = <<>>
<1>1. Len(s) \in Nat
  OBVIOUS
<1>2. Least(n, Len(s)) \in Int /\ Least(n, Len(s)) < 1
  BY <1>1 DEF Least
<1> QED
  BY <1>2, SubSeqEmpty DEF First

(* All of it.                                                              *)
LEMMA FirstOfAll ==
  ASSUME NEW S, NEW s \in Seq(S), NEW n \in Nat, Len(s) <= n
  PROVE  First(n, s) = s /\ Rest(n, s) = <<>>
<1>1. Len(s) \in Nat
  OBVIOUS
<1>2. Least(n, Len(s)) = Len(s)
  BY <1>1 DEF Least
<1>3. First(n, s) = s
  BY <1>2, SubSeqFull DEF First
<1>4. Rest(n, s) = <<>>
  BY <1>1, SubSeqEmpty DEF Rest
<1> QED
  BY <1>3, <1>4

(* The first of the first are the first, however few they are.             *)
LEMMA FirstOfFirst ==
  ASSUME NEW S, NEW s \in Seq(S), NEW n \in Int, NEW m \in Int
  PROVE  /\ First(n, First(m, s)) \in Seq(S)
         /\ First(n, First(m, s)) \o Rest(Len(First(n, First(m, s))), s) = s
<1>1. /\ Len(s) \in Nat /\ <<>> \in Seq(S) /\ Len(<<>>) = 0
  BY EmptySeq
<1>2. ASSUME NEW j \in Nat
      PROVE  First(j, s) \in Seq(S) /\ First(j, s) \o Rest(Len(First(j, s)), s) = s
  <2>1. /\ First(j, s) \in Seq(S) /\ Len(First(j, s)) = Least(j, Len(s))
    BY Parts
  <2>2. CASE j <= Len(s)
    <3>1. Least(j, Len(s)) = j
      BY <1>1, <2>2, LeastIs
    <3>2. First(j, s) \o Rest(j, s) = s
      BY Parts
    <3> QED
      BY <3>1, <3>2, <2>1
  <2>3. CASE Len(s) < j
    <3>1. First(j, s) = s /\ Rest(Len(s), s) = <<>>
      BY <1>1, <2>3, FirstOfAll
    <3> QED
      BY <3>1, <2>1, ConcatEmptySeq
  <2> QED
    BY <1>1, <2>2, <2>3
<1>3. \E j \in Nat : First(n, First(m, s)) = First(j, s)
  <2>1. CASE m <= 0
    <3>1. First(m, s) = <<>> /\ First(0, s) = <<>>
      BY <2>1, FirstOfNone
    <3>2. First(n, <<>>) = <<>>
      <4>1. CASE n <= 0
        BY <4>1, <1>1, FirstOfNone
      <4>2. CASE 0 < n
        <5>1. <<>> \in Seq(S) /\ n \in Nat /\ Len(<<>>) <= n
          BY <1>1, <4>2
        <5> QED
          BY <5>1, FirstOfAll
      <4> QED
        BY <4>1, <4>2
    <3> QED
      BY <3>1, <3>2
  <2>2. CASE 0 < m /\ n <= 0
    <3>1. First(m, s) \in Seq(S) /\ First(0, s) = <<>>
      BY <2>2, Parts, FirstOfNone
    <3> QED
      BY <3>1, <2>2, FirstOfNone
  <2>3. CASE 0 < m /\ 0 < n
    <3> DEFINE p == Least(m, Len(s))
               q == Least(n, p)
    <3>1. p \in 0..Len(s) /\ q \in 0..p
      BY <2>3, <1>1 DEF Least
    <3>2. First(m, s) = SubSeq(s, 1, p) /\ Len(First(m, s)) = p /\ First(m, s) \in Seq(S)
      <4>1. m \in Nat
        BY <2>3
      <4>2. First(m, s) \in Seq(S) /\ Len(First(m, s)) = p
        BY <4>1, Parts
      <4> QED
        BY <4>2 DEF First
    <3>3. First(n, First(m, s)) = SubSeq(SubSeq(s, 1, p), 1, q)
      BY <3>2 DEF First
    <3>4. First(q, s) = SubSeq(s, 1, q)
      BY <3>1, <1>1 DEF First, Least
    <3>5. CASE q = 0
      <4>1. SubSeq(SubSeq(s, 1, p), 1, q) = <<>> /\ SubSeq(s, 1, q) = <<>>
        BY <3>5, SubSeqEmpty
      <4> QED
        BY <4>1, <3>3, <3>4, <3>1
    <3>6. CASE q > 0
      <4>1. SubSeq(SubSeq(s, 1, p), 1, q) = SubSeq(s, 1, q)
        BY <3>6, <3>1, <3>2, <1>1, SubSeqOfSubSeq
      <4> QED
        BY <4>1, <3>3, <3>4, <3>1
    <3> QED
      BY <3>1, <3>5, <3>6
  <2> QED
    BY <2>1, <2>2, <2>3
<1> QED
  BY <1>2, <1>3

(* A sequence and its first element.                                       *)
LEMMA OneAndMore ==
  ASSUME NEW S, NEW x \in S, NEW s \in Seq(S)
  PROVE  /\ <<x>> \o s \in Seq(S) /\ <<x>> \in Seq(S)
         /\ <<x>> \o s # <<>>
         /\ Head(<<x>> \o s) = x /\ Tail(<<x>> \o s) = s
<1>1. <<x>> \in Seq(S) /\ Len(<<x>>) = 1 /\ <<x>>[1] = x /\ Len(s) \in Nat
  OBVIOUS
<1>2. /\ <<x>> \o s \in Seq(S) /\ Len(<<x>> \o s) = 1 + Len(s)
      /\ \A i \in 1..(1 + Len(s)) : (<<x>> \o s)[i] = IF i <= 1 THEN <<x>>[i] ELSE s[i - 1]
  <2>1. /\ <<x>> \o s \in Seq(S) /\ Len(<<x>> \o s) = Len(<<x>>) + Len(s)
        /\ \A i \in 1..(Len(<<x>>) + Len(s)) :
             (<<x>> \o s)[i] = IF i <= Len(<<x>>) THEN <<x>>[i] ELSE s[i - Len(<<x>>)]
    BY <1>1, ConcatProperties
  <2> QED
    BY <2>1, <1>1
<1> DEFINE t == <<x>> \o s
<1> HIDE DEF t
<1>3. t \in Seq(S) /\ Len(t) = 1 + Len(s) /\ t[1] = x /\ \A i \in 1..Len(s) : t[i + 1] = s[i]
  BY <1>1, <1>2 DEF t
<1>4. t # <<>>
  BY <1>3, <1>1
<1>5. /\ Head(t) = t[1] /\ Tail(t) \in Seq(S) /\ Len(Tail(t)) = Len(s)
      /\ \A i \in 1..Len(s) : Tail(t)[i] = t[i + 1]
  BY <1>3, <1>4, <1>1, HeadTailProperties
<1>6. Tail(t) = s
  BY <1>5, <1>3, <1>1, SeqEqual
<1> QED
  BY <1>1, <1>2, <1>3, <1>4, <1>5, <1>6 DEF t

LEMMA HeadAndTail ==
  ASSUME NEW S, NEW s \in Seq(S), s # <<>>
  PROVE  /\ Head(s) \in S /\ Tail(s) \in Seq(S) /\ s = <<Head(s)>> \o Tail(s)
<1>1. /\ Head(s) \in S /\ Tail(s) \in Seq(S) /\ Len(Tail(s)) = Len(s) - 1
      /\ \A i \in 1..Len(Tail(s)) : Tail(s)[i] = s[i + 1]
  BY HeadTailProperties
<1>2. Len(s) \in Nat \ {0} /\ Head(s) = s[1]
  BY EmptySeq
<1> DEFINE h == <<Head(s)>>
           t == Tail(s)
<1>3. h \in Seq(S) /\ Len(h) = 1 /\ h[1] = Head(s)
  BY <1>1
<1> HIDE DEF h, t
<1>4. /\ h \o t \in Seq(S) /\ Len(h \o t) = Len(s)
      /\ \A i \in 1..Len(s) : (h \o t)[i] = IF i <= 1 THEN h[i] ELSE t[i - 1]
  <2>1. /\ h \o t \in Seq(S) /\ Len(h \o t) = Len(h) + Len(t)
        /\ \A i \in 1..(Len(h) + Len(t)) :
             (h \o t)[i] = IF i <= Len(h) THEN h[i] ELSE t[i - Len(h)]
    <3>1. t \in Seq(S)
      BY <1>1 DEF t
    <3> QED
      BY <3>1, <1>3, ConcatProperties
  <2> QED
    BY <2>1, <1>1, <1>2, <1>3 DEF t
<1>5. \A i \in 1..Len(s) : (h \o t)[i] = s[i]
  BY <1>1, <1>2, <1>3, <1>4 DEF t
<1>6. h \o t = s
  BY <1>4, <1>5, SeqEqual
<1> QED
  BY <1>1, <1>6 DEF h, t

-----------------------------------------------------------------------------
(* What can be on its way.                                                 *)
(* The provers do not know that these are strings.                         *)
Text == STRING \cup
  {"WAITING", "RECV_HEADERS", "RECV_BODY", "SEND_HEADERS", "SEND_BODY",
   "run", "readable", "writable", "source", "gone", "failed", "none", "CHECKING", "GET", ""}

Token ==
  {<<"request", v, p>> : v \in Text, p \in Text}
    \cup {<<"range", a, b>> : a \in Nat, b \in Nat}
    \cup {<<"length", n>> : n \in Int} \cup {<<"status", n>> : n \in Nat}
    \cup {<<"crange", a, b>> : a \in Int, b \in Int}
    \cup {<<"crange", a, b, n>> : a \in Int, b \in Int, n \in Int}
    \cup {<<"byte", n>> : n \in Nat} \cup {<<"close">>, <<"end">>}

Tokens == Seq(Token)

LEMMA TokensAre ==
  /\ \A v \in Text, p \in Text : <<"request", v, p>> \in Token
  /\ \A a \in Nat, b \in Nat : <<"range", a, b>> \in Token
  /\ \A a \in Int, b \in Int : <<"crange", a, b>> \in Token
  /\ \A a \in Int, b \in Int, n \in Int : <<"crange", a, b, n>> \in Token
  /\ \A n \in Nat : <<"status", n>> \in Token /\ <<"byte", n>> \in Token
  /\ \A n \in Int : <<"length", n>> \in Token
  /\ <<"close">> \in Token /\ <<"end">> \in Token
<1>1. \A v \in Text, p \in Text : <<"request", v, p>> \in Token
  BY DEF Token
<1>2. \A a \in Nat, b \in Nat : <<"range", a, b>> \in Token
  BY DEF Token
<1>3. \A a \in Int, b \in Int : <<"crange", a, b>> \in Token
  BY DEF Token
<1>4. \A a \in Int, b \in Int, n \in Int : <<"crange", a, b, n>> \in Token
  BY DEF Token
<1>5. \A n \in Nat : <<"byte", n>> \in Token /\ <<"status", n>> \in Token
  BY DEF Token
<1>6. \A n \in Int : <<"length", n>> \in Token
  BY DEF Token
<1>7. <<"close">> \in Token /\ <<"end">> \in Token
  BY DEF Token
<1> QED
  BY <1>1, <1>2, <1>3, <1>4, <1>5, <1>6, <1>7

(* Putting tokens together, and the order in which that is done.           *)
LEMMA Cat ==
  ASSUME NEW s \in Tokens, NEW t \in Tokens
  PROVE  s \o t \in Tokens /\ Len(s \o t) = Len(s) + Len(t)
  BY ConcatProperties DEF Tokens

LEMMA CatThree ==
  ASSUME NEW s \in Tokens, NEW t \in Tokens, NEW u \in Tokens
  PROVE  (s \o t) \o u = s \o (t \o u)
  BY SMT DEF Tokens

(* The same for provers that would otherwise put it to use for ever.        *)
Assoc(s, t, u) == (s \o t) \o u = s \o (t \o u)

LEMMA CatAssoc ==
  ASSUME NEW s \in Tokens, NEW t \in Tokens, NEW u \in Tokens
  PROVE  Assoc(s, t, u)
  BY CatThree DEF Assoc

LEMMA CatNothing ==
  ASSUME NEW s \in Tokens
  PROVE  s \o <<>> = s /\ <<>> \o s = s
  BY ConcatEmptySeq DEF Tokens

LEMMA CatOne ==
  ASSUME NEW x \in Token, NEW s \in Tokens
  PROVE  <<x>> \in Tokens /\ <<x>> \o s \in Tokens /\ <<x>> \o s # <<>>
         /\ Head(<<x>> \o s) = x /\ Tail(<<x>> \o s) = s
  BY OneAndMore DEF Tokens

Starts(s, x, t) == x \in Token /\ t \in Tokens /\ s = <<x>> \o t

LEMMA CatSame ==
  ASSUME NEW s, NEW x, NEW t, NEW y, NEW u, Starts(s, x, t), Starts(s, y, u)
  PROVE  x = y /\ t = u
<1>1. Head(s) = x /\ Tail(s) = t
  BY CatOne DEF Starts
<1>2. Head(s) = y /\ Tail(s) = u
  BY CatOne DEF Starts
<1> QED
  BY <1>1, <1>2

(* Equal sequences that were put together from different parts.            *)
Cut(s, a, x) == a \in Tokens /\ x \in Tokens /\ s = a \o x

LEMMA CutTokens ==
  ASSUME NEW s, NEW a, NEW x, NEW b, NEW y, Cut(s, a, x), Cut(s, b, y), Len(a) <= Len(b)
  PROVE  a = First(Len(a), b) /\ x = Rest(Len(a), b) \o y
<1>0. /\ a \in Tokens /\ x \in Tokens /\ b \in Tokens /\ y \in Tokens
      /\ a \o x = b \o y
  BY DEF Cut
<1>1. /\ Len(a) \in Nat /\ Len(b) \in Nat
      /\ a \in Seq(Token) /\ b \in Seq(Token) /\ x \in Seq(Token) /\ y \in Seq(Token)
  BY <1>0 DEF Tokens
<1> DEFINE f == First(Len(a), b)
           r == Rest(Len(a), b)
<1>2. f \in Tokens /\ r \in Tokens /\ f \o r = b /\ Len(f) = Len(a)
  BY <1>1, Parts DEF Least, Tokens
<1> HIDE DEF f, r
<1>3. r \o y \in Tokens
  BY <1>0, <1>2, Cat
<1>4. a \o x = f \o (r \o y)
  <2>1. (f \o r) \o y = f \o (r \o y)
    <3>1. f \in Tokens /\ r \in Tokens /\ y \in Tokens
      BY <1>0, <1>2
    <3> QED
      BY <3>1, CatThree
  <2>2. a \o x = b \o y /\ f \o r = b
    BY <1>0, <1>2
  <2> QED
    BY <2>1, <2>2
<1>5. \A i \in 1..Len(a) : a[i] = f[i]
  <2> SUFFICES ASSUME NEW i \in 1..Len(a)
               PROVE  a[i] = f[i]
    OBVIOUS
  <2>1. (a \o x)[i] = a[i]
    BY <1>1, ConcatProperties
  <2>2. (f \o (r \o y))[i] = f[i]
    <3>1. f \in Seq(Token) /\ r \o y \in Seq(Token) /\ i \in 1..Len(f)
      BY <1>2, <1>3 DEF Tokens
    <3> QED
      BY <3>1, ConcatProperties
  <2> QED
    BY <2>1, <2>2, <1>4
<1>6. a = f
  <2>1. f \in Seq(Token)
    BY <1>2 DEF Tokens
  <2> QED
    BY <2>1, <1>1, <1>2, <1>5, SeqEqual
<1>7. x = r \o y
  <2>1. a \o x = a \o (r \o y)
    BY <1>4, <1>6
  <2>2. r \o y \in Seq(Token)
    BY <1>3 DEF Tokens
  <2> QED
    BY <2>1, <2>2, <1>1, ConcatSimplifications
<1> QED
  BY <1>6, <1>7 DEF f, r
-----------------------------------------------------------------------------
(* FlattenSeq, by the sequences it is made from one after the other.       *)
IsFlat(ss, n, f) ==
  f = [i \in 1..n |-> IF i = 1 THEN ss[i] ELSE f[i - 1] \o ss[i]]

LEMMA FlatIs ==
  ASSUME NEW ss, NEW n \in Nat, NEW f, IsFlat(ss, n, f), NEW i \in 1..n
  PROVE  f[i] = IF i = 1 THEN ss[i] ELSE f[i - 1] \o ss[i]
  BY DEF IsFlat

SameTo(k, f, g) == \A i \in 1..k : f[i] = g[i]

LEMMA FlatOnce ==
  ASSUME NEW ss, NEW tt, NEW m \in Nat, NEW n \in Nat, NEW f, NEW g,
         IsFlat(ss, m, f), IsFlat(tt, n, g),
         NEW k \in Nat, k <= m, k <= n, SameTo(k, ss, tt)
  PROVE  SameTo(k, f, g)
<1> DEFINE T == {i \in 1..k : f[i] # g[i]}
<1>1. SUFFICES ASSUME T # {} PROVE FALSE
  BY DEF SameTo
<1>2. T \subseteq Nat
  OBVIOUS
<1>3. PICK i \in T : \A j \in T : i <= j
  BY <1>1, <1>2, LeastNat
<1>4. i \in 1..k /\ i \in 1..m /\ i \in 1..n /\ f[i] # g[i] /\ ss[i] = tt[i]
  BY <1>3 DEF SameTo
<1>5. f[i] = (IF i = 1 THEN ss[i] ELSE f[i - 1] \o ss[i])
  BY <1>4, FlatIs
<1>6. g[i] = (IF i = 1 THEN tt[i] ELSE g[i - 1] \o tt[i])
  BY <1>4, FlatIs
<1>7. i # 1
  BY <1>4, <1>5, <1>6
<1>8. f[i - 1] = g[i - 1]
  <2>1. i - 1 \in 1..k /\ ~(i <= i - 1)
    BY <1>4, <1>7
  <2> QED
    BY <2>1, <1>3
<1> QED
  BY <1>4, <1>5, <1>6, <1>7, <1>8

LEMMA FlatThere ==
  ASSUME NEW ss \in Seq(Tokens), NEW k \in 0..Len(ss)
  PROVE  \E f : IsFlat(ss, k, f) /\ \A i \in 1..k : f[i] \in Tokens
<1> DEFINE Good(n) == \E f : IsFlat(ss, n, f) /\ \A i \in 1..n : f[i] \in Tokens
<1> DEFINE T == {n \in 0..Len(ss) : ~Good(n)}
<1>1. Len(ss) \in Nat /\ \A i \in 1..Len(ss) : ss[i] \in Tokens
  OBVIOUS
<1>2. SUFFICES ASSUME T # {} PROVE FALSE
  OBVIOUS
<1>3. T \subseteq Nat
  BY <1>1
<1> HIDE DEF Good
<1>4. PICK n \in T : \A j \in T : n <= j
  BY <1>2, <1>3, LeastNat
<1>5. n \in 0..Len(ss) /\ ~Good(n) /\ n \in Nat
  BY <1>4, <1>1
<1>6. n # 0
  <2> DEFINE f == [i \in 1..0 |-> <<>>]
  <2>1. IsFlat(ss, 0, f) /\ \A i \in 1..0 : f[i] \in Tokens
    BY DEF IsFlat
  <2>2. Good(0)
    BY <2>1 DEF Good
  <2> QED
    BY <2>2, <1>5
<1>7. Good(n - 1)
  <2>1. n - 1 \in 0..Len(ss) /\ ~(n <= n - 1)
    BY <1>5, <1>6, <1>1
  <2> QED
    BY <2>1, <1>4
<1>8. PICK f : IsFlat(ss, n - 1, f) /\ \A i \in 1..(n - 1) : f[i] \in Tokens
  BY <1>7 DEF Good
<1> DEFINE last == IF n = 1 THEN ss[1] ELSE f[n - 1] \o ss[n]
           g == [i \in 1..n |-> IF i = n THEN last ELSE f[i]]
<1>9. last \in Tokens
  <2>1. CASE n = 1
    BY <2>1, <1>1, <1>5
  <2>2. CASE n # 1
    <3>1. n - 1 \in 1..(n - 1) /\ n \in 1..Len(ss)
      BY <1>5, <1>6, <2>2, <1>1
    <3>2. f[n - 1] \in Tokens /\ ss[n] \in Tokens
      BY <3>1, <1>8, <1>1
    <3> QED
      BY <3>2, <2>2, Cat
  <2> QED
    BY <2>1, <2>2
<1>10. ASSUME NEW i \in 1..n
       PROVE  /\ g[i] = IF i = 1 THEN ss[i] ELSE g[i - 1] \o ss[i]
              /\ g[i] \in Tokens
  <2>1. CASE i = n
    <3>1. n # 1 => g[i - 1] = f[n - 1]
      BY <2>1, <1>5, <1>6
    <3> QED
      BY <3>1, <2>1, <1>9
  <2>2. CASE i # n
    <3>1. i \in 1..(n - 1) /\ n - 1 \in Nat
      BY <2>2, <1>5, <1>6
    <3>2. f[i] = IF i = 1 THEN ss[i] ELSE f[i - 1] \o ss[i]
      BY <3>1, <1>8 DEF IsFlat
    <3>3. i # 1 => g[i - 1] = f[i - 1]
      BY <3>1, <1>5
    <3>4. g[i] = f[i]
      BY <2>2
    <3> QED
      BY <3>1, <3>2, <3>3, <3>4, <1>8
  <2> QED
    BY <2>1, <2>2
<1> HIDE DEF last
<1>11. IsFlat(ss, n, g)
  <2>1. g = [i \in 1..n |-> g[i]]
    OBVIOUS
  <2> HIDE DEF g
  <2>2. g = [i \in 1..n |-> IF i = 1 THEN ss[i] ELSE g[i - 1] \o ss[i]]
    BY <2>1, <1>10
  <2> QED
    BY <2>2 DEF IsFlat
<1>12. Good(n)
  BY <1>10, <1>11 DEF Good
<1> QED
  BY <1>12, <1>5

LEMMA FlatAll ==
  ASSUME NEW ss \in Seq(Tokens), NEW f, IsFlat(ss, Len(ss), f), ss # <<>>
  PROVE  FlattenSeq(ss) = f[Len(ss)]
<1> DEFINE n == Len(ss)
           g == CHOOSE h : h = [i \in 1..n |-> IF i = 1 THEN ss[i] ELSE h[i - 1] \o ss[i]]
<1>1. n \in Nat \ {0}
  BY EmptySeq
<1>2. FlattenSeq(ss) = g[n]
  BY <1>1 DEF FlattenSeq
<1>3. g = [i \in 1..n |-> IF i = 1 THEN ss[i] ELSE g[i - 1] \o ss[i]]
  BY DEF IsFlat
<1> HIDE DEF g
<1>4. IsFlat(ss, n, g)
  BY <1>3 DEF IsFlat
<1>5. SameTo(n, f, g)
  <2>1. n \in Nat /\ n <= n /\ SameTo(n, ss, ss)
    BY <1>1 DEF SameTo
  <2>2. IsFlat(ss, n, f)
    OBVIOUS
  <2> HIDE DEF n
  <2> QED
    BY <2>1, <2>2, <1>4, FlatOnce
<1> QED
  BY <1>1, <1>2, <1>5 DEF SameTo

(* Nothing, one more sequence at the end, and one at the beginning.        *)
LEMMA FlattenNone == FlattenSeq(<<>>) = <<>>
  BY DEF FlattenSeq

LEMMA FlattenTypes ==
  ASSUME NEW ss \in Seq(Tokens)
  PROVE  FlattenSeq(ss) \in Tokens
<1>1. CASE ss = <<>>
  <2>1. <<>> \in Tokens
    BY EmptySeq DEF Tokens
  <2> QED
    BY <2>1, <1>1, FlattenNone
<1>2. CASE ss # <<>>
  <2>1. Len(ss) \in Nat \ {0}
    BY <1>2, EmptySeq
  <2>2. PICK f : IsFlat(ss, Len(ss), f) /\ \A i \in 1..Len(ss) : f[i] \in Tokens
    BY <2>1, FlatThere
  <2> QED
    BY <1>2, <2>1, <2>2, FlatAll
<1> QED
  BY <1>1, <1>2

LEMMA FlattenOneMore ==
  ASSUME NEW ss \in Seq(Tokens), NEW s \in Tokens
  PROVE  FlattenSeq(Append(ss, s)) = FlattenSeq(ss) \o s
<1> DEFINE tt == Append(ss, s)
           n == Len(ss)
<1>1. /\ n \in Nat /\ tt \in Seq(Tokens) /\ Len(tt) = n + 1 /\ tt # <<>>
      /\ \A i \in 1..n : tt[i] = ss[i]
      /\ tt[n + 1] = s
  BY AppendProperties
<1> HIDE DEF tt
<1>2. PICK g : IsFlat(tt, n + 1, g)
  <2>1. n + 1 \in 0..Len(tt)
    BY <1>1
  <2> QED
    BY <2>1, <1>1, FlatThere
<1>3. FlattenSeq(tt) = g[n + 1]
  BY <1>1, <1>2, FlatAll
<1>4. g[n + 1] = IF n + 1 = 1 THEN tt[n + 1] ELSE g[n + 1 - 1] \o tt[n + 1]
  <2>1. n + 1 \in Nat /\ n + 1 \in 1..(n + 1)
    BY <1>1
  <2> QED
    BY <2>1, <1>2, FlatIs
<1>5. CASE ss = <<>>
  <2>1. n = 0
    BY <1>5
  <2>2. <<>> \o s = s
    BY CatNothing
  <2>3. g[n + 1] = s
    BY <2>1, <1>4, <1>1
  <2> QED
    BY <2>2, <2>3, <1>3, <1>5, FlattenNone DEF tt
<1>6. CASE ss # <<>>
  <2>1. n \in Nat \ {0}
    BY <1>6, EmptySeq
  <2>2. PICK f : IsFlat(ss, n, f)
    BY <2>1, FlatThere
  <2>3. FlattenSeq(ss) = f[n]
    BY <2>2, <1>6, FlatAll
  <2>4. SameTo(n, g, f)
    <3>1. n + 1 \in Nat /\ n <= n + 1 /\ n <= n /\ n \in Nat /\ SameTo(n, tt, ss)
      BY <2>1, <1>1 DEF SameTo
    <3> HIDE DEF n
    <3> QED
      BY <3>1, <2>2, <1>2, FlatOnce
  <2>5. g[n] = f[n]
    BY <2>1, <2>4 DEF SameTo
  <2>6. g[n + 1] = g[n] \o s
    BY <2>1, <1>1, <1>4
  <2> QED
    BY <2>3, <2>5, <2>6, <1>3 DEF tt
<1> QED
  BY <1>5, <1>6

LEMMA OneBefore ==
  ASSUME NEW n \in Nat, NEW i \in 1..n, i # 1
  PROVE  i - 1 \in 1..n /\ ~(i <= i - 1) /\ i - 1 + 1 = i
  OBVIOUS

LEMMA FlattenOneBefore ==
  ASSUME NEW ss \in Seq(Tokens), NEW tt \in Seq(Tokens), tt # <<>>,
         Len(tt) = Len(ss) + 1, \A i \in 1..Len(ss) : tt[i + 1] = ss[i]
  PROVE  FlattenSeq(tt) = tt[1] \o FlattenSeq(ss)
<1> DEFINE n == Len(ss)
<1>1. n \in Nat /\ n + 1 \in Nat
  OBVIOUS
<1>2. tt[1] \in Tokens /\ \A i \in 1..n : ss[i] \in Tokens
  BY <1>1
<1>3. PICK g : IsFlat(tt, n + 1, g) /\ \A i \in 1..(n + 1) : g[i] \in Tokens
  <2>1. n + 1 \in 0..Len(tt)
    BY <1>1
  <2> QED
    BY <2>1, FlatThere
<1>7. ASSUME NEW j \in 1..(n + 1)
      PROVE  g[j] = IF j = 1 THEN tt[j] ELSE g[j - 1] \o tt[j]
  BY <1>1, <1>3 DEF IsFlat
<1>4. FlattenSeq(tt) = g[n + 1] /\ g[1] = tt[1]
  <2>1. FlattenSeq(tt) = g[n + 1]
    BY <1>3, FlatAll
  <2>2. 1 \in 1..(n + 1)
    BY <1>1
  <2> QED
    BY <2>1, <2>2, <1>7
<1>5. CASE ss = <<>>
  <2>1. n + 1 = 1 /\ tt[1] \o <<>> = tt[1]
    BY <1>5, <1>2, CatNothing
  <2> QED
    BY <2>1, <1>4, <1>5, FlattenNone
<1>6. CASE ss # <<>>
  <2>1. n \in Nat \ {0}
    BY <1>6, EmptySeq
  <2>2. PICK f : IsFlat(ss, n, f) /\ \A i \in 1..n : f[i] \in Tokens
    <3>1. n \in 0..Len(ss)
      BY <2>1
    <3> QED
      BY <3>1, FlatThere
  <2>3. FlattenSeq(ss) = f[n]
    BY <2>2, <1>6, FlatAll
  <2> DEFINE Differ(i) == g[i + 1] # tt[1] \o f[i]
             T         == {i \in 1..n : Differ(i)}
  <2>4. \A i \in 1..n : ~Differ(i)
    <3>1. SUFFICES ASSUME T # {} PROVE FALSE
      OBVIOUS
    <3> HIDE DEF Differ
    <3>2. T \subseteq 1..n /\ 1..n \subseteq Nat
      BY <1>1
    <3>3. PICK i \in T : \A j \in T : i <= j
      BY <3>1, <3>2, LeastNat
    <3>4. i \in 1..n /\ i + 1 \in 1..(n + 1) /\ Differ(i) /\ i + 1 # 1 /\ i + 1 - 1 = i
      BY <1>1
    <3> HIDE DEF T
    <3>5. g[i + 1] = g[i] \o ss[i]
      <4> DEFINE j == i + 1
      <4>1. j \in 1..(n + 1) /\ j # 1 /\ j - 1 = i
        BY <3>4
      <4> HIDE DEF n, j
      <4>4. g[j] = IF j = 1 THEN tt[j] ELSE g[j - 1] \o tt[j]
        BY <4>1, <1>7
      <4>5. g[j] = g[i] \o tt[j]
        BY <4>1, <4>4
      <4>2. g[i + 1] = g[i] \o tt[i + 1]
        BY <4>5 DEF j
      <4>3. tt[i + 1] = ss[i]
        BY <3>4 DEF n
      <4> QED
        BY <4>2, <4>3, <3>4
    <3>6. f[i] = IF i = 1 THEN ss[i] ELSE f[i - 1] \o ss[i]
      <4> HIDE DEF n
      <4> QED
        BY <3>4, <2>2 DEF IsFlat
    <3>7. CASE i = 1
      <4>1. g[i + 1] = tt[1] \o f[i]
        BY <3>5, <3>6, <3>7, <1>4
      <4> QED
        BY <4>1, <3>4 DEF Differ
    <3>8. CASE i # 1
      <4>1. i - 1 \in 1..n /\ ~(i <= i - 1) /\ i - 1 + 1 = i
        BY <3>4, <3>8, <1>1, OneBefore
      <4>2. g[i] = tt[1] \o f[i - 1]
        <5>1. i - 1 \notin T
          BY <4>1, <3>3
        <5>2. ~Differ(i - 1)
          BY <5>1, <4>1 DEF T
        <5>3. g[i - 1 + 1] = tt[1] \o f[i - 1]
          BY <5>2 DEF Differ
        <5> QED
          BY <5>3, <4>1
      <4>3. f[i - 1] \in Tokens /\ ss[i] \in Tokens
        BY <4>1, <3>4, <2>2, <1>2
      <4>4. (tt[1] \o f[i - 1]) \o ss[i] = tt[1] \o (f[i - 1] \o ss[i])
        <5>1. tt[1] \in Tokens /\ f[i - 1] \in Tokens /\ ss[i] \in Tokens
          BY <4>3, <1>2
        <5> QED
          BY <5>1, CatThree
      <4> QED
        <5>1. g[i + 1] = tt[1] \o f[i]
          BY <4>2, <4>4, <3>5, <3>6, <3>8
        <5> QED
          BY <5>1, <3>4 DEF Differ
    <3> QED
      BY <3>7, <3>8
  <2>5. g[n + 1] = tt[1] \o f[n]
    <3>1. n \in 1..n
      BY <2>1
    <3> QED
      BY <3>1, <2>4
  <2> QED
    BY <2>3, <2>5, <1>4
<1> QED
  BY <1>5, <1>6
-----------------------------------------------------------------------------
(* A token keeps its kind, and everything but a total.                     *)
LEMMA TotalsAre ==
  ASSUME NEW x \in Token
  PROVE  /\ WithoutTotal(x) \in Token /\ WithoutTotal(x)[1] = x[1]
         /\ x[1] # "crange" => WithoutTotal(x) = x
<1>1. CASE x[1] = "crange"
  <2>1. \/ \E a \in Int, b \in Int : x = <<"crange", a, b>>
        \/ \E a \in Int, b \in Int, n \in Int : x = <<"crange", a, b, n>>
    BY <1>1 DEF Token
  <2>2. x[2] \in Int /\ x[3] \in Int
    BY <2>1
  <2> QED
    BY <1>1, <2>2, TokensAre DEF WithoutTotal
<1>2. CASE x[1] # "crange"
  BY <1>2 DEF WithoutTotal
<1> QED
  BY <1>1, <1>2

LEMMA WithoutTypes ==
  ASSUME NEW s \in Tokens
  PROVE  /\ WithoutTotals(s) \in Tokens /\ Len(WithoutTotals(s)) = Len(s)
         /\ DOMAIN s = 1..Len(s) /\ Len(s) \in Nat
         /\ \A i \in 1..Len(s) : s[i] \in Token /\ WithoutTotals(s)[i] = WithoutTotal(s[i])
<1>1. DOMAIN s = 1..Len(s) /\ Len(s) \in Nat /\ \A i \in 1..Len(s) : s[i] \in Token
  BY DEF Tokens
<1>2. WithoutTotals(s) = [i \in 1..Len(s) |-> WithoutTotal(s[i])]
  BY <1>1 DEF WithoutTotals
<1>3. \A i \in 1..Len(s) : WithoutTotal(s[i]) \in Token
  BY <1>1, TotalsAre
<1>4. WithoutTotals(s) \in Seq(Token) /\ Len(WithoutTotals(s)) = Len(s)
  BY <1>1, <1>2, <1>3
<1> QED
  BY <1>1, <1>2, <1>4 DEF Tokens

LEMMA WithoutBoth ==
  ASSUME NEW s \in Tokens, NEW t \in Tokens
  PROVE  WithoutTotals(s \o t) = WithoutTotals(s) \o WithoutTotals(t)
<1> DEFINE u == s \o t
           a == WithoutTotals(s)
           b == WithoutTotals(t)
<1>1. /\ u \in Tokens /\ Len(u) = Len(s) + Len(t)
      /\ \A i \in 1..Len(u) : u[i] = IF i <= Len(s) THEN s[i] ELSE t[i - Len(s)]
  BY ConcatProperties DEF Tokens
<1>2. a \in Tokens /\ b \in Tokens /\ Len(a) = Len(s) /\ Len(b) = Len(t) /\ Len(s) \in Nat /\ Len(t) \in Nat
  BY WithoutTypes
<1> HIDE DEF u
<1>3. /\ WithoutTotals(u) \in Tokens /\ Len(WithoutTotals(u)) = Len(u)
      /\ \A i \in 1..Len(u) : WithoutTotals(u)[i] = WithoutTotal(u[i])
  BY <1>1, WithoutTypes
<1>4. /\ \A i \in 1..Len(s) : a[i] = WithoutTotal(s[i])
      /\ \A i \in 1..Len(t) : b[i] = WithoutTotal(t[i])
  BY WithoutTypes
<1> HIDE DEF a, b
<1>5. /\ a \o b \in Tokens /\ Len(a \o b) = Len(u)
      /\ \A i \in 1..Len(u) : (a \o b)[i] = IF i <= Len(s) THEN a[i] ELSE b[i - Len(s)]
  <2>1. /\ a \o b \in Seq(Token) /\ Len(a \o b) = Len(a) + Len(b)
        /\ \A i \in 1..(Len(a) + Len(b)) : (a \o b)[i] = IF i <= Len(a) THEN a[i] ELSE b[i - Len(a)]
    <3>1. a \in Seq(Token) /\ b \in Seq(Token)
      BY <1>2 DEF Tokens
    <3> QED
      BY <3>1, ConcatProperties
  <2> QED
    BY <2>1, <1>1, <1>2 DEF Tokens
<1>6. \A i \in 1..Len(u) : WithoutTotals(u)[i] = (a \o b)[i]
  <2> SUFFICES ASSUME NEW i \in 1..Len(u)
               PROVE  WithoutTotals(u)[i] = (a \o b)[i]
    OBVIOUS
  <2>0. i \in Nat /\ 1 <= i /\ i <= Len(s) + Len(t)
    BY <1>1, <1>2
  <2>1. CASE i <= Len(s)
    <3>1. i \in 1..Len(s)
      BY <2>0, <2>1, <1>2
    <3> QED
      BY <2>1, <3>1, <1>1, <1>3, <1>4, <1>5
  <2>2. CASE ~(i <= Len(s))
    <3>1. i - Len(s) \in 1..Len(t)
      BY <2>0, <2>2, <1>2
    <3> QED
      BY <2>2, <3>1, <1>1, <1>3, <1>4, <1>5
  <2> QED
    BY <2>1, <2>2
<1>7. WithoutTotals(u) = a \o b
  BY <1>3, <1>5, <1>6, SeqEqual DEF Tokens
<1> QED
  BY <1>7 DEF u, a, b

LEMMA WithoutNothing ==
  ASSUME NEW s \in Tokens, \A i \in 1..Len(s) : s[i][1] # "crange"
  PROVE  WithoutTotals(s) = s
<1>1. /\ WithoutTotals(s) \in Tokens /\ Len(WithoutTotals(s)) = Len(s)
      /\ \A i \in 1..Len(s) : s[i] \in Token /\ WithoutTotals(s)[i] = WithoutTotal(s[i])
  BY WithoutTypes
<1>2. \A i \in 1..Len(s) : WithoutTotals(s)[i] = s[i]
  BY <1>1, TotalsAre
<1> QED
  BY <1>1, <1>2, SeqEqual DEF Tokens

(* Bytes, and the parts of them.                                           *)
LEMMA AsSeq ==
  ASSUME NEW S, NEW n \in Nat, NEW f \in [1..n -> S]
  PROVE  f \in Seq(S) /\ Len(f) = n
  OBVIOUS

LEMMA TwoParts ==
  ASSUME NEW S, NEW s \in Seq(S), NEW t \in Seq(S), NEW u \in Seq(S),
         Len(u) = Len(s) + Len(t),
         \A i \in 1..Len(s) : u[i] = s[i],
         \A i \in 1..Len(t) : u[Len(s) + i] = t[i]
  PROVE  u = s \o t
<1>1. Len(s) \in Nat /\ Len(t) \in Nat
  OBVIOUS
<1> DEFINE c == s \o t
<1>2. /\ c \in Seq(S) /\ Len(c) = Len(s) + Len(t)
      /\ \A i \in 1..(Len(s) + Len(t)) : c[i] = IF i <= Len(s) THEN s[i] ELSE t[i - Len(s)]
  BY ConcatProperties
<1> HIDE DEF c
<1>3. ASSUME NEW i \in 1..Len(u)
      PROVE  u[i] = c[i]
  <2>1. CASE i <= Len(s)
    BY <2>1, <1>1, <1>2
  <2>2. CASE ~(i <= Len(s))
    <3> DEFINE j == i - Len(s)
    <3>1. j \in 1..Len(t) /\ i = Len(s) + j /\ i \in 1..(Len(s) + Len(t))
      BY <2>2, <1>1
    <3> HIDE DEF j
    <3>2. u[i] = t[j]
      BY <3>1
    <3>3. c[i] = t[j]
      <4>1. i - Len(s) = j
        BY <3>1, <1>1
      <4> QED
        BY <4>1, <3>1, <2>2, <1>2
    <3> QED
      BY <3>2, <3>3
  <2> QED
    BY <2>1, <2>2
<1>4. u = c
  BY <1>2, <1>3, SeqEqual
<1> QED
  BY <1>4 DEF c

Byte(n) == <<"byte", n>>

LEMMA BytesTypes ==
  ASSUME NEW a \in Nat, NEW b \in Nat, a <= b
  PROVE  /\ Bytes(a, b) \in Tokens /\ Len(Bytes(a, b)) = b - a
         /\ \A i \in 1..(b - a) : Bytes(a, b)[i] = Byte(a + i)
<1> DEFINE n == b - a
<1>1. n \in Nat /\ \A i \in 1..n : a + i \in Nat
  OBVIOUS
<1>2. \A k \in Nat : Byte(k) \in Token
  BY TokensAre DEF Byte
<1>3. Bytes(a, b) = [i \in 1..n |-> Byte(a + i)]
  BY DEF Bytes, Byte
<1> HIDE DEF n
<1>4. Bytes(a, b) \in [1..n -> Token]
  BY <1>1, <1>2, <1>3
<1>5. Bytes(a, b) \in Seq(Token) /\ Len(Bytes(a, b)) = n
  BY <1>1, <1>4, AsSeq
<1>6. \A i \in 1..n : Bytes(a, b)[i] = Byte(a + i)
  BY <1>3
<1> QED
  BY <1>5, <1>6 DEF n, Tokens

LEMMA BytesMore ==
  ASSUME NEW a \in Nat, NEW b \in Nat, NEW c \in Nat, a <= b, b <= c
  PROVE  Bytes(a, b) \o Bytes(b, c) = Bytes(a, c)
<1> DEFINE s == Bytes(a, b)
           t == Bytes(b, c)
           u == Bytes(a, c)
<1>1. a <= c
  OBVIOUS
<1>2. s \in Seq(Token) /\ Len(s) = b - a /\ \A i \in 1..(b - a) : s[i] = Byte(a + i)
  BY BytesTypes DEF Tokens
<1>3. t \in Seq(Token) /\ Len(t) = c - b /\ \A i \in 1..(c - b) : t[i] = Byte(b + i)
  BY BytesTypes DEF Tokens
<1>4. u \in Seq(Token) /\ Len(u) = c - a /\ \A i \in 1..(c - a) : u[i] = Byte(a + i)
  BY <1>1, BytesTypes DEF Tokens
<1> HIDE DEF s, t, u
<1>5. Len(u) = Len(s) + Len(t)
  BY <1>2, <1>3, <1>4
<1>6. ASSUME NEW i \in 1..Len(s)
      PROVE  u[i] = s[i]
  <2>1. i \in 1..(b - a) /\ i \in 1..(c - a)
    BY <1>2
  <2> QED
    BY <2>1, <1>2, <1>4
<1>7. ASSUME NEW i \in 1..Len(t)
      PROVE  u[Len(s) + i] = t[i]
  <2> DEFINE j == Len(s) + i
  <2>1. i \in 1..(c - b) /\ j \in 1..(c - a) /\ a + j = b + i
    BY <1>2, <1>3
  <2> HIDE DEF j
  <2>2. u[j] = Byte(a + j) /\ t[i] = Byte(b + i)
    BY <2>1, <1>3, <1>4
  <2>3. u[j] = t[i]
    BY <2>1, <2>2
  <2> QED
    BY <2>3 DEF j
<1>8. u = s \o t
  BY <1>2, <1>3, <1>4, <1>5, <1>6, <1>7, TwoParts
<1> QED
  BY <1>8 DEF s, t, u

LEMMA BytesCut ==
  ASSUME NEW a \in Nat, NEW b \in Nat, NEW n \in Nat, a + n <= b
  PROVE  First(n, Bytes(a, b)) = Bytes(a, a + n) /\ Rest(n, Bytes(a, b)) = Bytes(a + n, b)
<1> DEFINE s == Bytes(a, a + n)
           t == Bytes(a + n, b)
           f == First(n, Bytes(a, b))
           r == Rest(n, Bytes(a, b))
<1>1. a <= b /\ a + n \in Nat /\ a <= a + n
  OBVIOUS
<1>2. /\ s \in Seq(Token) /\ t \in Seq(Token) /\ Bytes(a, b) \in Seq(Token)
      /\ Len(s) = n /\ Len(Bytes(a, b)) = b - a
  <2>1. s \in Tokens /\ Len(s) = a + n - a
    BY <1>1, BytesTypes
  <2>2. t \in Tokens
    BY <1>1, BytesTypes
  <2>3. Bytes(a, b) \in Tokens /\ Len(Bytes(a, b)) = b - a
    BY <1>1, BytesTypes
  <2> QED
    BY <2>1, <2>2, <2>3 DEF Tokens
<1>3. s \o t = Bytes(a, b)
  BY <1>1, BytesMore
<1>4. f \in Seq(Token) /\ r \in Seq(Token) /\ f \o r = Bytes(a, b) /\ Len(f) = n
  <2>1. Least(n, b - a) = n
    BY LeastIs
  <2> QED
    BY <1>2, <2>1, Parts
<1> HIDE DEF s, t, f, r
<1>5. f \o r = s \o t /\ Len(f) <= Len(s)
  BY <1>2, <1>3, <1>4
<1>6. f = First(Len(f), s) /\ r = Rest(Len(f), s) \o t
  <2>1. Cut(Bytes(a, b), f, r) /\ Cut(Bytes(a, b), s, t)
    BY <1>2, <1>3, <1>4 DEF Cut, Tokens
  <2>2. Len(f) <= Len(s)
    BY <1>5
  <2> QED
    BY <2>1, <2>2, CutTokens
<1>7. First(n, s) = s /\ Rest(n, s) = <<>>
  BY <1>2, FirstOfAll
<1>8. <<>> \o t = t
  BY <1>2, ConcatEmptySeq
<1> QED
  BY <1>4, <1>6, <1>7, <1>8 DEF s, t, f, r
-----------------------------------------------------------------------------
(* The parts of a request.                                                 *)
End             == <<<<"end">>>>
RequestLine(r)  == <<"request", r.verb, r.path>>
CloseLines(r)   == IF r.close THEN <<<<"close">>>> ELSE <<>>
LengthLines(r)  == IF r.body > 0 THEN <<<<"length", r.body>>>> ELSE <<>>
RangeLine(r)    == <<"range", r.range[1][2], r.range[1][3]>>

HeadersAnd(range, close, length, s) == range \o (close \o (length \o (End \o s)))

LEMMA RequestIs ==
  ASSUME NEW r, IsRequest(r)
  PROVE  /\ r.verb \in Text /\ r.path \in Text
         /\ r.body \in Nat /\ r.body <= Forever /\ r.close \in BOOLEAN
         /\ \/ r.range = <<>>
            \/ /\ r.range = <<RangeLine(r)>>
               /\ r.range[1][2] \in Nat /\ r.range[1][3] \in Nat /\ r.range[1][2] <= r.range[1][3]
               /\ ~(r.verb = "POST" /\ r.path = "control")
<1>1. r \in [verb : Text, path : Text, range : Ranges, body : 0..Forever, close : BOOLEAN]
  BY DEF IsRequest, Request, Text
<1>2. Forever \in Nat
  BY ConnectionAssumption DEF ConnectionAssumption
<1>3. /\ r.verb \in Text /\ r.path \in Text /\ r.range \in Ranges /\ r.body \in 0..Forever
      /\ r.close \in BOOLEAN
  BY <1>1
<1>4. CASE r.range = <<>>
  BY <1>2, <1>3, <1>4
<1>5. CASE r.range # <<>>
  <2>1. PICK a \in 0..Forever, b \in 0..Forever : r.range = <<<<"range", a, b>>>>
    BY <1>3, <1>5 DEF Ranges
  <2>2. r.range[1] = <<"range", a, b>> /\ a \in Nat /\ b \in Nat
    BY <2>1, <1>2
  <2>3. r.range[1][2] = a /\ r.range[1][3] = b
    BY <2>2
  <2>4. r.range[1][2] <= r.range[1][3] /\ ~(r.verb = "POST" /\ r.path = "control")
    BY <1>5 DEF IsRequest
  <2> QED
    BY <1>2, <1>3, <2>1, <2>2, <2>3, <2>4 DEF RangeLine
<1> QED
  BY <1>4, <1>5

LEMMA PartsTypes ==
  ASSUME NEW r, IsRequest(r)
  PROVE  /\ RequestLine(r) \in Token /\ End \in Tokens /\ <<>> \in Tokens
         /\ r.range \in Tokens /\ CloseLines(r) \in Tokens /\ LengthLines(r) \in Tokens
         /\ Bytes(0, r.body) \in Tokens
<1>0. <<>> \in Tokens
  BY EmptySeq DEF Tokens
<1>1. RequestLine(r) \in Token
  BY RequestIs, TokensAre DEF RequestLine
<1>2. End \in Tokens
  BY TokensAre DEF End, Tokens
<1>3. r.range \in Tokens
  <2>1. CASE r.range = <<>>
    BY <2>1, <1>0
  <2>2. CASE r.range = <<RangeLine(r)>> /\ r.range[1][2] \in Nat /\ r.range[1][3] \in Nat
    <3>1. RangeLine(r) \in Token
      BY <2>2, TokensAre DEF RangeLine
    <3> QED
      BY <3>1, <2>2 DEF Tokens
  <2> QED
    BY <2>1, <2>2, RequestIs
<1>4. CloseLines(r) \in Tokens
  BY <1>0, TokensAre DEF CloseLines, Tokens
<1>5. LengthLines(r) \in Tokens
  <2>1. <<"length", r.body>> \in Token
    BY RequestIs, TokensAre
  <2> QED
    BY <2>1, <1>0 DEF LengthLines, Tokens
<1>6. Bytes(0, r.body) \in Tokens
  <2>1. r.body \in Nat /\ 0 \in Nat /\ 0 <= r.body
    BY RequestIs
  <2> QED
    BY <2>1, BytesTypes
<1> QED
  BY <1>0, <1>1, <1>2, <1>3, <1>4, <1>5, <1>6

LEMMA HeadersTypes ==
  ASSUME NEW a \in Tokens, NEW b \in Tokens, NEW c \in Tokens, NEW s \in Tokens
  PROVE  HeadersAnd(a, b, c, s) \in Tokens
<1>1. End \in Tokens
  BY TokensAre DEF End, Tokens
<1>2. End \o s \in Tokens
  BY <1>1, Cat
<1>3. c \o (End \o s) \in Tokens
  BY <1>2, Cat
<1>4. b \o (c \o (End \o s)) \in Tokens
  BY <1>3, Cat
<1> QED
  BY <1>4, Cat DEF HeadersAnd

SevenTokens(q, a, b, c, d, e, s) ==
  /\ q \in Tokens /\ a \in Tokens /\ b \in Tokens /\ c \in Tokens
  /\ d \in Tokens /\ e \in Tokens /\ s \in Tokens

SevenTogether(q, a, b, c, d, e, s) ==
  /\ ((((q \o a) \o b) \o c) \o d) \o e \in Tokens
  /\ (((((q \o a) \o b) \o c) \o d) \o e) \o s
       = q \o (a \o (b \o (c \o (d \o (e \o s)))))

LEMMA SixParts ==
  ASSUME NEW q, NEW a, NEW b, NEW c, NEW d, NEW e, NEW s, SevenTokens(q, a, b, c, d, e, s)
  PROVE  SevenTogether(q, a, b, c, d, e, s)
<1>0. /\ q \in Tokens /\ a \in Tokens /\ b \in Tokens /\ c \in Tokens
      /\ d \in Tokens /\ e \in Tokens /\ s \in Tokens
  BY DEF SevenTokens
<1> DEFINE qa == q \o a
           qb == qa \o b
           qc == qb \o c
           qd == qc \o d
           qe == qd \o e
           es == e \o s
           ds == d \o es
           cs == c \o ds
           bs == b \o cs
<1>1. qa \in Tokens
  <2>1. q \in Tokens /\ a \in Tokens
    BY <1>0
  <2> QED
    BY <2>1, Cat
<1>2. qb \in Tokens
  <2>1. qa \in Tokens /\ b \in Tokens
    BY <1>0, <1>1
  <2> QED
    BY <2>1, Cat
<1>3. qc \in Tokens
  <2>1. qb \in Tokens /\ c \in Tokens
    BY <1>0, <1>2
  <2> QED
    BY <2>1, Cat
<1>4. qd \in Tokens
  <2>1. qc \in Tokens /\ d \in Tokens
    BY <1>0, <1>3
  <2> QED
    BY <2>1, Cat
<1>5. qe \in Tokens
  <2>1. qd \in Tokens /\ e \in Tokens
    BY <1>0, <1>4
  <2> QED
    BY <2>1, Cat
<1>6. es \in Tokens
  <2>1. e \in Tokens /\ s \in Tokens
    BY <1>0
  <2> QED
    BY <2>1, Cat
<1>7. ds \in Tokens
  <2>1. d \in Tokens /\ es \in Tokens
    BY <1>0, <1>6
  <2> QED
    BY <2>1, Cat
<1>8. cs \in Tokens
  <2>1. c \in Tokens /\ ds \in Tokens
    BY <1>0, <1>7
  <2> QED
    BY <2>1, Cat
<1>9. bs \in Tokens
  <2>1. b \in Tokens /\ cs \in Tokens
    BY <1>0, <1>8
  <2> QED
    BY <2>1, Cat
<1> HIDE DEF qa, qb, qc, qd, qe, es, ds, cs, bs
<1>11. qe \o s = qd \o es
  <2>1. qd \in Tokens /\ e \in Tokens /\ s \in Tokens
    BY <1>0, <1>4
  <2>2. (qd \o e) \o s = qd \o (e \o s)
    BY <2>1, CatThree
  <2> QED
    BY <2>2 DEF qe, es
<1>12. qd \o es = qc \o ds
  <2>1. qc \in Tokens /\ d \in Tokens /\ es \in Tokens
    BY <1>0, <1>3, <1>6
  <2>2. (qc \o d) \o es = qc \o (d \o es)
    BY <2>1, CatThree
  <2> QED
    BY <2>2 DEF qd, ds
<1>13. qc \o ds = qb \o cs
  <2>1. qb \in Tokens /\ c \in Tokens /\ ds \in Tokens
    BY <1>0, <1>2, <1>7
  <2>2. (qb \o c) \o ds = qb \o (c \o ds)
    BY <2>1, CatThree
  <2> QED
    BY <2>2 DEF qc, cs
<1>14. qb \o cs = qa \o bs
  <2>1. qa \in Tokens /\ b \in Tokens /\ cs \in Tokens
    BY <1>0, <1>1, <1>8
  <2>2. (qa \o b) \o cs = qa \o (b \o cs)
    BY <2>1, CatThree
  <2> QED
    BY <2>2 DEF qb, bs
<1>15. qa \o bs = q \o (a \o bs)
  <2>1. q \in Tokens /\ a \in Tokens /\ bs \in Tokens
    BY <1>0, <1>9
  <2>2. (q \o a) \o bs = q \o (a \o bs)
    BY <2>1, CatThree
  <2> QED
    BY <2>2 DEF qa
<1>16. qe \o s = q \o (a \o bs)
  BY <1>11, <1>12, <1>13, <1>14, <1>15
<1> QED
  BY <1>5, <1>16 DEF SevenTogether, qa, qb, qc, qd, qe, es, ds, cs, bs

LEMMA RequestLinesAre ==
  ASSUME NEW r, IsRequest(r), NEW s \in Tokens
  PROVE  /\ RequestLines(r) \in Tokens
         /\ RequestLines(r) \o s
              = <<RequestLine(r)>> \o HeadersAnd(r.range, CloseLines(r), LengthLines(r),
                                                 Bytes(0, r.body) \o s)
<1> DEFINE q == <<RequestLine(r)>>
           b == CloseLines(r)
           c == LengthLines(r)
           e == Bytes(0, r.body)
<1>1. RequestLines(r) = ((((q \o r.range) \o b) \o c) \o End) \o e
  BY DEF RequestLines, RequestLine, CloseLines, LengthLines, End
<1>2. /\ q \in Tokens /\ r.range \in Tokens /\ b \in Tokens /\ c \in Tokens
      /\ End \in Tokens /\ e \in Tokens
  BY PartsTypes, CatOne
<1> DEFINE a == r.range
           all == ((((q \o a) \o b) \o c) \o End) \o e
<1>3. RequestLines(r) = all
  BY <1>1
<1>4. a \in Tokens
  BY <1>2
<1>10. SevenTokens(q, a, b, c, End, e, s)
  BY <1>2, <1>4 DEF SevenTokens
<1> HIDE DEF q, a, b, c, e
<1>5. /\ all \in Tokens
      /\ all \o s = q \o (a \o (b \o (c \o (End \o (e \o s)))))
  <2>1. SevenTogether(q, a, b, c, End, e, s)
    BY <1>10, SixParts
  <2> QED
    BY <2>1 DEF SevenTogether
<1> HIDE DEF all
<1>6. /\ RequestLines(r) \in Tokens
      /\ RequestLines(r) \o s = q \o (a \o (b \o (c \o (End \o (e \o s)))))
  BY <1>3, <1>5
<1> QED
  BY <1>6 DEF HeadersAnd, q, a, b, c, e
-----------------------------------------------------------------------------
(* What is wanted of what there is.                                        *)
LEMMA BytesWithin ==
  ASSUME NEW n \in Nat, NEW a \in Nat, NEW b \in Nat, a <= b, b <= n
  PROVE  SubSeq(Bytes(0, n), a + 1, b) = Bytes(a, b)
<1> DEFINE s == Bytes(0, n)
           t == Bytes(a, b)
           u == SubSeq(s, a + 1, b)
<1>1. s \in Seq(Token) /\ Len(s) = n /\ \A i \in 1..n : s[i] = Byte(0 + i)
  <2>1. 0 \in Nat /\ 0 <= n /\ n - 0 = n
    OBVIOUS
  <2> QED
    BY <2>1, BytesTypes DEF Tokens
<1>2. t \in Seq(Token) /\ Len(t) = b - a /\ \A i \in 1..(b - a) : t[i] = Byte(a + i)
  BY BytesTypes DEF Tokens
<1> HIDE DEF s, t
<1>3. /\ u \in Seq(Token) /\ Len(u) = b - a
      /\ \A i \in 1..(b - a) : u[i] = s[a + i]
  <2>1. a + 1 \in Int /\ b \in Int /\ \A i \in (a + 1)..b : s[i] \in Token
    <3>1. \A i \in (a + 1)..b : i \in 1..Len(s)
      BY <1>1
    <3> QED
      BY <3>1, <1>1
  <2>2. /\ u \in Seq(Token) /\ Len(u) = IF a + 1 <= b THEN b - (a + 1) + 1 ELSE 0
        /\ \A i \in 1..(b - (a + 1) + 1) : u[i] = s[(a + 1) + i - 1]
    BY <2>1, SubSeqProperties
  <2>3. b - (a + 1) + 1 = b - a /\ \A i \in 1..(b - a) : (a + 1) + i - 1 = a + i
    OBVIOUS
  <2>4. (IF a + 1 <= b THEN b - (a + 1) + 1 ELSE 0) = b - a
    OBVIOUS
  <2> HIDE DEF u
  <2> QED
    BY <2>2, <2>3, <2>4
<1> HIDE DEF u
<1>4. ASSUME NEW i \in 1..(b - a)
      PROVE  u[i] = t[i]
  <2>1. a + i \in 1..n /\ 0 + (a + i) = a + i
    OBVIOUS
  <2>2. s[a + i] = Byte(a + i)
    BY <2>1, <1>1
  <2> QED
    BY <2>2, <1>2, <1>3
<1>5. u = t
  BY <1>2, <1>3, <1>4, SeqEqual
<1> QED
  BY <1>5 DEF s, t, u

LEMMA NotThatPage ==
  ASSUME NEW n \in Nat
  PROVE  Bytes(0, n) # NotFoundPage /\ NotFoundPage \in Tokens
         /\ Len(NotFoundPage) = 1 /\ NotFoundPage[1] = Byte(0)
<1>1. Byte(0) \in Token
  BY TokensAre DEF Byte
<1>2. NotFoundPage = <<Byte(0)>>
  BY DEF NotFoundPage, Byte
<1>3. NotFoundPage \in Tokens /\ Len(NotFoundPage) = 1 /\ NotFoundPage[1] = Byte(0)
  BY <1>1, <1>2 DEF Tokens
<1>4. Len(Bytes(0, n)) = n /\ \A i \in 1..n : Bytes(0, n)[i] = Byte(0 + i)
  <2>1. 0 \in Nat /\ 0 <= n /\ n - 0 = n
    OBVIOUS
  <2> QED
    BY <2>1, BytesTypes
<1>5. ASSUME Bytes(0, n) = NotFoundPage
      PROVE  FALSE
  <2>1. n = 1
    BY <1>3, <1>4, <1>5
  <2>2. Bytes(0, n)[1] = Byte(0 + 1)
    BY <2>1, <1>4
  <2>3. Byte(0 + 1) = Byte(0)
    BY <2>2, <1>3, <1>5
  <2> QED
    BY <2>3 DEF Byte
<1> QED
  BY <1>3, <1>5

(* How much there is of what was asked for.                                *)
Amount(r) == IF r.verb = "POST" /\ r.path = "control" THEN r.body
             ELSE IF r.path \in DOMAIN Size THEN Size[r.path] ELSE 0

(* Whether there is any such thing.                                        *)
IsThere(r) == \/ r.verb = "POST" /\ r.path = "control"
              \/ r.path \in DOMAIN Size
              \/ r.verb = "OPTIONS"

LEMMA ContentIs ==
  ASSUME NEW r, IsRequest(r)
  PROVE  /\ Amount(r) \in Nat /\ Amount(r) <= Forever
         /\ Exists(r) <=> IsThere(r)
         /\ Content(r) = IF IsThere(r) THEN Bytes(0, Amount(r)) ELSE NotFoundPage
<1>1. Amount(r) \in Nat /\ Amount(r) <= Forever
  BY RequestIs, ConnectionAssumption DEF Amount, ConnectionAssumption
<1>2. Bytes(0, 0) = <<>>
  <2>1. Bytes(0, 0) \in Seq(Token) /\ Len(Bytes(0, 0)) = 0
    <3>1. 0 \in Nat /\ 0 <= 0 /\ 0 - 0 = 0
      OBVIOUS
    <3> QED
      BY <3>1, BytesTypes DEF Tokens
  <2> QED
    BY <2>1
<1>3. Content(r) = IF IsThere(r) THEN Bytes(0, Amount(r)) ELSE NotFoundPage
  BY <1>2 DEF Content, IsThere, Amount
<1>4. Exists(r) <=> IsThere(r)
  BY <1>1, <1>3, NotThatPage DEF Exists
<1> QED
  BY <1>1, <1>3, <1>4

(* Where the part begins and ends that was asked for.                      *)
From(r) == r.range[1][2]
UpTo(r) == Least(r.range[1][3] + 1, Amount(r))

LEMMA WantedIs ==
  ASSUME NEW r, IsRequest(r)
  PROVE  /\ Partial(r) <=> IsThere(r) /\ r.range # <<>> /\ From(r) < Amount(r)
         /\ Partial(r) => /\ From(r) \in Nat /\ UpTo(r) \in Nat /\ From(r) < UpTo(r)
                          /\ UpTo(r) <= Amount(r)
                          /\ Wanted(r) = Bytes(From(r), UpTo(r))
         /\ ~Partial(r) => Wanted(r) = Content(r)
         /\ Wanted(r) \in Tokens /\ Len(Wanted(r)) \in Nat
         /\ \A i \in 1..Len(Wanted(r)) : \E n \in Nat : Wanted(r)[i] = Byte(n)
<1> DEFINE n == Amount(r)
           c == Content(r)
<1>1. n \in Nat /\ n <= Forever /\ (Exists(r) <=> IsThere(r))
      /\ c = IF IsThere(r) THEN Bytes(0, n) ELSE NotFoundPage
  BY ContentIs
<1>2. /\ Bytes(0, n) \in Tokens /\ Len(Bytes(0, n)) = n
      /\ \A i \in 1..n : Bytes(0, n)[i] = Byte(0 + i)
  <2>1. 0 \in Nat /\ 0 <= n /\ n - 0 = n
    BY <1>1
  <2> QED
    BY <2>1, <1>1, BytesTypes
<1>3. c \in Tokens /\ \A i \in 1..Len(c) : \E m \in Nat : c[i] = Byte(m)
  <2>1. CASE IsThere(r)
    <3>1. \A i \in 1..n : 0 + i \in Nat
      BY <1>1
    <3> QED
      BY <2>1, <3>1, <1>1, <1>2
  <2>2. CASE ~IsThere(r)
    BY <2>2, <1>1, NotThatPage
  <2> QED
    BY <2>1, <2>2
<1> HIDE DEF n, c
<1>4. ASSUME IsThere(r), r.range # <<>>
      PROVE  /\ From(r) \in Nat /\ UpTo(r) \in Nat
             /\ From(r) < n => /\ From(r) < UpTo(r) /\ UpTo(r) <= n
                               /\ InRange(r, c) = Bytes(From(r), UpTo(r))
                               /\ InRange(r, c) # <<>>
             /\ ~(From(r) < n) => InRange(r, c) = <<>>
  <2> DEFINE f == From(r)
             l == r.range[1][3]
             u == UpTo(r)
  <2>1. f \in Nat /\ l \in Nat /\ f <= l
    BY <1>4, RequestIs DEF From
  <2>2. u = Least(l + 1, n) /\ c = Bytes(0, n) /\ Len(c) = n
    BY <1>1, <1>2, <1>4 DEF UpTo, n
  <2>3. InRange(r, c) = SubSeq(c, f + 1, u)
    BY <2>2 DEF InRange, From
  <2> HIDE DEF l, f, u
  <2>4. u \in Nat /\ u <= n /\ (f < n => f < u) /\ (~(f < n) => u < f + 1)
    BY <2>1, <2>2, <1>1 DEF Least
  <2>5. ASSUME f < n
        PROVE  InRange(r, c) = Bytes(f, u) /\ Bytes(f, u) # <<>>
    <3>1. f <= u
      BY <2>1, <2>4, <2>5
    <3>2. SubSeq(Bytes(0, n), f + 1, u) = Bytes(f, u)
      BY <3>1, <2>1, <2>4, <1>1, BytesWithin
    <3>3. Len(Bytes(f, u)) = u - f /\ Bytes(f, u) \in Tokens
      BY <3>1, <2>1, <2>4, BytesTypes
    <3>4. u - f # 0
      BY <2>1, <2>4, <2>5
    <3> QED
      BY <2>2, <2>3, <3>2, <3>3, <3>4
  <2>6. ASSUME ~(f < n)
        PROVE  InRange(r, c) = <<>>
    BY <2>1, <2>3, <2>4, <2>6, SubSeqEmpty
  <2> QED
    BY <2>1, <2>4, <2>5, <2>6 DEF f, u
<1>5. Partial(r) <=> IsThere(r) /\ r.range # <<>> /\ From(r) < n
  BY <1>1, <1>4 DEF Partial, c
<1>6. ASSUME Partial(r)
      PROVE  /\ From(r) \in Nat /\ UpTo(r) \in Nat /\ From(r) < UpTo(r)
             /\ UpTo(r) <= n
             /\ Wanted(r) = Bytes(From(r), UpTo(r))
             /\ Wanted(r) \in Tokens
             /\ \A i \in 1..Len(Wanted(r)) : \E m \in Nat : Wanted(r)[i] = Byte(m)
  <2>1. /\ From(r) \in Nat /\ UpTo(r) \in Nat /\ From(r) < UpTo(r)
        /\ UpTo(r) <= n
        /\ Wanted(r) = Bytes(From(r), UpTo(r))
    BY <1>4, <1>5, <1>6 DEF Wanted, c
  <2>2. /\ Wanted(r) \in Tokens /\ Len(Wanted(r)) = UpTo(r) - From(r)
        /\ \A i \in 1..(UpTo(r) - From(r)) : Wanted(r)[i] = Byte(From(r) + i)
    <3>1. From(r) <= UpTo(r)
      BY <2>1
    <3> QED
      BY <3>1, <2>1, BytesTypes
  <2>3. \A i \in 1..(UpTo(r) - From(r)) : From(r) + i \in Nat
    BY <2>1
  <2>4. ASSUME NEW i \in 1..Len(Wanted(r))
        PROVE  \E m \in Nat : Wanted(r)[i] = Byte(m)
    <3>1. i \in 1..(UpTo(r) - From(r))
      BY <2>2
    <3>2. From(r) + i \in Nat /\ Wanted(r)[i] = Byte(From(r) + i)
      BY <3>1, <2>2, <2>3
    <3> HIDE <2>1
    <3> QED
      BY <3>2
  <2> QED
    BY <2>1, <2>2, <2>4
<1>7. ASSUME ~Partial(r)
      PROVE  Wanted(r) = c
  BY <1>7 DEF Wanted, c
<1>8. Wanted(r) \in Tokens /\ \A i \in 1..Len(Wanted(r)) : \E m \in Nat : Wanted(r)[i] = Byte(m)
  BY <1>3, <1>6, <1>7
<1>9. Len(Wanted(r)) \in Nat
  BY <1>8 DEF Tokens
<1> QED
  BY <1>5, <1>6, <1>7, <1>8, <1>9 DEF n, c
-----------------------------------------------------------------------------
(* The parts of an answer.                                                 *)
StatusOf(r)   == IF ~Exists(r) THEN 404 ELSE IF Partial(r) THEN 206 ELSE 200
StatusLine(r) == <<"status", StatusOf(r)>>
CRangeLine(r) == <<"crange", From(r), From(r) + Len(Wanted(r)) - 1>>
CRangeLines(r) == IF Partial(r) THEN <<CRangeLine(r)>> ELSE <<>>
LengthLine(r) == <<"length", Len(Wanted(r))>>
LengthAndEnd(r) == <<LengthLine(r), <<"end">>>>

LEMMA LinesTypes ==
  ASSUME NEW r, IsRequest(r)
  PROVE  /\ StatusLine(r) \in Token /\ LengthLine(r) \in Token /\ <<"end">> \in Token
         /\ Partial(r) => CRangeLine(r) \in Token
         /\ <<StatusLine(r)>> \in Tokens /\ CRangeLines(r) \in Tokens /\ LengthAndEnd(r) \in Tokens
         /\ LengthAndEnd(r) = <<LengthLine(r)>> \o End
<1>0. <<>> \in Tokens
  BY EmptySeq DEF Tokens
<1>1. StatusLine(r) \in Token
  <2>1. StatusOf(r) \in Nat
    BY DEF StatusOf
  <2> QED
    BY <2>1, TokensAre DEF StatusLine
<1>2. LengthLine(r) \in Token
  BY WantedIs, TokensAre DEF LengthLine
<1>3. ASSUME Partial(r) PROVE CRangeLine(r) \in Token
  <2>1. From(r) \in Nat /\ UpTo(r) \in Nat /\ From(r) < UpTo(r) /\ Wanted(r) = Bytes(From(r), UpTo(r))
    BY <1>3, WantedIs
  <2>2. Len(Wanted(r)) = UpTo(r) - From(r)
    <3>1. From(r) <= UpTo(r)
      BY <2>1
    <3> QED
      BY <3>1, <2>1, BytesTypes
  <2>3. From(r) + Len(Wanted(r)) - 1 \in Nat
    BY <2>1, <2>2
  <2> QED
    BY <2>1, <2>3, TokensAre DEF CRangeLine
<1>4. <<"end">> \in Token
  BY TokensAre
<1>5. <<StatusLine(r)>> \in Tokens
  BY <1>1 DEF Tokens
<1>6. CRangeLines(r) \in Tokens
  BY <1>0, <1>3 DEF CRangeLines, Tokens
<1>7. LengthAndEnd(r) \in Tokens /\ <<LengthLine(r)>> \in Tokens /\ End \in Tokens
  BY <1>2, <1>4 DEF LengthAndEnd, Tokens, End
<1>8. LengthAndEnd(r) = <<LengthLine(r)>> \o End
  <2> DEFINE a == LengthLine(r)
             b == <<"end">>
  <2>1. <<a>> \in Seq(Token) /\ Len(<<a>>) = 1 /\ <<a>>[1] = a
    BY <1>2
  <2>2. <<b>> \in Seq(Token) /\ Len(<<b>>) = 1 /\ <<b>>[1] = b
    BY <1>4
  <2>3. <<a, b>> \in Seq(Token) /\ Len(<<a, b>>) = 2 /\ <<a, b>>[1] = a /\ <<a, b>>[2] = b
    BY <1>2, <1>4
  <2> HIDE DEF a, b
  <2>5. <<a, b>> = <<a>> \o <<b>>
    <3> DEFINE s == <<a>>
               t == <<b>>
               u == <<a, b>>
    <3>1. Len(u) = Len(s) + Len(t)
      BY <2>1, <2>2, <2>3
    <3>2. \A i \in 1..Len(s) : u[i] = s[i]
      BY <2>1, <2>3
    <3>3. \A i \in 1..Len(t) : u[Len(s) + i] = t[i]
      BY <2>1, <2>2, <2>3
    <3>4. s \in Seq(Token) /\ t \in Seq(Token) /\ u \in Seq(Token)
      BY <2>1, <2>2, <2>3
    <3> HIDE DEF s, t, u
    <3>5. u = s \o t
      BY <3>1, <3>2, <3>3, <3>4, TwoParts
    <3> QED
      BY <3>5 DEF s, t, u
  <2> QED
    BY <2>5 DEF LengthAndEnd, End, a, b
<1> QED
  BY <1>1, <1>2, <1>3, <1>4, <1>5, <1>6, <1>7, <1>8

LEMMA AnswerIs ==
  ASSUME NEW r, IsRequest(r)
  PROVE  /\ AnswerHeaders(r) = (<<StatusLine(r)>> \o CRangeLines(r)) \o LengthAndEnd(r)
         /\ AnswerHeaders(r) \in Tokens /\ AnswerBody(r) \in Tokens /\ Answer(r) \in Tokens
         /\ Answer(r) = AnswerHeaders(r) \o AnswerBody(r)
         /\ WithoutTotals(AnswerBody(r)) = AnswerBody(r)
         /\ WithoutTotals(Wanted(r)) = Wanted(r)
<1>1. AnswerHeaders(r) = (<<StatusLine(r)>> \o CRangeLines(r)) \o LengthAndEnd(r)
  BY DEF AnswerHeaders, StatusLine, StatusOf, CRangeLines, CRangeLine, LengthAndEnd, LengthLine, From
<1>2. AnswerHeaders(r) \in Tokens
  <2>1. <<StatusLine(r)>> \o CRangeLines(r) \in Tokens
    BY LinesTypes, Cat
  <2> QED
    BY <1>1, <2>1, LinesTypes, Cat
<1>3. <<>> \in Tokens
  BY EmptySeq DEF Tokens
<1>4. AnswerBody(r) \in Tokens
  BY <1>3, WantedIs DEF AnswerBody
<1>5. WithoutTotals(Wanted(r)) = Wanted(r)
  <2>1. \A i \in 1..Len(Wanted(r)) : Wanted(r)[i][1] # "crange"
    BY WantedIs DEF Byte
  <2> QED
    BY <2>1, WantedIs, WithoutNothing
<1>6. WithoutTotals(<<>>) = <<>>
  BY <1>3, WithoutNothing
<1> QED
  BY <1>1, <1>2, <1>4, <1>5, <1>6, Cat DEF Answer, AnswerBody

(* What the server gives.  When only the beginning of what there is was     *)
(* asked for, all of it follows headers that announce just the beginning.  *)
GivenBody(r) ==
  IF r.verb = "HEAD" THEN <<>>
  ELSE IF Partial(r) /\ From(r) > 0 THEN Wanted(r) ELSE Content(r)
Given(r) == AnswerHeaders(r) \o GivenBody(r)

LEMMA GivenIs ==
  ASSUME NEW r, IsRequest(r)
  PROVE  /\ GivenBody(r) \in Tokens /\ Given(r) \in Tokens
         /\ Content(r) \in Tokens
         /\ WithoutTotals(GivenBody(r)) = GivenBody(r)
         /\ WithoutTotals(Content(r)) = Content(r)
<1>1. Content(r) \in Tokens /\ WithoutTotals(Content(r)) = Content(r)
  <2>1. Amount(r) \in Nat
    BY ContentIs
  <2>2. CASE IsThere(r)
    <3>1. Content(r) = Bytes(0, Amount(r))
      BY <2>2, ContentIs
    <3>2. 0 \in Nat /\ 0 <= Amount(r) /\ Amount(r) - 0 = Amount(r)
      BY <2>1
    <3>3. /\ Content(r) \in Tokens /\ Len(Content(r)) = Amount(r)
          /\ \A i \in 1..Amount(r) : Content(r)[i] = Byte(0 + i)
      BY <2>1, <3>1, <3>2, BytesTypes
    <3>4. \A i \in 1..Len(Content(r)) : Content(r)[i][1] # "crange"
      BY <3>3 DEF Byte
    <3> QED
      BY <3>3, <3>4, WithoutNothing
  <2>3. CASE ~IsThere(r)
    <3>1. Content(r) = NotFoundPage
      BY <2>3, ContentIs
    <3>2. /\ Content(r) \in Tokens /\ Len(Content(r)) = 1 /\ Content(r)[1] = Byte(0)
      BY <2>1, <3>1, NotThatPage
    <3>4. \A i \in 1..Len(Content(r)) : Content(r)[i][1] # "crange"
      BY <3>2 DEF Byte
    <3> QED
      BY <3>2, <3>4, WithoutNothing
  <2> QED
    BY <2>2, <2>3
<1>2. <<>> \in Tokens
  BY EmptySeq DEF Tokens
<1>3. WithoutTotals(<<>>) = <<>>
  BY <1>2, WithoutNothing
<1>4. GivenBody(r) \in Tokens /\ WithoutTotals(GivenBody(r)) = GivenBody(r)
  BY <1>1, <1>2, <1>3, WantedIs, AnswerIs DEF GivenBody
<1>5. Given(r) \in Tokens
  BY <1>4, AnswerIs, Cat DEF Given
<1> QED
  BY <1>1, <1>4, <1>5

(* Unless just the beginning is asked for, what is given is the answer; and *)
(* it always begins with what is wanted.                                    *)
LEMMA GivenIsAnswer ==
  ASSUME NEW r, IsRequest(r)
  PROVE  /\ ~OnlyBeginning(r) => Given(r) = Answer(r)
         /\ r.verb # "HEAD" => \E z \in Tokens : GivenBody(r) = Wanted(r) \o z
         /\ r.verb = "HEAD" => GivenBody(r) = <<>>
<1>1. GivenBody(r) \in Tokens /\ Content(r) \in Tokens /\ Wanted(r) \in Tokens /\ <<>> \in Tokens
  BY GivenIs, WantedIs, EmptySeq DEF Tokens
<1>2. ASSUME Partial(r), ~(From(r) > 0)
      PROVE  /\ Content(r) = Wanted(r) \o Bytes(UpTo(r), Amount(r))
             /\ Bytes(UpTo(r), Amount(r)) \in Tokens
             /\ UpTo(r) = Amount(r) => Content(r) = Wanted(r)
             /\ From(r) = 0
  <2>1. /\ IsThere(r) /\ From(r) \in Nat /\ UpTo(r) \in Nat /\ UpTo(r) <= Amount(r)
        /\ Wanted(r) = Bytes(From(r), UpTo(r)) /\ Amount(r) \in Nat
    BY <1>2, WantedIs, ContentIs
  <2>2. From(r) = 0
    BY <1>2, <2>1
  <2>3. Content(r) = Bytes(0, Amount(r))
    BY <2>1, ContentIs
  <2>4. 0 \in Nat /\ 0 <= UpTo(r)
    BY <2>1
  <2>5. Bytes(0, UpTo(r)) \o Bytes(UpTo(r), Amount(r)) = Bytes(0, Amount(r))
    BY <2>1, <2>4, BytesMore
  <2>6. Bytes(UpTo(r), Amount(r)) \in Tokens
    BY <2>1, BytesTypes
  <2> QED
    BY <2>1, <2>2, <2>3, <2>5, <2>6
<1>3. ASSUME ~Partial(r)
      PROVE  Content(r) = Wanted(r)
  BY <1>3, WantedIs
<1>4. Wanted(r) \o <<>> = Wanted(r)
  BY <1>1, CatNothing
<1>5. r.verb # "HEAD" => \E z \in Tokens : GivenBody(r) = Wanted(r) \o z
  <2>1. CASE Partial(r) /\ From(r) > 0
    BY <2>1, <1>1, <1>4 DEF GivenBody
  <2>2. CASE Partial(r) /\ ~(From(r) > 0)
    <3> HIDE DEF Bytes
    <3> QED
      BY <2>2, <1>2 DEF GivenBody
  <2>3. CASE ~Partial(r)
    BY <2>3, <1>1, <1>3, <1>4 DEF GivenBody
  <2> QED
    BY <2>1, <2>2, <2>3
<1>6. ASSUME ~OnlyBeginning(r)
      PROVE  GivenBody(r) = AnswerBody(r)
  <2>1. CASE Partial(r) /\ ~(From(r) > 0)
    <3>1. UpTo(r) \in Nat /\ Amount(r) \in Nat /\ UpTo(r) <= Amount(r)
      BY <2>1, WantedIs, ContentIs
    <3>2. From(r) = 0
      BY <2>1, <1>2
    <3>3. ~(UpTo(r) < Amount(r))
      <4>1. IsThere(r) /\ Wanted(r) = Bytes(0, UpTo(r)) /\ Content(r) = Bytes(0, Amount(r))
        BY <3>2, <2>1, WantedIs, ContentIs
      <4>2. Len(Wanted(r)) = UpTo(r) /\ Len(Content(r)) = Amount(r)
        <5>1. /\ 0 \in Nat /\ 0 <= UpTo(r) /\ 0 <= Amount(r)
              /\ UpTo(r) - 0 = UpTo(r) /\ Amount(r) - 0 = Amount(r)
          BY <3>1
        <5> QED
          BY <4>1, <5>1, <3>1, BytesTypes
      <4>3. r.range[1][2] = 0
        BY <3>2 DEF From
      <4> QED
        BY <4>2, <4>3, <2>1, <1>6 DEF OnlyBeginning
    <3>4. UpTo(r) = Amount(r)
      BY <3>1, <3>3
    <3>5. Content(r) = Wanted(r)
      BY <3>4, <2>1, <1>2
    <3> QED
      BY <3>5, <2>1 DEF GivenBody, AnswerBody
  <2>2. CASE ~Partial(r)
    BY <2>2, <1>3 DEF GivenBody, AnswerBody
  <2>3. CASE Partial(r) /\ From(r) > 0
    BY <2>3 DEF GivenBody, AnswerBody
  <2> QED
    BY <2>1, <2>2, <2>3
<1>7. ~OnlyBeginning(r) => Given(r) = Answer(r)
  BY <1>6 DEF Given, Answer
<1> QED
  BY <1>5, <1>7 DEF GivenBody

-----------------------------------------------------------------------------
(* The requests of a script after the first k, and their answers.          *)
IsScript(script) == script \in Seq(Request) /\ \A i \in DOMAIN script : IsRequest(script[i])

AskedFrom(script, k)    == FlattenSeq([i \in 1..(Len(script) - k) |-> RequestLines(script[k + i])])
Answered(script, k) == FlattenSeq([i \in 1..k |-> Given(script[i])])

LEMMA ScriptIs ==
  ASSUME NEW script, IsScript(script)
  PROVE  Len(script) \in Nat /\ \A i \in 1..Len(script) : IsRequest(script[i])
<1>1. DOMAIN script = 1..Len(script) /\ Len(script) \in Nat
  BY DEF IsScript
<1> QED
  BY <1>1 DEF IsScript

LEMMA AskedTypes ==
  ASSUME NEW script, IsScript(script), NEW k \in 0..Len(script)
  PROVE  /\ [i \in 1..(Len(script) - k) |-> RequestLines(script[k + i])] \in Seq(Tokens)
         /\ Len([i \in 1..(Len(script) - k) |-> RequestLines(script[k + i])]) = Len(script) - k
         /\ AskedFrom(script, k) \in Tokens
<1> DEFINE n == Len(script) - k
           ss == [i \in 1..n |-> RequestLines(script[k + i])]
<1>1. n \in Nat /\ \A i \in 1..n : k + i \in 1..Len(script)
  BY ScriptIs
<1>2. <<>> \in Tokens
  BY EmptySeq DEF Tokens
<1>3. \A i \in 1..n : RequestLines(script[k + i]) \in Tokens
  BY <1>1, <1>2, ScriptIs, RequestLinesAre
<1> HIDE DEF n
<1>4. ss \in [1..n -> Tokens]
  BY <1>3
<1>5. ss \in Seq(Tokens) /\ Len(ss) = n
  BY <1>1, <1>4, AsSeq
<1>6. FlattenSeq(ss) \in Tokens
  BY <1>5, FlattenTypes DEF Tokens
<1> QED
  BY <1>5, <1>6 DEF AskedFrom, n

LEMMA AskedNone ==
  ASSUME NEW script, IsScript(script)
  PROVE  AskedFrom(script, Len(script)) = <<>>
<1> DEFINE ss == [i \in 1..(Len(script) - Len(script)) |-> RequestLines(script[Len(script) + i])]
<1>1. Len(script) \in 0..Len(script) /\ Len(script) - Len(script) = 0
  BY ScriptIs
<1>2. ss \in Seq(Tokens) /\ Len(ss) = 0
  BY <1>1, AskedTypes
<1>3. ss = <<>>
  BY <1>2
<1> QED
  BY <1>3, FlattenNone DEF AskedFrom

LEMMA AskedAll ==
  ASSUME NEW script, IsScript(script)
  PROVE  FlattenSeq([i \in DOMAIN script |-> RequestLines(script[i])]) = AskedFrom(script, 0)
<1>1. DOMAIN script = 1..Len(script) /\ Len(script) \in Nat
  BY DEF IsScript
<1>2. Len(script) - 0 = Len(script) /\ \A i \in 1..Len(script) : 0 + i = i
  BY <1>1
<1>3. [i \in DOMAIN script |-> RequestLines(script[i])]
        = [i \in 1..(Len(script) - 0) |-> RequestLines(script[0 + i])]
  BY <1>1, <1>2
<1> QED
  BY <1>3 DEF AskedFrom

LEMMA AskedNext ==
  ASSUME NEW script, IsScript(script), NEW k \in 0..Len(script), k # Len(script)
  PROVE  /\ k + 1 \in 0..Len(script) /\ k + 1 \in 1..Len(script) /\ IsRequest(script[k + 1])
         /\ AskedFrom(script, k) = RequestLines(script[k + 1]) \o AskedFrom(script, k + 1)
<1> DEFINE n == Len(script)
           ss == [i \in 1..(n - (k + 1)) |-> RequestLines(script[(k + 1) + i])]
           tt == [i \in 1..(n - k) |-> RequestLines(script[k + i])]
<1>1. k + 1 \in 0..n /\ k + 1 \in 1..n /\ IsRequest(script[k + 1]) /\ n \in Nat
  BY ScriptIs
<1>2. ss \in Seq(Tokens) /\ Len(ss) = n - (k + 1)
  BY <1>1, AskedTypes
<1>3. tt \in Seq(Tokens) /\ Len(tt) = n - k
  BY AskedTypes
<1>4. Len(tt) = Len(ss) + 1 /\ tt # <<>>
  <2> HIDE DEF ss, tt
  <2>1. Len(tt) # 0
    BY <1>1, <1>3
  <2> QED
    BY <2>1, <1>1, <1>2, <1>3
<1>5. ASSUME NEW i \in 1..Len(ss)
      PROVE  tt[i + 1] = ss[i]
  <2>1. i \in 1..(n - (k + 1)) /\ i + 1 \in 1..(n - k) /\ k + (i + 1) = (k + 1) + i
    BY <1>1, <1>2
  <2>2. ss[i] = RequestLines(script[(k + 1) + i])
    BY <2>1
  <2>3. tt[i + 1] = RequestLines(script[k + (i + 1)])
    BY <2>1
  <2> QED
    BY <2>1, <2>2, <2>3
<1>6. tt[1] = RequestLines(script[k + 1])
  <2>1. 1 \in 1..(n - k)
    BY <1>1
  <2> QED
    BY <2>1
<1> HIDE DEF ss, tt
<1>7. FlattenSeq(tt) = tt[1] \o FlattenSeq(ss)
  BY <1>2, <1>3, <1>4, <1>5, FlattenOneBefore DEF Tokens
<1>8. AskedFrom(script, k) = FlattenSeq(tt) /\ AskedFrom(script, k + 1) = FlattenSeq(ss)
  BY DEF AskedFrom, ss, tt
<1> QED
  BY <1>1, <1>6, <1>7, <1>8

LEMMA AnsweredTypes ==
  ASSUME NEW script, IsScript(script), NEW k \in 0..Len(script)
  PROVE  /\ [i \in 1..k |-> Given(script[i])] \in Seq(Tokens)
         /\ Len([i \in 1..k |-> Given(script[i])]) = k
         /\ Answered(script, k) \in Tokens
<1> DEFINE ss == [i \in 1..k |-> Given(script[i])]
<1>1. k \in Nat /\ \A i \in 1..k : IsRequest(script[i])
  BY ScriptIs
<1>2. \A i \in 1..k : Given(script[i]) \in Tokens
  BY <1>1, GivenIs
<1>3. ss \in [1..k -> Tokens]
  BY <1>2
<1>4. ss \in Seq(Tokens) /\ Len(ss) = k
  BY <1>1, <1>3, AsSeq
<1>5. FlattenSeq(ss) \in Tokens
  BY <1>4, FlattenTypes DEF Tokens
<1> QED
  BY <1>4, <1>5 DEF Answered

LEMMA AnsweredNone ==
  ASSUME NEW script, IsScript(script)
  PROVE  Answered(script, 0) = <<>>
<1> DEFINE ss == [i \in 1..0 |-> Given(script[i])]
<1>1. 0 \in 0..Len(script)
  BY ScriptIs
<1>2. ss \in Seq(Tokens) /\ Len(ss) = 0
  BY <1>1, AnsweredTypes
<1>3. ss = <<>>
  BY <1>2
<1> QED
  BY <1>3, FlattenNone DEF Answered

LEMMA AnsweredNext ==
  ASSUME NEW script, IsScript(script), NEW k \in 1..Len(script)
  PROVE  /\ k \in 0..Len(script) /\ k - 1 \in 0..Len(script)
         /\ Answered(script, k) = Answered(script, k - 1) \o Given(script[k])
<1> DEFINE ss == [i \in 1..(k - 1) |-> Given(script[i])]
           tt == [i \in 1..k |-> Given(script[i])]
<1>1. k \in 0..Len(script) /\ k - 1 \in 0..Len(script) /\ Len(script) \in Nat /\ IsRequest(script[k])
  BY ScriptIs
<1>2. ss \in Seq(Tokens) /\ Len(ss) = k - 1
  BY <1>1, AnsweredTypes
<1>3. tt \in Seq(Tokens) /\ Len(tt) = k
  BY <1>1, AnsweredTypes
<1> DEFINE a == Given(script[k])
<1>4. a \in Tokens
  BY <1>1, GivenIs
<1>5. /\ Append(ss, a) \in Seq(Tokens) /\ Len(Append(ss, a)) = Len(ss) + 1
      /\ \A i \in 1..Len(ss) : Append(ss, a)[i] = ss[i]
      /\ Append(ss, a)[Len(ss) + 1] = a
  <2> HIDE DEF ss, a
  <2> QED
    BY <1>2, <1>4, AppendProperties
<1>6. \A i \in 1..(k - 1) : ss[i] = Given(script[i])
  OBVIOUS
<1>7. \A i \in 1..k : tt[i] = Given(script[i])
  OBVIOUS
<1> HIDE DEF ss, tt, a
<1>8. ASSUME NEW i \in 1..Len(tt)
      PROVE  tt[i] = Append(ss, a)[i]
  <2>1. CASE i = k
    <3>1. Len(ss) + 1 = k /\ k \in 1..k
      BY <1>1, <1>2
    <3> QED
      BY <3>1, <2>1, <1>5, <1>7 DEF a
  <2>2. CASE i # k
    <3>1. i \in 1..(k - 1) /\ i \in 1..k
      BY <2>2, <1>1, <1>3
    <3> QED
      BY <3>1, <1>2, <1>5, <1>6, <1>7
  <2> QED
    BY <2>1, <2>2
<1>9. tt = Append(ss, a)
  <2>1. Len(tt) = Len(Append(ss, a))
    BY <1>1, <1>2, <1>3, <1>5
  <2> QED
    BY <2>1, <1>3, <1>5, <1>8, SeqEqual
<1>10. FlattenSeq(tt) = FlattenSeq(ss) \o a
  BY <1>2, <1>4, <1>9, FlattenOneMore DEF Tokens
<1>11. Answered(script, k) = FlattenSeq(tt) /\ Answered(script, k - 1) = FlattenSeq(ss)
  BY DEF Answered, ss, tt
<1> QED
  BY <1>1, <1>10, <1>11 DEF a

(* The first answers are the beginning of all of them.                     *)
LEMMA AnsweredGoesOn ==
  ASSUME NEW script, IsScript(script), NEW k \in 0..Len(script)
  PROVE  \E z \in Tokens : Answered(script, k) \o z = Answered(script, Len(script))
<1> DEFINE n == Len(script)
           Begins(m) == \E z \in Tokens : Answered(script, n - m) \o z = Answered(script, n)
           T == {m \in 0..n : ~Begins(m)}
<1>1. n \in Nat /\ n \in 0..n /\ <<>> \in Tokens
  BY ScriptIs, EmptySeq DEF Tokens
<1>2. T = {}
  <2>1. SUFFICES ASSUME T # {} PROVE FALSE
    OBVIOUS
  <2> HIDE DEF Begins
  <2>2. T \subseteq Nat
    BY <1>1
  <2>3. PICK m \in T : \A j \in T : m <= j
    BY <2>1, <2>2, LeastNat
  <2>4. m \in 0..n /\ ~Begins(m)
    OBVIOUS
  <2>5. Begins(0)
    <3>1. n - 0 = n /\ Answered(script, n) \in Tokens
      BY <1>1, AnsweredTypes
    <3>2. Answered(script, n - 0) \o <<>> = Answered(script, n)
      BY <3>1, CatNothing
    <3> QED
      BY <3>2, <1>1 DEF Begins
  <2>6. m # 0
    BY <2>4, <2>5
  <2> DEFINE j == n - (m - 1)
  <2>7. m - 1 \in 0..n /\ ~(m <= m - 1) /\ j \in 1..n /\ j - 1 = n - m
    BY <1>1, <2>4, <2>6
  <2>8. Begins(m - 1)
    <3> HIDE DEF j
    <3> QED
      BY <2>3, <2>7
  <2>9. PICK z \in Tokens : Answered(script, j) \o z = Answered(script, n)
    BY <2>8 DEF Begins
  <2> HIDE DEF j, T
  <2>10. /\ Answered(script, j) = Answered(script, j - 1) \o Given(script[j])
         /\ j - 1 \in 0..n
    BY <2>7, AnsweredNext
  <2>11. Answered(script, j - 1) \in Tokens /\ Given(script[j]) \in Tokens
    <3>1. IsRequest(script[j])
      BY <2>7, ScriptIs
    <3> QED
      BY <3>1, <2>10, AnsweredTypes, GivenIs
  <2>12. Answered(script, j - 1) \o (Given(script[j]) \o z) = Answered(script, n)
    <3>1. (Answered(script, j - 1) \o Given(script[j])) \o z
             = Answered(script, j - 1) \o (Given(script[j]) \o z)
      BY <2>11, CatThree
    <3> QED
      BY <3>1, <2>9, <2>10
  <2>13. Given(script[j]) \o z \in Tokens
    BY <2>11, Cat
  <2>14. Begins(m)
    BY <2>7, <2>12, <2>13 DEF Begins
  <2> QED
    BY <2>4, <2>14
<1> HIDE DEF Begins
<1>3. n - k \in 0..n /\ n - (n - k) = k
  BY <1>1
<1>4. Begins(n - k)
  BY <1>2, <1>3
<1> QED
  BY <1>3, <1>4 DEF Begins

LEMMA AnsweredAll ==
  ASSUME NEW script, IsScript(script), \A i \in DOMAIN script : ~OnlyBeginning(script[i])
  PROVE  FlattenSeq([i \in DOMAIN script |-> Answer(script[i])]) = Answered(script, Len(script))
<1>1. DOMAIN script = 1..Len(script)
  BY DEF IsScript
<1>2. \A i \in 1..Len(script) : Answer(script[i]) = Given(script[i])
  BY <1>1, ScriptIs, GivenIsAnswer
<1>3. [i \in DOMAIN script |-> Answer(script[i])] = [i \in 1..Len(script) |-> Given(script[i])]
  BY <1>1, <1>2
<1> QED
  BY <1>3 DEF Answered
-----------------------------------------------------------------------------
(* The types of the connection and of the task.                            *)
Chan == [data : Tokens, end : BOOLEAN]

IsConn(c) ==
  /\ c \in [up : Chan, down : Chan, open : BOOLEAN, reset : BOOLEAN]
  /\ ~c.up.end
  /\ Len(c.up.data) <= Capacity /\ Len(c.down.data) <= Capacity

Tasks ==
  [at : Text, state : Text, lines : Tokens,
   verb : Text, path : Text, last : Text, reuse : BOOLEAN,
   closing : BOOLEAN, range : Seq(Int), remain : Int,
   source : Seq(Tokens), sink : BOOLEAN, posted : Tokens,
   headers : Tokens, answer : Tokens, buffer : Tokens]

LEMMA TextIs == \A v : v \in STRING => v \in Text
  BY DEF Text

LEMMA TokensOf ==
  ASSUME NEW s \in Tokens, NEW n \in Nat
  PROVE  /\ First(n, s) \in Tokens /\ Rest(n, s) \in Tokens /\ Len(s) \in Nat
         /\ First(n, s) \o Rest(n, s) = s
         /\ Len(First(n, s)) = Least(n, Len(s))
         /\ Len(Rest(n, s)) = Len(s) - Least(n, Len(s))
  BY Parts DEF Tokens

LEMMA ConnIs ==
  ASSUME IsConn(conn)
  PROVE  /\ conn = [up |-> conn.up, down |-> conn.down, open |-> conn.open, reset |-> conn.reset]
         /\ conn.up = [data |-> conn.up.data, end |-> conn.up.end]
         /\ conn.down = [data |-> conn.down.data, end |-> conn.down.end]
         /\ conn.up.data \in Tokens /\ conn.down.data \in Tokens
         /\ conn.open \in BOOLEAN /\ conn.reset \in BOOLEAN
         /\ conn.down.end \in BOOLEAN /\ conn.up.end = FALSE
         /\ Len(conn.up.data) <= Capacity /\ Len(conn.down.data) <= Capacity
         /\ Len(conn.up.data) \in Nat /\ Len(conn.down.data) \in Nat
<1>1. conn.up \in Chan /\ conn.down \in Chan
  BY DEF IsConn
<1> QED
  BY <1>1 DEF IsConn, Chan, Tokens

LEMMA TakenUp ==
  ASSUME IsConn(conn), NEW n \in Nat, NEW c, c = Taken("up", n)
  PROVE  /\ IsConn(c)
         /\ c.up.data = Rest(n, conn.up.data)
         /\ c.down = conn.down /\ c.open = conn.open /\ c.reset = conn.reset
<1>1. conn.up \in Chan /\ conn.down \in Chan /\ conn.up.data \in Tokens
  BY DEF IsConn, Chan
<1>2. Rest(n, conn.up.data) \in Tokens /\ Len(Rest(n, conn.up.data)) <= Capacity
  <2>1. /\ Rest(n, conn.up.data) \in Tokens /\ Len(conn.up.data) \in Nat
        /\ Len(Rest(n, conn.up.data)) = Len(conn.up.data) - Least(n, Len(conn.up.data))
    BY <1>1, TokensOf
  <2>2. Least(n, Len(conn.up.data)) \in Nat
    BY <2>1 DEF Least
  <2>3. Len(conn.up.data) <= Capacity /\ Capacity \in Nat
    BY ConnectionAssumption DEF IsConn, ConnectionAssumption
  <2> QED
    BY <2>1, <2>2, <2>3
<1> DEFINE half == [conn.up EXCEPT !.data = Rest(n, conn.up.data)]
<1>3. half \in Chan /\ half.data = Rest(n, conn.up.data) /\ half.end = conn.up.end
  BY <1>1, <1>2 DEF Chan
<1>4. c = [conn EXCEPT !.up = half]
  BY <1>1 DEF Taken, IsConn
<1> HIDE DEF half
<1>5. /\ c.up = half /\ c.down = conn.down /\ c.open = conn.open
      /\ c.reset = conn.reset
      /\ c \in [up : Chan, down : Chan, open : BOOLEAN, reset : BOOLEAN]
  BY <1>3, <1>4 DEF IsConn
<1> QED
  BY <1>2, <1>3, <1>5 DEF IsConn

LEMMA TakenDown ==
  ASSUME IsConn(conn), NEW n \in Nat, NEW c, c = Taken("down", n)
  PROVE  /\ IsConn(c)
         /\ c.down.data = Rest(n, conn.down.data) /\ c.down.end = conn.down.end
         /\ c.up = conn.up /\ c.open = conn.open /\ c.reset = conn.reset
<1>1. conn.up \in Chan /\ conn.down \in Chan /\ conn.down.data \in Tokens
  BY DEF IsConn, Chan
<1>2. Rest(n, conn.down.data) \in Tokens /\ Len(Rest(n, conn.down.data)) <= Capacity
  <2>1. /\ Rest(n, conn.down.data) \in Tokens /\ Len(conn.down.data) \in Nat
        /\ Len(Rest(n, conn.down.data)) = Len(conn.down.data) - Least(n, Len(conn.down.data))
    BY <1>1, TokensOf
  <2>2. Least(n, Len(conn.down.data)) \in Nat
    BY <2>1 DEF Least
  <2>3. Len(conn.down.data) <= Capacity /\ Capacity \in Nat
    BY ConnectionAssumption DEF IsConn, ConnectionAssumption
  <2> QED
    BY <2>1, <2>2, <2>3
<1> DEFINE half == [conn.down EXCEPT !.data = Rest(n, conn.down.data)]
<1>3. half \in Chan /\ half.data = Rest(n, conn.down.data) /\ half.end = conn.down.end
  BY <1>1, <1>2 DEF Chan
<1>4. c = [conn EXCEPT !.down = half]
  BY <1>1 DEF Taken, IsConn
<1> HIDE DEF half
<1>5. /\ c.down = half /\ c.up = conn.up /\ c.open = conn.open
      /\ c.reset = conn.reset
      /\ c \in [up : Chan, down : Chan, open : BOOLEAN, reset : BOOLEAN]
  BY <1>3, <1>4 DEF IsConn
<1> QED
  BY <1>2, <1>3, <1>5 DEF IsConn

(* How many of them there is room for.                                     *)
LEMMA Fits ==
  ASSUME NEW s \in Tokens, NEW t \in Tokens, NEW n \in Int,
         Len(s) <= Capacity, n = Capacity - Len(s)
  PROVE  /\ n \in Nat
         /\ s \o First(n, t) \in Tokens /\ Len(s \o First(n, t)) <= Capacity
<1>1. Capacity \in Nat /\ Len(s) \in Nat /\ Len(t) \in Nat
  BY ConnectionAssumption DEF ConnectionAssumption, Tokens
<1>2. n \in Nat
  BY <1>1
<1>3. First(n, t) \in Tokens /\ Len(First(n, t)) = Least(n, Len(t))
  BY <1>2, TokensOf
<1>4. Least(n, Len(t)) <= n /\ Least(n, Len(t)) \in Nat
  BY <1>1, <1>2 DEF Least
<1>5. s \o First(n, t) \in Tokens /\ Len(s \o First(n, t)) = Len(s) + Len(First(n, t))
  BY <1>3, Cat
<1> QED
  BY <1>1, <1>2, <1>3, <1>4, <1>5

LEMMA SentDown ==
  ASSUME IsConn(conn), NEW s \in Tokens, NEW c, c = Sent("down", s)
  PROVE  /\ IsConn(c) /\ Room("down") \in Nat
         /\ c.down.data = conn.down.data \o First(Room("down"), s)
         /\ c.down.end = conn.down.end
         /\ c.up = conn.up /\ c.open = conn.open /\ c.reset = conn.reset
<1>1. conn.up \in Chan /\ conn.down \in Chan /\ conn.down.data \in Tokens
  BY DEF IsConn, Chan
<1> DEFINE n == Room("down")
           d == conn.down.data \o First(n, s)
<1>2. n \in Nat /\ d \in Tokens /\ Len(d) <= Capacity
  <2>1. Capacity \in Nat /\ Len(conn.down.data) \in Nat /\ Len(conn.down.data) <= Capacity
    BY ConnectionAssumption, ConnIs DEF ConnectionAssumption
  <2>2. n = Capacity - Len(conn.down.data) /\ n \in Int
    BY <2>1 DEF Room
  <2> HIDE DEF n
  <2> QED
    BY <1>1, <2>1, <2>2, Fits
<1> DEFINE half == [conn.down EXCEPT !.data = d]
<1>3. c = [conn EXCEPT !.down = half]
  BY <1>1 DEF Sent, IsConn
<1> HIDE DEF n, d
<1>4. half \in Chan /\ half.data = d /\ half.end = conn.down.end
  BY <1>1, <1>2 DEF Chan
<1> HIDE DEF half
<1>5. /\ c.down = half /\ c.up = conn.up /\ c.open = conn.open
      /\ c.reset = conn.reset
      /\ c \in [up : Chan, down : Chan, open : BOOLEAN, reset : BOOLEAN]
  BY <1>3, <1>4 DEF IsConn
<1>6. IsConn(c)
  BY <1>2, <1>4, <1>5 DEF IsConn
<1> QED
  BY <1>2, <1>4, <1>5, <1>6 DEF n, d

LEMMA SentUp ==
  ASSUME IsConn(conn), NEW s \in Tokens, NEW c, c = Sent("up", s)
  PROVE  /\ IsConn(c) /\ Room("up") \in Nat
         /\ c.up.data = conn.up.data \o First(Room("up"), s)
         /\ c.up.end = conn.up.end
         /\ c.down = conn.down /\ c.open = conn.open /\ c.reset = conn.reset
<1>1. conn.up \in Chan /\ conn.down \in Chan /\ conn.up.data \in Tokens
  BY DEF IsConn, Chan
<1> DEFINE n == Room("up")
           d == conn.up.data \o First(n, s)
<1>2. n \in Nat /\ d \in Tokens /\ Len(d) <= Capacity
  <2>1. Capacity \in Nat /\ Len(conn.up.data) \in Nat /\ Len(conn.up.data) <= Capacity
    BY ConnectionAssumption, ConnIs DEF ConnectionAssumption
  <2>2. n = Capacity - Len(conn.up.data) /\ n \in Int
    BY <2>1 DEF Room
  <2> HIDE DEF n
  <2> QED
    BY <1>1, <2>1, <2>2, Fits
<1> DEFINE half == [conn.up EXCEPT !.data = d]
<1>3. c = [conn EXCEPT !.up = half]
  BY <1>1 DEF Sent, IsConn
<1> HIDE DEF n, d
<1>4. half \in Chan /\ half.data = d /\ half.end = conn.up.end
  BY <1>1, <1>2 DEF Chan
<1> HIDE DEF half
<1>5. /\ c.up = half /\ c.down = conn.down /\ c.open = conn.open
      /\ c.reset = conn.reset
      /\ c \in [up : Chan, down : Chan, open : BOOLEAN, reset : BOOLEAN]
  BY <1>3, <1>4 DEF IsConn
<1>6. IsConn(c)
  BY <1>2, <1>4, <1>5 DEF IsConn
<1> QED
  BY <1>2, <1>4, <1>5, <1>6 DEF n, d

LEMMA Ending ==
  ASSUME IsConn(conn), NEW c, c = [conn EXCEPT !.down.end = TRUE]
  PROVE  /\ IsConn(c) /\ c.down.end
         /\ c.down.data = conn.down.data /\ c.up = conn.up
         /\ c.open = conn.open /\ c.reset = conn.reset
<1>1. conn.up \in Chan /\ conn.down \in Chan /\ conn.down.data \in Tokens
  BY DEF IsConn, Chan
<1> DEFINE half == [conn.down EXCEPT !.end = TRUE]
<1>3. c = [conn EXCEPT !.down = half]
  BY <1>1 DEF IsConn
<1>4. half \in Chan /\ half.data = conn.down.data /\ half.end
  BY <1>1 DEF Chan
<1> HIDE DEF half
<1>5. /\ c.down = half /\ c.up = conn.up /\ c.open = conn.open
      /\ c.reset = conn.reset
      /\ c \in [up : Chan, down : Chan, open : BOOLEAN, reset : BOOLEAN]
  BY <1>3, <1>4 DEF IsConn
<1> QED
  BY <1>4, <1>5 DEF IsConn
-----------------------------------------------------------------------------
(* What the server has yet to take in, and what it has given out, if the   *)
(* other end has still to send unsent and has received got.                *)
Inbound(t, c, unsent) == t.lines \o (c.up.data \o unsent)
Outbound(c, got)      == got \o c.down.data

(* A stream that is kept is that of the path it is kept for.               *)
Kept(t)  == t.source # <<>> => /\ t.last \in DOMAIN Size
                               /\ t.source = <<Bytes(0, Size[t.last])>>
Quiet(t) == t.buffer = <<>> /\ t.sink = FALSE /\ t.posted = <<>>

AskedFor(t, r) == t.verb = r.verb /\ t.path = r.path /\ t.last = r.path

RangeOf(r)  == IF r.range = <<>> THEN <<>> ELSE <<r.range[1][2], RangeMax(r.range[1][3])>>
SourceOf(r) == IF r.path \in DOMAIN Size THEN <<Bytes(0, Size[r.path])>>
               ELSE IF r.verb = "OPTIONS" THEN <<<<>>>> ELSE <<>>
ToSink(r)   == r.verb = "POST" /\ r.path = "control"

(* Between the k-th request and the next.                                  *)
Between(t, in, out, script, k) ==
  /\ t.state \in {"CHECKING", "WAITING"}
  /\ in = AskedFrom(script, k)
  /\ out = Answered(script, k)
  /\ Kept(t) /\ Quiet(t)

(* In the headers of the k-th: a, b and c are those not read yet.          *)
HeadersLeft(t, in, r, a, b, c, rest) ==
  /\ a \in {r.range, <<>>} /\ b \in {CloseLines(r), <<>>} /\ c \in {LengthLines(r), <<>>}
  /\ in = HeadersAnd(a, b, c, Bytes(0, r.body) \o rest)
  /\ t.range  = IF a = r.range THEN <<>> ELSE RangeOf(r)
  /\ t.remain = IF c = LengthLines(r) THEN 0 ELSE r.body
Reading(t, in, out, script, k) ==
  /\ t.state = "RECV_HEADERS" /\ k >= 1
  /\ AskedFor(t, script[k])
  /\ \E a \in Tokens, b \in Tokens, c \in Tokens :
       HeadersLeft(t, in, script[k], a, b, c, AskedFrom(script, k))
  /\ out = Answered(script, k - 1)
  /\ t.reuse => t.verb = "GET" /\ Kept(t)
  /\ Quiet(t)

(* In its body.                                                            *)
Taking(t, in, out, script, k) ==
  LET r == script[k] IN
  /\ t.state = "RECV_BODY" /\ k >= 1
  /\ AskedFor(t, r)
  /\ t.remain \in Nat /\ t.remain <= r.body
  /\ in = Bytes(r.body - t.remain, r.body) \o AskedFrom(script, k)
  /\ out = Answered(script, k - 1)
  /\ t.range = RangeOf(r)
  /\ t.sink = ToSink(r)
  /\ t.sink => t.posted = Bytes(0, r.body - t.remain)
  /\ ~t.sink => t.posted = <<>> /\ t.source = SourceOf(r)
  /\ t.buffer = <<>>

(* And in its answer.                                                      *)
Pending(t) == t.headers \o (t.buffer \o (IF t.verb = "HEAD" THEN <<>> ELSE t.answer))
Sending(t, in, out, script, k) ==
  /\ t.state \in {"SEND_HEADERS", "SEND_BODY"} /\ k >= 1
  /\ in = AskedFrom(script, k)
  /\ out \o WithoutTotals(Pending(t)) = Answered(script, k)
  /\ t.verb = "HEAD" => t.buffer = <<>>
  /\ Kept(t) /\ t.sink = FALSE /\ t.posted = <<>>

Phase(t, in, out, script, k) ==
  \/ Between(t, in, out, script, k)
  \/ Reading(t, in, out, script, k)
  \/ Taking(t, in, out, script, k)
  \/ Sending(t, in, out, script, k)

Serving(t, c, script, unsent, got) ==
  /\ c.reset = FALSE /\ c.down.end = FALSE
  /\ \E k \in 0..Len(script) :
       Phase(t, Inbound(t, c, unsent), WithoutTotals(Outbound(c, got)), script, k)

Done(c, script, got) ==
  /\ c.reset = FALSE
  /\ \E k \in 1..Len(script) : WithoutTotals(Outbound(c, got)) = Answered(script, k)
Begun(c, script, got) ==
  \E z \in Tokens : WithoutTotals(Outbound(c, got)) \o z = Answered(script, Len(script))

(* The server has ended the connection in the middle.                      *)
Failed(t, c, script, got) == t.at = "failed" /\ c.reset = FALSE /\ Begun(c, script, got)

(* A connection that has been lost.                                        *)
Lost(c) ==
  /\ c.reset = TRUE /\ c.down.data = <<>>
  /\ c = [up |-> c.up, down |-> c.down, open |-> c.open, reset |-> c.reset]
  /\ c.down = [data |-> c.down.data, end |-> c.down.end]

Serves(t, c, script, unsent, got) ==
  \/ Lost(c) /\ Begun(c, script, got)
  \/ IsConn(c) /\ t.at = "gone" /\ Done(c, script, got)
  \/ IsConn(c) /\ Failed(t, c, script, got)
  \/ IsConn(c) /\ t \in Tasks /\ t.at \notin {"gone", "failed"} /\ Serving(t, c, script, unsent, got)
-----------------------------------------------------------------------------
(* A step that changes only whether the task runs.                         *)
LEMMA SamePhase ==
  ASSUME NEW t, NEW u, NEW in, NEW out, NEW script, NEW k, Phase(t, in, out, script, k),
         u.state = t.state, u.verb = t.verb, u.path = t.path, u.last = t.last,
         u.reuse = t.reuse, u.range = t.range, u.remain = t.remain,
         u.source = t.source, u.sink = t.sink, u.posted = t.posted, u.headers = t.headers,
         u.answer = t.answer, u.buffer = t.buffer
  PROVE  Phase(u, in, out, script, k)
<1>1. (Kept(t) <=> Kept(u)) /\ (Quiet(t) <=> Quiet(u)) /\ Pending(t) = Pending(u)
      /\ \A r : AskedFor(t, r) <=> AskedFor(u, r)
  BY DEF Kept, Quiet, Pending, AskedFor
<1>2. Between(t, in, out, script, k) => Between(u, in, out, script, k)
  BY <1>1 DEF Between
<1>3. ASSUME Reading(t, in, out, script, k) PROVE Reading(u, in, out, script, k)
  <2>1. \A r, a, b, c, rest : HeadersLeft(t, in, r, a, b, c, rest) => HeadersLeft(u, in, r, a, b, c, rest)
    BY DEF HeadersLeft
  <2> QED
    BY <1>1, <1>3, <2>1 DEF Reading
<1>4. Taking(t, in, out, script, k) => Taking(u, in, out, script, k)
  BY <1>1 DEF Taking
<1>5. Sending(t, in, out, script, k) => Sending(u, in, out, script, k)
  BY <1>1 DEF Sending
<1> QED
  BY <1>2, <1>3, <1>4, <1>5 DEF Phase

(* What the server serves while the connection lasts.                      *)
ServesOn(t, c, script, unsent, got) ==
  IsConn(c) /\ t \in Tasks /\ t.at \notin {"gone", "failed"} /\ Serving(t, c, script, unsent, got)

LEMMA Lasting ==
  ASSUME NEW t, NEW c, NEW script, NEW unsent, NEW got
  PROVE  /\ ServesOn(t, c, script, unsent, got) => Serves(t, c, script, unsent, got)
         /\ Serves(t, c, script, unsent, got) /\ ~c.reset /\ t.at \notin {"gone", "failed"}
              => ServesOn(t, c, script, unsent, got)
  BY DEF Serves, ServesOn, Lost, Failed

LEMMA OnlyMoves ==
  ASSUME NEW script, NEW unsent, NEW got,
         ServesOn(task, conn, script, unsent, got),
         NEW x \in Text, x \notin {"gone", "failed"}, task' = [task EXCEPT !.at = x], conn' = conn
  PROVE  ServesOn(task', conn', script, unsent, got)
<1>1. task' \in Tasks /\ task'.at = x
  BY DEF Tasks, ServesOn
<1>2. /\ task'.state = task.state /\ task'.verb = task.verb /\ task'.path = task.path
      /\ task'.last = task.last /\ task'.reuse = task.reuse /\ task'.range = task.range
      /\ task'.remain = task.remain /\ task'.source = task.source /\ task'.sink = task.sink
      /\ task'.posted = task.posted /\ task'.headers = task.headers
      /\ task'.answer = task.answer /\ task'.buffer = task.buffer /\ task'.lines = task.lines
  BY DEF Tasks, ServesOn
<1>3. Inbound(task', conn', unsent) = Inbound(task, conn, unsent)
  BY <1>2 DEF Inbound
<1>4. \A in, out, k : Phase(task, in, out, script, k) => Phase(task', in, out, script, k)
  BY <1>2, SamePhase
<1> QED
  BY <1>1, <1>3, <1>4 DEF ServesOn, Serving

(* What a step says of the task that it changes.                           *)
LEMMA TaskIs ==
  ASSUME NEW t \in Tasks
  PROVE  /\ t.at \in Text /\ t.state \in Text /\ t.lines \in Tokens
         /\ t.verb \in Text /\ t.path \in Text /\ t.last \in Text /\ t.reuse \in BOOLEAN
         /\ t.closing \in BOOLEAN /\ t.range \in Seq(Int) /\ t.remain \in Int
         /\ t.source \in Seq(Tokens) /\ t.sink \in BOOLEAN /\ t.posted \in Tokens
         /\ t.headers \in Tokens /\ t.answer \in Tokens /\ t.buffer \in Tokens
  BY DEF Tasks

(* The lines that are buffered, once a line is wanted.                     *)
NextLine(buffered, unsent, c) ==
  LET lines == Lines(buffered, "up")
      later == Tail(lines) \o (c.up.data \o unsent)
  IN  /\ IsConn(c) /\ c.down = conn.down /\ c.reset = FALSE
      /\ lines # <<>> /\ Head(lines) \in Token /\ Tail(lines) \in Tokens
      /\ later \in Tokens
      /\ buffered \o (conn.up.data \o unsent) = <<Head(lines)>> \o later

LEMMA LinesKept ==
  ASSUME IsConn(conn), conn.reset = FALSE, NEW buffered \in Tokens, NEW unsent \in Tokens,
         ~NoLine(buffered, "up"), NEW c, c = AfterLines(buffered, "up")
  PROVE  NextLine(buffered, unsent, c)
<1> DEFINE l == Lines(buffered, "up")
<1>1. conn.up.data \in Tokens /\ LineBuffer \in Nat
  BY ConnIs, ConnectionAssumption DEF ConnectionAssumption
<1>2. /\ IsConn(c) /\ c.down = conn.down /\ c.reset = FALSE
      /\ l \in Tokens /\ c.up.data \in Tokens
      /\ l \o (c.up.data \o unsent) = buffered \o (conn.up.data \o unsent)
  <2>1. CASE buffered # <<>>
    BY <2>1, <1>1 DEF Lines, AfterLines
  <2>2. CASE buffered = <<>>
    <3>1. l = First(LineBuffer, conn.up.data) /\ c = Taken("up", LineBuffer)
      BY <2>2 DEF Lines, AfterLines
    <3>2. /\ IsConn(c) /\ c.down = conn.down /\ c.reset = FALSE
          /\ c.up.data = Rest(LineBuffer, conn.up.data)
      BY <3>1, <1>1, TakenUp
    <3>3. l \in Tokens /\ c.up.data \in Tokens /\ l \o c.up.data = conn.up.data
      BY <3>1, <3>2, <1>1, TokensOf
    <3>4. (l \o c.up.data) \o unsent = l \o (c.up.data \o unsent)
      BY <3>3, CatThree, Zenon
    <3>5. conn.up.data \o unsent \in Tokens
      BY <1>1, Cat
    <3>6. <<>> \o (conn.up.data \o unsent) = conn.up.data \o unsent
      BY <3>5, CatNothing
    <3> HIDE DEF l
    <3> QED
      BY <3>2, <3>3, <3>4, <3>6, <2>2
  <2> QED
    BY <2>1, <2>2
<1>3. l # <<>>
  BY DEF NoLine
<1> HIDE DEF l
<1>4. Head(l) \in Token /\ Tail(l) \in Tokens /\ l = <<Head(l)>> \o Tail(l)
  BY <1>2, <1>3, HeadAndTail DEF Tokens
<1>5. c.up.data \o unsent \in Tokens
  BY <1>2, Cat
<1>6. Tail(l) \o (c.up.data \o unsent) \in Tokens
  BY <1>4, <1>5, Cat
<1>7. (<<Head(l)>> \o Tail(l)) \o (c.up.data \o unsent)
        = <<Head(l)>> \o (Tail(l) \o (c.up.data \o unsent))
  <2>1. <<Head(l)>> \in Tokens
    BY <1>4, CatOne
  <2> QED
    BY <2>1, <1>4, <1>5, CatThree, Zenon
<1> QED
  BY <1>2, <1>3, <1>4, <1>6, <1>7 DEF l, NextLine
-----------------------------------------------------------------------------
(* Reading a request.                                                      *)
LEMMA AskedSome ==
  ASSUME NEW script, IsScript(script), NEW k \in 0..Len(script), AskedFrom(script, k) # <<>>
  PROVE  k # Len(script)
  BY AskedNone

LEMMA BothAre == \A a, b, c, d : (a = b /\ c = d) \in BOOLEAN
  OBVIOUS

LEMMA NoInts == <<>> \in Seq(Int)
  BY EmptySeq

LEMMA StatesAre ==
  /\ "WAITING" \in Text /\ "RECV_HEADERS" \in Text /\ "RECV_BODY" \in Text
  /\ "SEND_HEADERS" \in Text /\ "SEND_BODY" \in Text /\ "gone" \in Text /\ "failed" \in Text
  /\ "run" \in Text /\ "readable" \in Text /\ "writable" \in Text /\ "source" \in Text
  /\ "none" \in Text /\ "CHECKING" \in Text /\ "GET" \in Text /\ "" \in Text
  BY DEF Text

LEMMA GetRequestLineServes ==
  ASSUME NEW script, IsScript(script), NEW unsent \in Tokens, NEW got \in Tokens,
         ServesOn(task, conn, script, unsent, got), GetRequestLine
  PROVE  ServesOn(task', conn', script, unsent, got)
<1> DEFINE lines == Lines(task.lines, "up")
           after == AfterLines(task.lines, "up")
           in    == Inbound(task, conn, unsent)
           out   == WithoutTotals(Outbound(conn, got))
           later == Tail(lines) \o (after.up.data \o unsent)
<1>1. /\ IsConn(conn) /\ task \in Tasks /\ conn.reset = FALSE /\ conn.down.end = FALSE
      /\ task.at = "run" /\ task.state = "WAITING"
  BY DEF ServesOn, Serving, GetRequestLine, Run
<1>2. task.lines \in Tokens /\ ~NoLine(task.lines, "up")
  BY <1>1, TaskIs DEF GetRequestLine
<1>3. PICK k \in 0..Len(script) : Between(task, in, out, script, k)
  <2>1. PICK k \in 0..Len(script) : Phase(task, in, out, script, k)
    BY DEF ServesOn, Serving
  <2> HIDE DEF in, out
  <2> QED
    BY <2>1, <1>1 DEF Phase, Between, Reading, Taking, Sending
<1>4. /\ IsConn(after) /\ after.down = conn.down /\ after.reset = FALSE
      /\ Head(lines) \in Token /\ Tail(lines) \in Tokens
      /\ later \in Tokens /\ in = <<Head(lines)>> \o later
  <2>1. NextLine(task.lines, unsent, after)
    BY <1>1, <1>2, LinesKept
  <2> QED
    BY <2>1 DEF NextLine, Inbound
<1> DEFINE j == k + 1
           r == script[j]
<1>5. in = AskedFrom(script, k) /\ Kept(task) /\ Quiet(task) /\ out = Answered(script, k)
  BY <1>3 DEF Between
<1> HIDE DEF in, out, later, lines, after
<1>6. /\ j \in 0..Len(script) /\ j \in 1..Len(script) /\ IsRequest(r)
      /\ AskedFrom(script, k) = RequestLines(r) \o AskedFrom(script, j)
  <2>1. in # <<>>
    BY <1>4, CatOne
  <2>2. k # Len(script)
    BY <2>1, <1>5, AskedSome
  <2> QED
    BY <2>2, AskedNext
<1>7. j >= 1 /\ j - 1 = k
  BY ScriptIs
<1> HIDE DEF j
<1> DEFINE body == Bytes(0, r.body) \o AskedFrom(script, j)
           heads == HeadersAnd(r.range, CloseLines(r), LengthLines(r), body)
<1>8. in = <<RequestLine(r)>> \o heads /\ RequestLine(r) \in Token /\ heads \in Tokens
  <2>1. AskedFrom(script, j) \in Tokens
    BY <1>6, AskedTypes
  <2>2. body \in Tokens
    BY <2>1, <1>6, PartsTypes, Cat
  <2>3. heads \in Tokens
    BY <2>2, <1>6, PartsTypes, HeadersTypes
  <2>4. RequestLines(r) \o AskedFrom(script, j) = <<RequestLine(r)>> \o heads
    BY <2>1, <1>6, RequestLinesAre
  <2> QED
    BY <2>3, <2>4, <1>5, <1>6, PartsTypes
<1>9. /\ r.verb \in Text /\ r.path \in Text
      /\ r.range \in Tokens /\ CloseLines(r) \in Tokens /\ LengthLines(r) \in Tokens
  BY <1>6, RequestIs, PartsTypes
<1>10. Head(lines) = RequestLine(r) /\ later = heads
  <2> HIDE DEF heads
  <2>1. Starts(in, Head(lines), later) /\ Starts(in, RequestLine(r), heads)
    BY <1>4, <1>8 DEF Starts
  <2> QED
    BY <2>1, CatSame
<1>11. /\ conn' = after
       /\ task' = [task EXCEPT
            !.state = "RECV_HEADERS", !.lines = Tail(lines),
            !.verb = r.verb, !.path = r.path, !.last = r.path,
            !.reuse = task.last = r.path /\ r.verb = "GET",
            !.closing = FALSE, !.range = <<>>, !.remain = 0]
  <2>1. /\ Head(lines)[1] = "request" /\ Head(lines)[2] = r.verb /\ Head(lines)[3] = r.path
    BY <1>10 DEF RequestLine
  <2> QED
    BY <2>1 DEF GetRequestLine, lines, after
<1> DEFINE reuse == task.last = r.path /\ r.verb = "GET"
<1>12. /\ task' \in Tasks /\ task'.at = "run" /\ task'.state = "RECV_HEADERS"
       /\ task'.lines = Tail(lines)
       /\ task'.verb = r.verb /\ task'.path = r.path /\ task'.last = r.path
       /\ task'.reuse = reuse /\ task'.range = <<>> /\ task'.remain = 0
       /\ task'.source = task.source /\ task'.sink = task.sink
       /\ task'.posted = task.posted /\ task'.buffer = task.buffer
  <2>1. reuse \in BOOLEAN
    BY BothAre, Zenon
  <2>5. <<>> \in Seq(Int)
    BY NoInts, Zenon
  <2>6. "RECV_HEADERS" \in Text
    BY StatesAre, Zenon
  <2> HIDE DEF reuse
  <2>2. task' = [task EXCEPT
            !.state = "RECV_HEADERS", !.lines = Tail(lines),
            !.verb = r.verb, !.path = r.path, !.last = r.path,
            !.reuse = reuse,
            !.closing = FALSE, !.range = <<>>, !.remain = 0]
    BY <1>11 DEF reuse
  <2>3. task' = [at |-> task.at, state |-> "RECV_HEADERS", lines |-> Tail(lines),
                 verb |-> r.verb, path |-> r.path, last |-> r.path, reuse |-> reuse,
                 closing |-> FALSE, range |-> <<>>, remain |-> 0, source |-> task.source,
                 sink |-> task.sink, posted |-> task.posted, headers |-> task.headers,
                 answer |-> task.answer, buffer |-> task.buffer]
    BY <2>2, <1>1 DEF Tasks
  <2>4. task' \in Tasks
    BY <2>1, <2>3, <2>5, <2>6, <1>1, <1>4, <1>9, TaskIs DEF Tasks
  <2> QED
    BY <2>3, <2>4, <1>1
<1>13. Inbound(task', conn', unsent) = heads
  BY <1>10, <1>11, <1>12 DEF Inbound, later
<1>14. WithoutTotals(Outbound(conn', got)) = Answered(script, j - 1)
  BY <1>4, <1>5, <1>7, <1>11 DEF Outbound, out
<1>15. HeadersLeft(task', heads, r, r.range, CloseLines(r), LengthLines(r), AskedFrom(script, j))
  BY <1>12 DEF HeadersLeft
<1>16. task'.reuse => task'.verb = "GET" /\ Kept(task')
  BY <1>5, <1>12 DEF Kept
<1>17. Reading(task', heads, Answered(script, j - 1), script, j)
  <2>1. Quiet(task') /\ AskedFor(task', r)
    BY <1>5, <1>12 DEF Quiet, AskedFor
  <2> HIDE DEF heads
  <2> QED
    BY <2>1, <1>7, <1>9, <1>12, <1>15, <1>16 DEF Reading
<1>18. Phase(task', heads, Answered(script, j - 1), script, j)
  BY <1>17 DEF Phase
<1>19. conn'.reset = FALSE /\ conn'.down.end = FALSE /\ IsConn(conn')
  BY <1>1, <1>4, <1>11
<1> QED
  <2> HIDE DEF heads
  <2>1. Serving(task', conn', script, unsent, got)
    BY <1>6, <1>13, <1>14, <1>18, <1>19 DEF Serving
  <2> QED
    BY <2>1, <1>12, <1>19 DEF ServesOn
-----------------------------------------------------------------------------
(* The first of the headers that are left.                                 *)
LEMMA LinesAre ==
  ASSUME NEW r, IsRequest(r)
  PROVE  /\ CloseLines(r) = <<>> \/ CloseLines(r) = <<<<"close">>>>
         /\ \/ LengthLines(r) = <<>> /\ r.body = 0
            \/ /\ LengthLines(r) = <<<<"length", r.body>>>> /\ <<"length", r.body>> \in Token
               /\ LengthLines(r) # <<>> /\ r.body > 0
         /\ r.range = <<>> \/ (r.range = <<RangeLine(r)>> /\ RangeLine(r) \in Token /\ r.range # <<>>)
<1>1. r.body \in Nat
  BY RequestIs
<1>2. r.range = <<>> \/ (r.range = <<RangeLine(r)>> /\ RangeLine(r) \in Token /\ r.range # <<>>)
  <2>1. CASE r.range = <<RangeLine(r)>> /\ r.range[1][2] \in Nat /\ r.range[1][3] \in Nat
    <3>1. RangeLine(r) \in Token
      BY <2>1, TokensAre DEF RangeLine
    <3>2. <<RangeLine(r)>> # <<>>
      OBVIOUS
    <3> QED
      BY <2>1, <3>1, <3>2
  <2>2. \/ r.range = <<>>
        \/ r.range = <<RangeLine(r)>> /\ r.range[1][2] \in Nat /\ r.range[1][3] \in Nat
    BY RequestIs
  <2> QED
    BY <2>1, <2>2
<1>3. <<"length", r.body>> \in Token
  BY <1>1, TokensAre
<1> QED
  BY <1>1, <1>2, <1>3 DEF CloseLines, LengthLines

FirstHeader(r, a, b, c, s, x, y) ==
  \/ /\ a # <<>> /\ a = r.range /\ x = RangeLine(r)
     /\ y = HeadersAnd(<<>>, b, c, s)
  \/ /\ a = <<>> /\ b # <<>> /\ x = <<"close">>
     /\ y = HeadersAnd(<<>>, <<>>, c, s)
  \/ /\ a = <<>> /\ b = <<>> /\ c # <<>> /\ c = LengthLines(r) /\ x = <<"length", r.body>>
     /\ y = HeadersAnd(<<>>, <<>>, <<>>, s)
  \/ /\ a = <<>> /\ b = <<>> /\ c = <<>> /\ x = <<"end">> /\ y = s

HeadersAre(all, r, a, b, c, s) ==
  /\ s \in Tokens
  /\ a \in {r.range, <<>>} /\ b \in {CloseLines(r), <<>>} /\ c \in {LengthLines(r), <<>>}
  /\ all = HeadersAnd(a, b, c, s)

LEMMA FirstHeaderIs ==
  ASSUME NEW r, IsRequest(r), NEW all, NEW a, NEW b, NEW c, NEW s, NEW x, NEW y,
         Starts(all, x, y), HeadersAre(all, r, a, b, c, s)
  PROVE  FirstHeader(r, a, b, c, s, x, y)
<1>20. /\ a \in {r.range, <<>>} /\ b \in {CloseLines(r), <<>>} /\ c \in {LengthLines(r), <<>>}
       /\ s \in Tokens /\ x \in Token /\ y \in Tokens
       /\ all = <<x>> \o y /\ all = HeadersAnd(a, b, c, s)
  BY DEF Starts, HeadersAre
<1>0. /\ <<>> \in Tokens /\ a \in Tokens /\ b \in Tokens /\ c \in Tokens
      /\ <<"close">> \in Token /\ <<"end">> \in Token
  BY <1>20, PartsTypes, TokensAre
<1> DEFINE one   == End \o s
           two   == c \o one
           three == b \o two
<1>1. one \in Tokens /\ one = <<<<"end">>>> \o s
  <2>1. End \in Tokens
    BY PartsTypes
  <2> QED
    BY <2>1, <1>20, Cat DEF End
<1> HIDE DEF one
<1>2. two \in Tokens
  BY <1>0, <1>1, Cat
<1> HIDE DEF two
<1>3. three \in Tokens
  BY <1>0, <1>2, Cat
<1> HIDE DEF three
<1>4. all = a \o three
  BY <1>20 DEF HeadersAnd, three, two, one
<1>5. <<>> \o three = three /\ <<>> \o two = two /\ <<>> \o one = one
  BY <1>1, <1>2, <1>3, CatNothing
<1>6. CASE a # <<>>
  <2>1. a = <<RangeLine(r)>> /\ RangeLine(r) \in Token /\ a = r.range
    BY <1>6, <1>20, LinesAre
  <2>2. all = <<RangeLine(r)>> \o three
    BY <2>1, <1>4
  <2>3. x = RangeLine(r) /\ y = three
    <3>1. Starts(all, RangeLine(r), three)
      BY <2>1, <2>2, <1>3 DEF Starts
    <3> QED
      BY <3>1, CatSame
  <2>4. y = HeadersAnd(<<>>, b, c, s)
    BY <2>3, <1>5 DEF HeadersAnd, three, two, one
  <2> QED
    BY <2>1, <2>3, <2>4, <1>6 DEF FirstHeader
<1>7. CASE a = <<>> /\ b # <<>>
  <2>1. b = <<<<"close">>>>
    BY <1>7, <1>20, LinesAre
  <2>2. all = <<<<"close">>>> \o two
    BY <2>1, <1>4, <1>5, <1>7 DEF three
  <2>3. x = <<"close">> /\ y = two
    <3>1. Starts(all, <<"close">>, two)
      BY <2>2, <1>0, <1>2 DEF Starts
    <3> QED
      BY <3>1, CatSame
  <2>4. y = HeadersAnd(<<>>, <<>>, c, s)
    BY <2>3, <1>5 DEF HeadersAnd, two, one
  <2> QED
    BY <2>3, <2>4, <1>7 DEF FirstHeader
<1>8. CASE a = <<>> /\ b = <<>> /\ c # <<>>
  <2>1. c = <<<<"length", r.body>>>> /\ <<"length", r.body>> \in Token /\ c = LengthLines(r)
    BY <1>8, <1>20, LinesAre
  <2>2. all = <<<<"length", r.body>>>> \o one
    BY <2>1, <1>4, <1>5, <1>8 DEF three, two
  <2>3. x = <<"length", r.body>> /\ y = one
    <3>1. Starts(all, <<"length", r.body>>, one)
      BY <2>1, <2>2, <1>1 DEF Starts
    <3> QED
      BY <3>1, CatSame
  <2>4. y = HeadersAnd(<<>>, <<>>, <<>>, s)
    BY <2>3, <1>5 DEF HeadersAnd, one
  <2> QED
    BY <2>1, <2>3, <2>4, <1>8 DEF FirstHeader
<1>9. CASE a = <<>> /\ b = <<>> /\ c = <<>>
  <2>2. all = <<<<"end">>>> \o s
    BY <1>1, <1>4, <1>5, <1>9 DEF three, two
  <2>3. x = <<"end">> /\ y = s
    <3>1. Starts(all, <<"end">>, s)
      BY <2>2, <1>0, <1>20 DEF Starts
    <3> QED
      BY <3>1, CatSame
  <2> QED
    BY <2>3, <1>9 DEF FirstHeader
<1> QED
  BY <1>6, <1>7, <1>8, <1>9
-----------------------------------------------------------------------------
(* Reading a line of the headers.                                          *)
LineLeft(script, unsent, got, after, k, a, b, c) ==
  LET r     == script[k]
      lines == Lines(task.lines, "up")
  IN  /\ k \in 1..Len(script)
      /\ IsRequest(r)
      /\ AskedFor(task, r)
      /\ a \in {r.range, <<>>} /\ b \in {CloseLines(r), <<>>} /\ c \in {LengthLines(r), <<>>}
      /\ task.range  = IF a = r.range THEN <<>> ELSE RangeOf(r)
      /\ task.remain = IF c = LengthLines(r) THEN 0 ELSE r.body
      /\ FirstHeader(r, a, b, c, Bytes(0, r.body) \o AskedFrom(script, k), Head(lines),
                     Tail(lines) \o (after.up.data \o unsent))
      /\ WithoutTotals(Outbound(conn, got)) = Answered(script, k - 1)
      /\ task.reuse => task.verb = "GET" /\ Kept(task)
      /\ Quiet(task)

LEMMA HeaderRead ==
  ASSUME NEW script, IsScript(script), NEW unsent \in Tokens, NEW got \in Tokens,
         ServesOn(task, conn, script, unsent, got),
         Run("RECV_HEADERS"), ~NoLine(task.lines, "up"),
         NEW after, after = AfterLines(task.lines, "up")
  PROVE  /\ IsConn(conn) /\ task \in Tasks /\ conn.reset = FALSE /\ conn.down.end = FALSE
         /\ task.at = "run" /\ task.state = "RECV_HEADERS"
         /\ IsConn(after) /\ after.down = conn.down /\ after.reset = FALSE
         /\ Head(Lines(task.lines, "up")) \in Token /\ Tail(Lines(task.lines, "up")) \in Tokens
         /\ \E k, a, b, c : LineLeft(script, unsent, got, after, k, a, b, c)
<1> DEFINE lines == Lines(task.lines, "up")
           in    == Inbound(task, conn, unsent)
           out   == WithoutTotals(Outbound(conn, got))
           later == Tail(lines) \o (after.up.data \o unsent)
<1>1. /\ IsConn(conn) /\ task \in Tasks /\ conn.reset = FALSE /\ conn.down.end = FALSE
      /\ task.at = "run" /\ task.state = "RECV_HEADERS"
  BY DEF ServesOn, Serving, Run
<1>2. task.lines \in Tokens
  BY <1>1, TaskIs
<1>3. PICK k \in 0..Len(script) : Reading(task, in, out, script, k)
  <2>1. PICK k \in 0..Len(script) : Phase(task, in, out, script, k)
    BY DEF ServesOn, Serving
  <2> HIDE DEF in, out
  <2> QED
    BY <2>1, <1>1 DEF Phase, Between, Reading, Taking, Sending
<1>4. /\ IsConn(after) /\ after.down = conn.down /\ after.reset = FALSE
      /\ Head(lines) \in Token /\ Tail(lines) \in Tokens
      /\ later \in Tokens /\ in = <<Head(lines)>> \o later
  <2>1. NextLine(task.lines, unsent, after)
    BY <1>1, <1>2, LinesKept
  <2> QED
    BY <2>1 DEF NextLine, Inbound
<1> DEFINE r    == script[k]
           rest == AskedFrom(script, k)
           s    == Bytes(0, r.body) \o rest
<1>5. k \in 1..Len(script) /\ IsRequest(r) /\ s \in Tokens
  <2>1. Len(script) \in Nat /\ k >= 1
    BY <1>3, ScriptIs DEF Reading
  <2>2. k \in 1..Len(script)
    BY <2>1
  <2>3. IsRequest(r)
    BY <2>2, ScriptIs
  <2>4. rest \in Tokens /\ Bytes(0, r.body) \in Tokens
    BY <2>3, AskedTypes, PartsTypes
  <2>5. s \in Tokens
    <3> HIDE DEF rest
    <3> QED
      BY <2>4, Cat
  <2> QED
    BY <2>2, <2>3, <2>5
<1> HIDE DEF in, out, later, lines
<1>6. PICK a \in Tokens, b \in Tokens, c \in Tokens : HeadersLeft(task, in, r, a, b, c, rest)
  BY <1>3 DEF Reading
<1>7. /\ a \in {r.range, <<>>} /\ b \in {CloseLines(r), <<>>} /\ c \in {LengthLines(r), <<>>}
      /\ in = HeadersAnd(a, b, c, s)
      /\ task.range  = IF a = r.range THEN <<>> ELSE RangeOf(r)
      /\ task.remain = IF c = LengthLines(r) THEN 0 ELSE r.body
  BY <1>6 DEF HeadersLeft
<1>8. FirstHeader(r, a, b, c, s, Head(lines), later)
  <2>1. Starts(in, Head(lines), later) /\ HeadersAre(in, r, a, b, c, s)
    BY <1>4, <1>5, <1>7 DEF Starts, HeadersAre
  <2> HIDE DEF s, r
  <2> QED
    BY <2>1, <1>5, FirstHeaderIs
<1>9. LineLeft(script, unsent, got, after, k, a, b, c)
  <2>1. /\ AskedFor(task, r) /\ out = Answered(script, k - 1)
        /\ task.reuse => task.verb = "GET" /\ Kept(task)
        /\ Quiet(task)
    BY <1>3 DEF Reading
  <2> QED
    BY <2>1, <1>5, <1>7, <1>8 DEF LineLeft, out, later, lines
<1> QED
  BY <1>1, <1>4, <1>9 DEF lines

LEMMA GetHeaderLineServes ==
  ASSUME NEW script, IsScript(script), NEW unsent \in Tokens, NEW got \in Tokens,
         ServesOn(task, conn, script, unsent, got), GetHeaderLine
  PROVE  ServesOn(task', conn', script, unsent, got)
<1> DEFINE lines == Lines(task.lines, "up")
           after == AfterLines(task.lines, "up")
           later == Tail(lines) \o (after.up.data \o unsent)
           line  == Head(lines)
<1>1. Run("RECV_HEADERS") /\ ~NoLine(task.lines, "up") /\ conn' = after /\ line[1] # "end"
  BY DEF GetHeaderLine
<1>2. /\ IsConn(conn) /\ task \in Tasks /\ conn.reset = FALSE /\ conn.down.end = FALSE
      /\ task.at = "run" /\ task.state = "RECV_HEADERS"
      /\ IsConn(after) /\ after.down = conn.down /\ after.reset = FALSE
      /\ line \in Token /\ Tail(lines) \in Tokens
      /\ \E k, a, b, c : LineLeft(script, unsent, got, after, k, a, b, c)
  BY <1>1, HeaderRead
<1>3. PICK k, a, b, c : LineLeft(script, unsent, got, after, k, a, b, c)
  BY <1>2
<1> DEFINE r    == script[k]
           rest == AskedFrom(script, k)
           s    == Bytes(0, r.body) \o rest
           out  == WithoutTotals(Outbound(conn, got))
<1>4. /\ k \in 1..Len(script) /\ IsRequest(r) /\ AskedFor(task, r)
      /\ a \in {r.range, <<>>} /\ b \in {CloseLines(r), <<>>} /\ c \in {LengthLines(r), <<>>}
      /\ task.range  = IF a = r.range THEN <<>> ELSE RangeOf(r)
      /\ task.remain = IF c = LengthLines(r) THEN 0 ELSE r.body
      /\ FirstHeader(r, a, b, c, s, line, later)
      /\ out = Answered(script, k - 1)
      /\ task.reuse => task.verb = "GET" /\ Kept(task)
      /\ Quiet(task)
  BY <1>3 DEF LineLeft
<1> DEFINE onlyRange(x)  == [task EXCEPT !.lines = Tail(lines), !.range = x]
           closing       == [task EXCEPT !.lines = Tail(lines), !.closing = TRUE]
           onlyLength(x) == [task EXCEPT !.lines = Tail(lines), !.remain = x]
<1>5. task' = CASE line[1] = "close"  -> closing
                [] line[1] = "length" -> onlyLength(line[2])
                [] line[1] = "range"  -> onlyRange(<<line[2], RangeMax(line[3])>>)
                [] OTHER -> [task EXCEPT !.lines = Tail(lines)]
  BY <1>2 DEF GetHeaderLine, Tasks
<1> HIDE DEF lines, after, later, line, rest, s, out
<1>6. /\ task'.lines = Tail(lines) /\ task'.at = "run" /\ task'.state = "RECV_HEADERS"
      /\ task'.verb = task.verb /\ task'.path = task.path /\ task'.last = task.last
      /\ task'.reuse = task.reuse /\ task'.source = task.source /\ task'.sink = task.sink
      /\ task'.posted = task.posted /\ task'.buffer = task.buffer /\ task' \in Tasks
      /\ \E x \in Tokens, y \in Tokens, z \in Tokens :
           HeadersLeft(task', later, r, x, y, z, rest)
  <2>0. /\ <<>> \in Tokens /\ r.range \in Tokens /\ CloseLines(r) \in Tokens
        /\ LengthLines(r) \in Tokens /\ r.body \in Nat
    BY <1>4, PartsTypes, RequestIs
  <2>1. CASE a # <<>> /\ a = r.range /\ line = RangeLine(r) /\ later = HeadersAnd(<<>>, b, c, s)
    <3>1. line[1] = "range" /\ <<line[2], RangeMax(line[3])>> = RangeOf(r)
      BY <2>1 DEF RangeLine, RangeOf
    <3>2. RangeOf(r) \in Seq(Int)
      <4>1. r.range[1][2] \in Int /\ RangeMax(r.range[1][3]) \in Int
        BY <1>4, <2>1, RequestIs, ConnectionAssumption DEF RangeMax, Least, ConnectionAssumption
      <4> QED
        BY <4>1, <2>1 DEF RangeOf
    <3>3. task' = onlyRange(RangeOf(r))
      BY <3>1, <1>5
    <3>4. task' = [at |-> task.at, state |-> task.state, lines |-> Tail(lines),
                 verb |-> task.verb, path |-> task.path, last |-> task.last, reuse |-> task.reuse,
                 closing |-> task.closing, range |-> RangeOf(r), remain |-> task.remain,
                 source |-> task.source,
                 sink |-> task.sink, posted |-> task.posted, headers |-> task.headers,
                 answer |-> task.answer, buffer |-> task.buffer]
      BY <3>3, <1>2 DEF Tasks
    <3>5. task' \in Tasks
      BY <3>2, <3>4, <1>2, TaskIs DEF Tasks
    <3>6. HeadersLeft(task', later, r, <<>>, b, c, rest)
      BY <3>4, <2>1, <1>4 DEF HeadersLeft, s
    <3> QED
      BY <3>4, <3>5, <3>6, <2>0, <1>2, <1>4
  <2>2. CASE a = <<>> /\ b # <<>> /\ line = <<"close">> /\ later = HeadersAnd(<<>>, <<>>, c, s)
    <3>1. task' = closing
      BY <2>2, <1>5
    <3>4. task' = [at |-> task.at, state |-> task.state, lines |-> Tail(lines),
                 verb |-> task.verb, path |-> task.path, last |-> task.last, reuse |-> task.reuse,
                 closing |-> TRUE, range |-> task.range, remain |-> task.remain,
                 source |-> task.source,
                 sink |-> task.sink, posted |-> task.posted, headers |-> task.headers,
                 answer |-> task.answer, buffer |-> task.buffer]
      BY <3>1, <1>2 DEF Tasks
    <3>5. task' \in Tasks
      BY <3>4, <1>2, TaskIs DEF Tasks
    <3>6. HeadersLeft(task', later, r, a, <<>>, c, rest)
      BY <3>4, <2>2, <1>4 DEF HeadersLeft, s
    <3> QED
      BY <3>4, <3>5, <3>6, <2>0, <2>2, <1>2, <1>4
  <2>3. CASE /\ a = <<>> /\ b = <<>> /\ c # <<>> /\ c = LengthLines(r)
             /\ line = <<"length", r.body>> /\ later = HeadersAnd(<<>>, <<>>, <<>>, s)
    <3>1. task' = onlyLength(r.body)
      BY <2>3, <1>5
    <3>4. task' = [at |-> task.at, state |-> task.state, lines |-> Tail(lines),
                 verb |-> task.verb, path |-> task.path, last |-> task.last, reuse |-> task.reuse,
                 closing |-> task.closing, range |-> task.range, remain |-> r.body,
                 source |-> task.source,
                 sink |-> task.sink, posted |-> task.posted, headers |-> task.headers,
                 answer |-> task.answer, buffer |-> task.buffer]
      BY <3>1, <1>2 DEF Tasks
    <3>5. task' \in Tasks
      BY <3>4, <2>0, <1>2, TaskIs DEF Tasks
    <3>6. HeadersLeft(task', later, r, a, <<>>, <<>>, rest)
      BY <3>4, <2>3, <1>4 DEF HeadersLeft, s
    <3> QED
      BY <3>4, <3>5, <3>6, <2>0, <2>3, <1>2
  <2>4. ~(line = <<"end">>)
    BY <1>1 DEF line
  <2> QED
    BY <2>1, <2>2, <2>3, <2>4, <1>4 DEF FirstHeader
<1>7. PICK x \in Tokens, y \in Tokens, z \in Tokens : HeadersLeft(task', later, r, x, y, z, rest)
  BY <1>6
<1>8. Inbound(task', conn', unsent) = later /\ WithoutTotals(Outbound(conn', got)) = Answered(script, k - 1)
  BY <1>1, <1>2, <1>4, <1>6 DEF Inbound, Outbound, later, after, out
<1>9. Reading(task', later, Answered(script, k - 1), script, k)
  <2>1. Quiet(task') /\ AskedFor(task', r) /\ (task'.reuse => task'.verb = "GET" /\ Kept(task'))
    BY <1>4, <1>6 DEF Quiet, AskedFor, Kept
  <2>2. k >= 1
    BY <1>4
  <2> QED
    BY <2>1, <2>2, <1>6, <1>7 DEF Reading, rest
<1>10. Phase(task', later, Answered(script, k - 1), script, k)
  BY <1>9 DEF Phase
<1>11. conn'.reset = FALSE /\ conn'.down.end = FALSE /\ IsConn(conn')
  BY <1>1, <1>2
<1>12. k \in 0..Len(script)
  BY <1>4, ScriptIs
<1> QED
  <2>1. Serving(task', conn', script, unsent, got)
    BY <1>8, <1>10, <1>11, <1>12 DEF Serving
  <2> QED
    BY <2>1, <1>6, <1>11 DEF ServesOn
-----------------------------------------------------------------------------
(* The end of the headers.                                                 *)
LEMMA NoBytes == Bytes(0, 0) = <<>> /\ \A n \in Nat : Bytes(n, n) = <<>>
<1>1. ASSUME NEW n \in Nat PROVE Bytes(n, n) = <<>>
  <2>1. n <= n /\ n - n = 0
    OBVIOUS
  <2>2. Bytes(n, n) \in Seq(Token) /\ Len(Bytes(n, n)) = 0
    BY <2>1, BytesTypes DEF Tokens
  <2> QED
    BY <2>2
<1>2. 0 \in Nat
  OBVIOUS
<1> QED
  BY <1>1, <1>2

LEMMA SourceIs ==
  ASSUME NEW r, IsRequest(r)
  PROVE  SourceOf(r) \in Seq(Tokens) /\ <<>> \in Seq(Tokens) /\ ToSink(r) \in BOOLEAN
<1>1. <<>> \in Tokens
  BY EmptySeq DEF Tokens
<1>2. ASSUME NEW s \in Tokens
      PROVE  <<s>> \in Seq(Tokens)
  OBVIOUS
<1>3. <<<<>>>> \in Seq(Tokens)
  BY <1>1, <1>2
<1>4. ASSUME r.path \in DOMAIN Size
      PROVE  <<Bytes(0, Size[r.path])>> \in Seq(Tokens)
  <2>1. Size[r.path] \in Nat /\ 0 \in Nat /\ 0 <= Size[r.path]
    BY <1>4, ConnectionAssumption DEF ConnectionAssumption
  <2>2. Bytes(0, Size[r.path]) \in Tokens
    BY <2>1, BytesTypes
  <2> QED
    BY <2>2, <1>2
<1>5. <<>> \in Seq(Tokens)
  BY EmptySeq
<1>6. ToSink(r) \in BOOLEAN
  BY BothAre DEF ToSink
<1> QED
  BY <1>3, <1>4, <1>5, <1>6 DEF SourceOf

(* The task when it goes on to the body.                                   *)
WithBody(t, lines, source, sink) ==
  [at |-> t.at, state |-> "RECV_BODY", lines |-> lines,
   verb |-> t.verb, path |-> t.path, last |-> t.last, reuse |-> t.reuse,
   closing |-> t.closing, range |-> t.range, remain |-> t.remain,
   source |-> source, sink |-> sink, posted |-> t.posted,
   headers |-> t.headers, answer |-> t.answer, buffer |-> t.buffer]

LEMMA WithBodyIs ==
  ASSUME NEW t, t \in Tasks, NEW lines, NEW u,
         u = [t EXCEPT !.lines = lines, !.state = "RECV_BODY"]
  PROVE  u = WithBody(t, lines, t.source, t.sink)
  BY Zenon DEF Tasks, WithBody

WithStream(t, source, sink) ==
  [at |-> t.at, state |-> t.state, lines |-> t.lines,
   verb |-> t.verb, path |-> t.path, last |-> t.last, reuse |-> t.reuse,
   closing |-> t.closing, range |-> t.range, remain |-> t.remain,
   source |-> source, sink |-> sink, posted |-> t.posted,
   headers |-> t.headers, answer |-> t.answer, buffer |-> t.buffer]

LEMMA WithStreamIs ==
  ASSUME NEW t, t \in Tasks, NEW source, NEW sink, NEW u,
         u = [t EXCEPT !.sink = sink, !.source = source]
  PROVE  u = WithStream(t, source, sink)
  BY Zenon DEF Tasks, WithStream

LEMMA EndOfHeadersServes ==
  ASSUME NEW script, IsScript(script), NEW unsent \in Tokens, NEW got \in Tokens,
         ServesOn(task, conn, script, unsent, got), EndOfHeaders
  PROVE  ServesOn(task', conn', script, unsent, got)
<1> DEFINE lines == Lines(task.lines, "up")
           after == AfterLines(task.lines, "up")
           later == Tail(lines) \o (after.up.data \o unsent)
           line  == Head(lines)
<1>1. /\ Run("RECV_HEADERS") /\ ~NoLine(task.lines, "up") /\ conn' = after /\ line = <<"end">>
  BY DEF EndOfHeaders
<1>2. /\ IsConn(conn) /\ task \in Tasks /\ conn.reset = FALSE /\ conn.down.end = FALSE
      /\ task.at = "run" /\ task.state = "RECV_HEADERS"
      /\ IsConn(after) /\ after.down = conn.down /\ after.reset = FALSE
      /\ line \in Token /\ Tail(lines) \in Tokens
      /\ \E k, a, b, c : LineLeft(script, unsent, got, after, k, a, b, c)
  BY <1>1, HeaderRead
<1>3. PICK k, a, b, c : LineLeft(script, unsent, got, after, k, a, b, c)
  BY <1>2
<1> DEFINE r    == script[k]
           rest == AskedFrom(script, k)
           s    == Bytes(0, r.body) \o rest
           out  == WithoutTotals(Outbound(conn, got))
<1>4. /\ k \in 1..Len(script) /\ IsRequest(r) /\ AskedFor(task, r)
      /\ task.range  = IF a = r.range THEN <<>> ELSE RangeOf(r)
      /\ task.remain = IF c = LengthLines(r) THEN 0 ELSE r.body
      /\ FirstHeader(r, a, b, c, s, line, later)
      /\ out = Answered(script, k - 1)
      /\ task.reuse => task.verb = "GET" /\ Kept(task)
      /\ Quiet(task)
  BY <1>3 DEF LineLeft
<1> DEFINE control == task.verb = "POST" /\ task.path = "control"
           source  == IF control THEN <<>>
                      ELSE IF task.path \in DOMAIN Size THEN <<Bytes(0, Size[task.path])>>
                      ELSE IF task.verb = "OPTIONS" THEN <<<<>>>> ELSE <<>>
           t       == [task EXCEPT !.lines = Tail(lines), !.state = "RECV_BODY"]
<1>5. task' = IF t.reuse /\ t.source # <<>> THEN t ELSE StreamForPath(t)
  BY DEF EndOfHeaders
<1>18. t = [task EXCEPT !.lines = Tail(lines), !.state = "RECV_BODY"]
  OBVIOUS
<1> HIDE DEF t
<1>6. t = WithBody(task, Tail(lines), task.source, task.sink)
  <2> HIDE DEF lines
  <2> QED
    BY <1>2, <1>18, WithBodyIs
<1>7. StreamForPath(t) = WithBody(task, Tail(lines), source, control)
  <2>1. t.verb = task.verb /\ t.path = task.path /\ t.reuse = task.reuse /\ t.source = task.source
    BY <1>6 DEF WithBody
  <2>2. StreamForPath(t) = [t EXCEPT !.sink = control, !.source = source]
    BY <2>1 DEF StreamForPath
  <2> HIDE DEF source, control, lines
  <2>3. t \in Tasks
    BY <1>2, <1>6, TaskIs, StatesAre DEF Tasks, WithBody
  <2>4. StreamForPath(t) = WithStream(t, source, control)
    BY <2>2, <2>3, WithStreamIs
  <2> QED
    BY <2>4, <1>6 DEF WithBody, WithStream
<1>8. PICK src, snk : /\ task' = WithBody(task, Tail(lines), src, snk)
                      /\ \/ task.reuse /\ task.source # <<>> /\ src = task.source /\ snk = task.sink
                         \/ src = source /\ snk = control
  <2> HIDE DEF source, control, lines
  <2>1. CASE t.reuse /\ t.source # <<>>
    BY <2>1, <1>5, <1>6 DEF WithBody
  <2>2. CASE ~(t.reuse /\ t.source # <<>>)
    BY <2>2, <1>5, <1>7
  <2> QED
    BY <2>1, <2>2
<1>9. snk = ToSink(r) /\ (~snk => src = SourceOf(r)) /\ src \in Seq(Tokens) /\ snk \in BOOLEAN
  <2>1. task.verb = r.verb /\ task.path = r.path /\ task.last = r.path
    BY <1>4 DEF AskedFor
  <2>2. SourceOf(r) \in Seq(Tokens) /\ <<>> \in Seq(Tokens) /\ ToSink(r) \in BOOLEAN
    BY <1>4, SourceIs
  <2>3. CASE task.reuse /\ task.source # <<>> /\ src = task.source /\ snk = task.sink
    <3>1. task.verb = "GET" /\ Kept(task) /\ task.sink = FALSE
      BY <1>4, <2>3 DEF Quiet
    <3>2. ToSink(r) = FALSE
      BY <2>1, <3>1 DEF ToSink
    <3>3. src = SourceOf(r)
      BY <2>1, <2>3, <3>1 DEF Kept, SourceOf
    <3> QED
      BY <3>1, <3>2, <3>3, <2>2, <2>3
  <2>4. CASE src = source /\ snk = control
    <3>1. control = ToSink(r)
      BY <2>1 DEF ToSink
    <3>2. ToSink(r) => source = <<>>
      BY <3>1
    <3>3. ~ToSink(r) => source = SourceOf(r)
      BY <3>1, <2>1 DEF SourceOf
    <3> HIDE DEF source, control
    <3> QED
      BY <3>1, <3>2, <3>3, <2>2, <2>4
  <2> QED
    BY <2>3, <2>4, <1>8
<1>10. a = <<>> /\ c = <<>> /\ later = s
  <2>1. RangeLine(r) # <<"end">> /\ <<"close">> # <<"end">> /\ <<"length", r.body>> # <<"end">>
    BY DEF RangeLine
  <2> HIDE DEF s, later, line, r
  <2> QED
    BY <2>1, <1>1, <1>4 DEF FirstHeader
<1>11. task.range = RangeOf(r) /\ task.remain = r.body /\ r.body \in Nat
  <2>1. r.body \in Nat /\ (LengthLines(r) = <<>> => r.body = 0)
    BY <1>4, LinesAre, RequestIs
  <2> QED
    BY <2>1, <1>4, <1>10 DEF RangeOf
<1> HIDE DEF lines, after, line, out, source, control
<1>12. /\ task' \in Tasks /\ task'.at = "run" /\ task'.state = "RECV_BODY"
       /\ task'.lines = Tail(lines)
       /\ task'.verb = task.verb /\ task'.path = task.path /\ task'.last = task.last
       /\ task'.range = task.range /\ task'.remain = task.remain
       /\ task'.source = src /\ task'.sink = snk
       /\ task'.posted = task.posted /\ task'.buffer = task.buffer
  <2>1. "RECV_BODY" \in Text
    BY StatesAre
  <2>2. task' \in Tasks
    BY <2>1, <1>8, <1>9, <1>2, TaskIs DEF Tasks, WithBody
  <2> QED
    BY <2>2, <1>8, <1>2 DEF WithBody
<1>13. Inbound(task', conn', unsent) = s /\ WithoutTotals(Outbound(conn', got)) = Answered(script, k - 1)
  BY <1>1, <1>2, <1>4, <1>10, <1>12 DEF Inbound, Outbound, out
<1>14. Taking(task', s, Answered(script, k - 1), script, k)
  <2>1. AskedFor(task', r)
    BY <1>4, <1>12 DEF AskedFor
  <2>2. k >= 1
    BY <1>4
  <2>3. task'.remain = r.body /\ task'.range = RangeOf(r)
    BY <1>11, <1>12
  <2>4. task'.remain <= r.body /\ r.body - task'.remain = 0
    BY <1>11, <2>3
  <2>5. task'.posted = <<>> /\ task'.buffer = <<>>
    BY <1>4, <1>12 DEF Quiet
  <2>6. task'.posted = Bytes(0, r.body - task'.remain)
    BY <2>4, <2>5, NoBytes
  <2>7. s = Bytes(r.body - task'.remain, r.body) \o rest
    BY <2>4
  <2> HIDE DEF s, r, rest
  <2>8. Bytes(r.body - task'.remain, r.body) \o rest = s
    BY <2>7
  <2> QED
    BY <2>1, <2>2, <2>3, <2>4, <2>5, <2>6, <2>8, <1>9, <1>11, <1>12 DEF Taking, r, rest
<1>15. Phase(task', s, Answered(script, k - 1), script, k)
  BY <1>14 DEF Phase
<1>16. conn'.reset = FALSE /\ conn'.down.end = FALSE /\ IsConn(conn')
  BY <1>1, <1>2 DEF after
<1>17. k \in 0..Len(script)
  BY <1>4, ScriptIs
<1> QED
  <2> HIDE DEF s
  <2>1. Serving(task', conn', script, unsent, got)
    BY <1>13, <1>15, <1>16, <1>17 DEF Serving
  <2> QED
    BY <2>1, <1>12, <1>16 DEF ServesOn
-----------------------------------------------------------------------------
(* Taking in a body.                                                       *)
ChunkFits(lump, lines, data, unsent, wants, chunk) ==
  /\ wants \in Nat /\ chunk \in Tokens /\ Len(chunk) \in Nat /\ Len(chunk) <= lump
  /\ Rest(lump, lines) \in Tokens /\ Rest(lump, lines) \o (Rest(wants, data) \o unsent) \in Tokens
  /\ chunk \o (Rest(lump, lines) \o (Rest(wants, data) \o unsent)) = lines \o (data \o unsent)

LEMMA ChunkIs ==
  ASSUME NEW lump \in Nat, NEW lines \in Tokens, NEW data \in Tokens, NEW unsent \in Tokens,
         NEW wants, wants = lump - Len(First(lump, lines)),
         NEW chunk, chunk = First(lump, lines) \o First(wants, data)
  PROVE  ChunkFits(lump, lines, data, unsent, wants, chunk)
<1> DEFINE left == First(lump, lines)
           more == Rest(lump, lines)
<1>1. /\ left \in Tokens /\ more \in Tokens /\ left \o more = lines
      /\ Len(left) = Least(lump, Len(lines)) /\ Len(lines) \in Nat
  BY TokensOf
<1>2. Len(left) \in Nat /\ Len(left) <= lump /\ wants \in Nat /\ wants = lump - Len(left)
  <2>1. Len(left) \in Nat /\ Len(left) <= lump
    BY <1>1 DEF Least
  <2> QED
    BY <2>1
<1> DEFINE read  == First(wants, data)
           later == Rest(wants, data)
<1>3. /\ read \in Tokens /\ later \in Tokens /\ read \o later = data
      /\ Len(read) = Least(wants, Len(data)) /\ Len(data) \in Nat
  BY <1>2, TokensOf
<1>4. Len(read) \in Nat /\ Len(read) <= wants
  BY <1>2, <1>3 DEF Least
<1>7. (left \o read) \o (more \o (later \o unsent)) = lines \o (data \o unsent)
  <2>4. Len(lines) <= lump \/ lump < Len(lines)
    BY <1>1
  <2>5. CASE Len(lines) <= lump
    <3>1. left = lines /\ more = <<>>
      BY <1>1, <2>5, FirstOfAll DEF Tokens
    <3> HIDE DEF left, more, read, later
    <3>2. later \o unsent \in Tokens /\ read \o (later \o unsent) = data \o unsent
      <4>1. later \o unsent \in Tokens
        BY <1>3, Cat
      <4>2. (read \o later) \o unsent = read \o (later \o unsent)
        <5>1. Assoc(read, later, unsent)
          BY <1>3, CatAssoc
        <5> QED
          BY <5>1 DEF Assoc
      <4> QED
        BY <4>1, <4>2, <1>3
    <3>3. <<>> \o (later \o unsent) = later \o unsent
      BY <3>2, CatNothing
    <3>4. (left \o read) \o (later \o unsent) = left \o (read \o (later \o unsent))
      <4>1. left \in Tokens /\ read \in Tokens /\ later \o unsent \in Tokens
        BY <1>1, <1>3, <3>2
      <4>2. Assoc(left, read, later \o unsent)
        BY <4>1, CatAssoc
      <4> QED
        BY <4>2 DEF Assoc
    <3>5. (left \o read) \o (more \o (later \o unsent)) = lines \o (data \o unsent)
      BY <3>1, <3>2, <3>3, <3>4
    <3> QED
      BY <3>5
  <2>6. CASE lump < Len(lines)
    <3>1. Len(left) = lump /\ wants = 0
      BY <1>1, <1>2, <2>6 DEF Least
    <3>2. read = <<>>
      BY <3>1, FirstOfNone DEF Tokens
    <3>3. later = data
      <4>1. <<>> \o later = later
        BY <1>3, CatNothing
      <4> QED
        BY <4>1, <3>2, <1>3
    <3> HIDE DEF left, more, read, later
    <3>4. data \o unsent \in Tokens
      BY Cat
    <3>5. (left \o more) \o (data \o unsent) = left \o (more \o (data \o unsent))
      <4>1. left \in Tokens /\ more \in Tokens
        BY <1>1
      <4>2. Assoc(left, more, data \o unsent)
        BY <4>1, <3>4, CatAssoc
      <4> QED
        BY <4>2 DEF Assoc
    <3>6. left \o read = left
      BY <3>2, <1>1, CatNothing
    <3>7. (left \o read) \o (more \o (later \o unsent)) = lines \o (data \o unsent)
      BY <3>3, <3>5, <3>6, <1>1
    <3> QED
      BY <3>7
  <2> HIDE DEF left, more, read, later
  <2> QED
    BY <2>4, <2>5, <2>6
<1> HIDE DEF left, more, read, later
<1>8. chunk = left \o read
  BY DEF left, read
<1>9. chunk \in Tokens /\ Len(chunk) = Len(left) + Len(read)
  <2>1. left \in Tokens /\ read \in Tokens
    BY <1>1, <1>3
  <2> QED
    BY <2>1, <1>8, Cat
<1>10. Len(chunk) \in Nat /\ Len(chunk) <= lump
  BY <1>2, <1>4, <1>9
<1>11. more \o (later \o unsent) \in Tokens
  <2>1. later \o unsent \in Tokens
    BY <1>3, Cat
  <2> QED
    BY <2>1, <1>1, Cat
<1> QED
  BY <1>1, <1>2, <1>7, <1>8, <1>9, <1>10, <1>11 DEF ChunkFits, left, more, read, later

(* The task when it has taken in a chunk.                                  *)
WithChunk(t, lines, remain, posted) ==
  [at |-> t.at, state |-> t.state, lines |-> lines,
   verb |-> t.verb, path |-> t.path, last |-> t.last, reuse |-> t.reuse,
   closing |-> t.closing, range |-> t.range, remain |-> remain,
   source |-> t.source, sink |-> t.sink, posted |-> posted,
   headers |-> t.headers, answer |-> t.answer, buffer |-> t.buffer]

LEMMA WithChunkIs ==
  ASSUME NEW t, t \in Tasks, NEW lines, NEW remain, NEW posted, NEW u,
         u = [t EXCEPT !.lines = lines, !.remain = remain, !.posted = posted]
  PROVE  u = WithChunk(t, lines, remain, posted)
  BY Zenon DEF Tasks, WithChunk

LEMMA ReceiveBodyServes ==
  ASSUME NEW script, IsScript(script), NEW unsent \in Tokens, NEW got \in Tokens,
         ServesOn(task, conn, script, unsent, got), ReceiveBody
  PROVE  ServesOn(task', conn', script, unsent, got)
<1> DEFINE lump  == Least(task.remain, BodyBuffer)
           left  == First(lump, task.lines)
           wants == lump - Len(left)
           read  == First(wants, conn.up.data)
           chunk == left \o read
           n     == Len(chunk)
           posted == IF task.sink THEN task.posted \o chunk ELSE task.posted
           later == Rest(lump, task.lines) \o (Rest(wants, conn.up.data) \o unsent)
           in    == Inbound(task, conn, unsent)
           out   == WithoutTotals(Outbound(conn, got))
<1>1. /\ IsConn(conn) /\ task \in Tasks /\ conn.reset = FALSE /\ conn.down.end = FALSE
      /\ task.at = "run" /\ task.state = "RECV_BODY" /\ task.remain > 0
  BY DEF ServesOn, Serving, ReceiveBody, Run
<1>2. task.lines \in Tokens /\ conn.up.data \in Tokens /\ conn.up.end = FALSE
  BY <1>1, TaskIs, ConnIs
<1>3. ~Ended("up")
  BY <1>1, <1>2 DEF Ended
<1>4. \/ Wait("readable")
      \/ conn' = Taken("up", wants) /\ task' = [task EXCEPT
                   !.lines  = Rest(lump, @), !.remain = @ - Len(chunk),
                   !.posted = IF task.sink THEN @ \o chunk ELSE @]
  BY <1>3 DEF ReceiveBody, ReadLeftovers
<1>5. CASE Wait("readable")
  <2>1. task' = [task EXCEPT !.at = "readable"] /\ conn' = conn
    BY <1>5 DEF Wait
  <2>2. "readable" \in Text
    BY StatesAre
  <2> QED
    BY <2>1, <2>2, OnlyMoves
<1>6. CASE conn' = Taken("up", wants) /\ task' = [task EXCEPT
                   !.lines  = Rest(lump, @), !.remain = @ - Len(chunk),
                   !.posted = IF task.sink THEN @ \o chunk ELSE @]
  <2>1. task' = [task EXCEPT !.lines = Rest(lump, task.lines), !.remain = task.remain - n,
                             !.posted = posted]
    BY <1>1, <1>6 DEF Tasks
  <2>2. PICK k \in 0..Len(script) : Taking(task, in, out, script, k)
    <3>1. PICK k \in 0..Len(script) : Phase(task, in, out, script, k)
      BY DEF ServesOn, Serving
    <3> HIDE DEF in, out
    <3> QED
      BY <3>1, <1>1 DEF Phase, Between, Reading, Taking, Sending
  <2> DEFINE r    == script[k]
             rest == AskedFrom(script, k)
             p    == r.body - task.remain
  <2>3. /\ k >= 1 /\ AskedFor(task, r)
        /\ task.remain \in Nat /\ task.remain <= r.body
        /\ in = Bytes(p, r.body) \o rest
        /\ out = Answered(script, k - 1)
        /\ task.range = RangeOf(r) /\ task.sink = ToSink(r)
        /\ task.sink => task.posted = Bytes(0, p)
        /\ ~task.sink => task.posted = <<>> /\ task.source = SourceOf(r)
        /\ task.buffer = <<>>
    BY <2>2 DEF Taking
  <2>4. k \in 1..Len(script) /\ IsRequest(r) /\ r.body \in Nat /\ rest \in Tokens
    <3>1. Len(script) \in Nat
      BY ScriptIs
    <3>2. k \in 1..Len(script)
      BY <3>1, <2>3
    <3>3. IsRequest(r)
      BY <3>2, ScriptIs
    <3> QED
      BY <3>2, <3>3, AskedTypes, RequestIs
  <2>5. BodyBuffer \in Nat /\ lump \in Nat /\ lump <= task.remain
    <3>1. BodyBuffer \in Nat
      BY ConnectionAssumption DEF ConnectionAssumption
    <3> QED
      BY <3>1, <2>3 DEF Least
  <2> HIDE DEF lump
  <2>6. ChunkFits(lump, task.lines, conn.up.data, unsent, wants, chunk)
    BY <2>5, <1>2, ChunkIs
  <2>7. /\ wants \in Nat /\ chunk \in Tokens /\ n \in Nat /\ n <= lump
        /\ Rest(lump, task.lines) \in Tokens /\ later \in Tokens
        /\ chunk \o later = in
    BY <2>6 DEF ChunkFits, Inbound
  <2> HIDE DEF left, read, later, in, out
  <2>8. p \in Nat /\ p <= r.body /\ p + n <= r.body /\ r.body - (task.remain - n) = p + n
        /\ task.remain - n \in Nat /\ task.remain - n <= r.body
    BY <2>3, <2>4, <2>5, <2>7
  <2>9. Bytes(p, r.body) \in Tokens /\ Len(Bytes(p, r.body)) = r.body - p
    BY <2>4, <2>8, BytesTypes
  <2>10. chunk = First(n, Bytes(p, r.body)) /\ later = Rest(n, Bytes(p, r.body)) \o rest
    <3>1. Cut(in, chunk, later) /\ Cut(in, Bytes(p, r.body), rest)
      BY <2>3, <2>4, <2>7, <2>9 DEF Cut
    <3>2. n <= Len(Bytes(p, r.body))
      BY <2>4, <2>7, <2>8, <2>9
    <3> HIDE DEF chunk, p, r, rest
    <3> QED
      BY <3>1, <3>2, CutTokens
  <2>11. chunk = Bytes(p, p + n) /\ later = Bytes(p + n, r.body) \o rest
    <3> HIDE DEF p, n, chunk, r, rest
    <3>1. First(n, Bytes(p, r.body)) = Bytes(p, p + n) /\ Rest(n, Bytes(p, r.body)) = Bytes(p + n, r.body)
      BY <2>4, <2>7, <2>8, BytesCut
    <3> QED
      BY <3>1, <2>10
  <2> HIDE DEF chunk, p, n, wants
  <2>12. /\ posted \in Tokens
         /\ task.sink => posted = Bytes(0, p + n)
         /\ ~task.sink => posted = <<>>
    <3>1. task.sink => Bytes(0, p) \o Bytes(p, p + n) = Bytes(0, p + n)
      <4>1. 0 \in Nat /\ p + n \in Nat /\ 0 <= p /\ p <= p + n
        BY <2>7, <2>8
      <4> QED
        BY <4>1, <2>8, BytesMore
    <3>2. task.posted \in Tokens /\ task.posted \o chunk \in Tokens
      BY <1>1, <2>7, TaskIs, Cat
    <3> QED
      BY <3>1, <3>2, <2>3, <2>11
  <2> HIDE DEF posted
  <2>13. task' = WithChunk(task, Rest(lump, task.lines), task.remain - n, posted)
    BY <2>1, <1>1, WithChunkIs
  <2>14. /\ task' \in Tasks /\ task'.at = "run" /\ task'.state = "RECV_BODY"
         /\ task'.lines = Rest(lump, task.lines) /\ task'.remain = task.remain - n
         /\ task'.posted = posted
         /\ task'.verb = task.verb /\ task'.path = task.path /\ task'.last = task.last
         /\ task'.range = task.range
         /\ task'.source = task.source /\ task'.sink = task.sink
         /\ task'.buffer = task.buffer
    <3>1. task' \in Tasks
      BY <2>13, <2>7, <2>8, <2>12, <1>1, TaskIs DEF Tasks, WithChunk
    <3> QED
      BY <3>1, <2>13, <1>1 DEF WithChunk
  <2>15. /\ IsConn(conn') /\ conn'.up.data = Rest(wants, conn.up.data)
         /\ conn'.down = conn.down /\ conn'.reset = conn.reset
    BY <1>1, <1>6, <2>7, TakenUp
  <2>16. Inbound(task', conn', unsent) = later /\ WithoutTotals(Outbound(conn', got)) = out
    BY <2>14, <2>15 DEF Inbound, Outbound, later, out
  <2>17. Taking(task', later, out, script, k)
    <3>1. AskedFor(task', r)
      BY <2>3, <2>14 DEF AskedFor
    <3>2. r.body - task'.remain = p + n
      BY <2>8, <2>14
    <3>3. later = Bytes(r.body - task'.remain, r.body) \o rest
      BY <3>2, <2>11
    <3> QED
      BY <3>1, <3>2, <3>3, <2>3, <2>8, <2>12, <2>14 DEF Taking
  <2>18. Phase(task', later, out, script, k)
    BY <2>17 DEF Phase
  <2>19. Serving(task', conn', script, unsent, got)
    BY <2>15, <2>16, <2>18, <1>1 DEF Serving
  <2> QED
    BY <2>14, <2>15, <2>19 DEF ServesOn
<1> QED
  BY <1>4, <1>5, <1>6
-----------------------------------------------------------------------------
(* The answer that is made.                                                *)

(* Where the server clips the range that was asked for.                    *)
LEMMA ClippedIs ==
  ASSUME NEW r, IsRequest(r), IsThere(r), r.range # <<>>,
         NEW lo, lo = Least(RangeOf(r)[1], Amount(r)),
         NEW hi, hi = Least(RangeOf(r)[2], Amount(r))
  PROVE  /\ lo \in Nat /\ hi \in Nat /\ (hi # lo <=> From(r) < Amount(r))
         /\ From(r) < Amount(r) => lo = From(r) /\ hi = UpTo(r)
<1> DEFINE n == Amount(r)
           f == From(r)
           l == r.range[1][3]
           m == RangeMax(l)
<1>1. f \in Nat /\ l \in Nat /\ f <= l /\ n \in Nat /\ n <= Forever /\ Forever \in Nat
  BY RequestIs, ContentIs, ConnectionAssumption DEF From, ConnectionAssumption
<1>2. RangeOf(r) = <<f, m>>
  BY DEF RangeOf, From
<1>3. m = Least(l + 1, Forever)
  BY DEF RangeMax
<1>4. lo = Least(f, n) /\ hi = Least(m, n) /\ UpTo(r) = Least(l + 1, n)
  BY <1>2 DEF UpTo
<1> HIDE DEF n, f, l, m
<1>5. /\ lo \in Nat /\ hi \in Nat /\ (hi # lo <=> f < n)
      /\ f < n => lo = f /\ hi = UpTo(r)
  BY <1>1, <1>3, <1>4 DEF Least
<1> QED
  BY <1>5 DEF f, n

(* What the stream that is sent from holds.                                *)
LEMMA SourceHolds ==
  ASSUME NEW r, IsRequest(r), NEW source,
         source = IF ToSink(r) THEN <<Bytes(0, r.body)>> ELSE SourceOf(r)
  PROVE  /\ source # <<>> <=> IsThere(r)
         /\ source # <<>> => source[1] = Content(r)
         /\ source \in Seq(Tokens)
         /\ source # <<>> /\ ~ToSink(r) /\ Amount(r) > 0
              => r.path \in DOMAIN Size /\ source = <<Bytes(0, Size[r.path])>>
<1>1. r.body \in Nat /\ Bytes(0, 0) = <<>> /\ SourceOf(r) \in Seq(Tokens)
      /\ Bytes(0, r.body) \in Tokens
  BY RequestIs, NoBytes, SourceIs, PartsTypes
<1>2. Content(r) = IF IsThere(r) THEN Bytes(0, Amount(r)) ELSE NotFoundPage
  BY ContentIs
<1>3. CASE ToSink(r)
  <2>1. IsThere(r) /\ Amount(r) = r.body
    BY <1>3 DEF ToSink, IsThere, Amount
  <2>2. source = <<Bytes(0, r.body)>> /\ source # <<>> /\ source[1] = Bytes(0, r.body)
    BY <1>3
  <2> QED
    BY <2>1, <2>2, <1>1, <1>2, <1>3
<1>4. CASE ~ToSink(r) /\ r.path \in DOMAIN Size
  <2>1. IsThere(r) /\ Amount(r) = Size[r.path]
    BY <1>4 DEF ToSink, IsThere, Amount
  <2>2. /\ source = <<Bytes(0, Size[r.path])>> /\ source # <<>>
        /\ source[1] = Bytes(0, Size[r.path])
    BY <1>4 DEF SourceOf
  <2> QED
    BY <2>1, <2>2, <1>1, <1>2, <1>4
<1>5. CASE ~ToSink(r) /\ r.path \notin DOMAIN Size /\ r.verb = "OPTIONS"
  <2>1. IsThere(r) /\ Amount(r) = 0
    BY <1>5 DEF ToSink, IsThere, Amount
  <2>2. source = <<<<>>>> /\ source # <<>> /\ source[1] = <<>>
    BY <1>5 DEF SourceOf
  <2> QED
    BY <2>1, <2>2, <1>1, <1>2, <1>5
<1>6. CASE ~ToSink(r) /\ r.path \notin DOMAIN Size /\ r.verb # "OPTIONS"
  <2>1. ~IsThere(r)
    BY <1>6 DEF ToSink, IsThere
  <2>2. source = <<>>
    BY <1>6 DEF SourceOf
  <2> QED
    BY <2>1, <2>2, <1>1
<1> QED
  BY <1>3, <1>4, <1>5, <1>6

(* The headers that are sent are those of the answer but for a total.      *)
LEMMA HeadersGiven ==
  ASSUME NEW r, IsRequest(r), NEW total \in Int, NEW c \in Tokens,
         c = IF Partial(r)
             THEN <<<<"crange", From(r), From(r) + Len(Wanted(r)) - 1, total>>>> ELSE <<>>
  PROVE  /\ (<<StatusLine(r)>> \o c) \o LengthAndEnd(r) \in Tokens
         /\ WithoutTotals((<<StatusLine(r)>> \o c) \o LengthAndEnd(r)) = AnswerHeaders(r)
<1> DEFINE s == <<StatusLine(r)>>
           e == LengthAndEnd(r)
<1>1. s \in Tokens /\ e \in Tokens /\ CRangeLines(r) \in Tokens
  BY LinesTypes
<1>2. WithoutTotals(s) = s
  <2>1. Len(s) = 1 /\ s[1][1] # "crange"
    BY DEF StatusLine
  <2> HIDE DEF s
  <2>2. \A i \in 1..Len(s) : s[i][1] # "crange"
    BY <2>1
  <2> QED
    BY <2>2, <1>1, WithoutNothing
<1>3. WithoutTotals(e) = e
  <2>1. Len(e) = 2 /\ e[1][1] # "crange" /\ e[2][1] # "crange"
    BY DEF LengthAndEnd, LengthLine
  <2> HIDE DEF e
  <2>2. \A i \in 1..Len(e) : e[i][1] # "crange"
    BY <2>1
  <2> QED
    BY <2>2, <1>1, WithoutNothing
<1>4. WithoutTotals(c) = CRangeLines(r)
  <2>1. CASE Partial(r)
    <3>1. WithoutTotals(c) \in Tokens /\ Len(WithoutTotals(c)) = Len(c)
          /\ \A i \in 1..Len(c) : WithoutTotals(c)[i] = WithoutTotal(c[i])
      BY WithoutTypes
    <3>2. Len(c) = 1 /\ c[1] = <<"crange", From(r), From(r) + Len(Wanted(r)) - 1, total>>
      BY <2>1
    <3>3. WithoutTotal(c[1]) = CRangeLine(r)
      BY <3>2 DEF WithoutTotal, CRangeLine
    <3>4. CRangeLines(r) = <<CRangeLine(r)>> /\ Len(CRangeLines(r)) = 1
          /\ CRangeLines(r)[1] = CRangeLine(r)
      BY <2>1 DEF CRangeLines
    <3>5. \A i \in 1..1 : WithoutTotals(c)[i] = CRangeLines(r)[i]
      BY <3>1, <3>2, <3>3, <3>4
    <3> QED
      BY <3>1, <3>2, <3>4, <3>5, <1>1, SeqEqual DEF Tokens
  <2>2. CASE ~Partial(r)
    <3>1. c = <<>> /\ CRangeLines(r) = <<>>
      BY <2>2 DEF CRangeLines
    <3>2. WithoutTotals(c) = c
      BY <3>1, WithoutNothing
    <3> QED
      BY <3>1, <3>2
  <2> QED
    BY <2>1, <2>2
<1> HIDE DEF s, e
<1>5. s \o c \in Tokens
  BY <1>1, Cat
<1>6. (s \o c) \o e \in Tokens
  BY <1>1, <1>5, Cat
<1>7. WithoutTotals((s \o c) \o e) = WithoutTotals(s \o c) \o WithoutTotals(e)
  BY <1>1, <1>5, WithoutBoth
<1>8. WithoutTotals(s \o c) = WithoutTotals(s) \o WithoutTotals(c)
  BY <1>1, WithoutBoth
<1>9. AnswerHeaders(r) = (s \o CRangeLines(r)) \o e
  BY AnswerIs DEF s, e
<1>10. WithoutTotals((s \o c) \o e) = AnswerHeaders(r)
  BY <1>2, <1>3, <1>4, <1>7, <1>8, <1>9
<1> QED
  BY <1>6, <1>10 DEF s, e

(* The content, and the range of it that is sent.                          *)
Clipped(r, source, lo, hi)   == source # <<>> /\ RangeOf(r) # <<>> /\ hi # lo
Some(r, source, lo, hi, len) == Clipped(r, source, lo, hi) /\ (lo > 0 \/ hi # len)

Offered(r, source, content, lo, hi, len) ==
  /\ source  = IF ToSink(r) THEN <<Bytes(0, r.body)>> ELSE SourceOf(r)
  /\ content = IF source # <<>> THEN source[1] ELSE NotFoundPage
  /\ lo = Least(RangeOf(r)[1], Len(content)) /\ hi = Least(RangeOf(r)[2], Len(content))
  /\ len = IF Clipped(r, source, lo, hi) THEN hi - lo ELSE Len(content)

Response(r, source, content, lo, hi, len) ==
  /\ source # <<>> <=> Exists(r)
  /\ content = Content(r) /\ content \in Tokens
  /\ Clipped(r, source, lo, hi) <=> Partial(r)
  /\ len = Len(Wanted(r)) /\ len \in Int
  /\ Partial(r) => lo = From(r) /\ hi - 1 = From(r) + Len(Wanted(r)) - 1
  /\ Some(r, source, lo, hi, len) <=> Partial(r) /\ From(r) > 0
  /\ Some(r, source, lo, hi, len) =>
       /\ SubSeq(content, lo + 1, hi) = Wanted(r)
       /\ r.path \in DOMAIN Size /\ source = <<Bytes(0, Size[r.path])>>

LEMMA ResponseIs ==
  ASSUME NEW r, IsRequest(r), NEW source, NEW content, NEW lo, NEW hi, NEW len,
         Offered(r, source, content, lo, hi, len)
  PROVE  Response(r, source, content, lo, hi, len)
<1> DEFINE partial == Clipped(r, source, lo, hi)
           some    == Some(r, source, lo, hi, len)
           n       == Amount(r)
<1>0. /\ source = IF ToSink(r) THEN <<Bytes(0, r.body)>> ELSE SourceOf(r)
      /\ content = IF source # <<>> THEN source[1] ELSE NotFoundPage
      /\ lo = Least(RangeOf(r)[1], Len(content)) /\ hi = Least(RangeOf(r)[2], Len(content))
      /\ len = IF partial THEN hi - lo ELSE Len(content)
  BY DEF Offered
<1>1. /\ source # <<>> <=> IsThere(r)
      /\ source # <<>> => source[1] = Content(r)
      /\ source # <<>> /\ ~ToSink(r) /\ n > 0
              => r.path \in DOMAIN Size /\ source = <<Bytes(0, Size[r.path])>>
  BY <1>0, SourceHolds
<1>2. /\ n \in Nat /\ (Exists(r) <=> IsThere(r))
      /\ Content(r) = IF IsThere(r) THEN Bytes(0, n) ELSE NotFoundPage
      /\ Content(r) \in Tokens
  BY ContentIs, GivenIs
<1>3. /\ Partial(r) <=> IsThere(r) /\ r.range # <<>> /\ From(r) < n
      /\ Partial(r) => /\ From(r) \in Nat /\ UpTo(r) \in Nat /\ From(r) < UpTo(r)
                       /\ UpTo(r) <= n
                       /\ Wanted(r) = Bytes(From(r), UpTo(r))
      /\ ~Partial(r) => Wanted(r) = Content(r)
      /\ Len(Wanted(r)) \in Nat
  BY WantedIs
<1>4. content = Content(r)
  BY <1>0, <1>1, <1>2
<1>5. RangeOf(r) # <<>> <=> r.range # <<>>
  BY DEF RangeOf
<1>6. IsThere(r) => Len(content) = n /\ content = Bytes(0, n)
  <2>1. 0 \in Nat /\ 0 <= n /\ n - 0 = n
    BY <1>2
  <2>2. Len(Bytes(0, n)) = n
    BY <2>1, <1>2, BytesTypes
  <2> QED
    BY <2>2, <1>2, <1>4
<1> HIDE DEF n
<1>7. IsThere(r) /\ r.range # <<>> =>
        /\ lo \in Nat /\ hi \in Nat /\ (hi # lo <=> From(r) < n)
        /\ From(r) < n => lo = From(r) /\ hi = UpTo(r)
  BY <1>0, <1>6, ClippedIs DEF n
<1>8. partial <=> Partial(r)
  BY <1>1, <1>3, <1>5, <1>7 DEF Clipped
<1>9. ASSUME Partial(r)
      PROVE  /\ lo = From(r) /\ hi = UpTo(r) /\ Len(Wanted(r)) = hi - lo
             /\ IsThere(r) /\ r.range # <<>> /\ n > 0 /\ ~ToSink(r)
             /\ SubSeq(content, lo + 1, hi) = Wanted(r)
  <2>1. lo = From(r) /\ hi = UpTo(r) /\ IsThere(r) /\ r.range # <<>>
    BY <1>3, <1>7, <1>9
  <2>2. lo \in Nat /\ hi \in Nat /\ lo <= hi /\ hi <= n /\ n > 0 /\ Wanted(r) = Bytes(lo, hi)
    BY <2>1, <1>2, <1>3, <1>9 DEF n
  <2>3. Len(Bytes(lo, hi)) = hi - lo
    BY <2>2, BytesTypes
  <2>4. SubSeq(Bytes(0, n), lo + 1, hi) = Bytes(lo, hi)
    <3>1. n \in Nat /\ lo \in Nat /\ hi \in Nat /\ lo <= hi /\ hi <= n
      BY <2>2, <1>2
    <3> QED
      BY <3>1, BytesWithin, Zenon
  <2>5. ~ToSink(r)
    BY <2>1, RequestIs DEF ToSink
  <2> QED
    BY <2>1, <2>2, <2>3, <2>4, <2>5, <1>6
<1>10. len = Len(Wanted(r))
  BY <1>0, <1>3, <1>4, <1>8, <1>9
<1>11. Partial(r) => /\ lo \in Nat /\ hi \in Nat /\ lo < hi
                     /\ len = hi - lo
                     /\ hi - 1 = From(r) + Len(Wanted(r)) - 1
                     /\ (hi # len <=> lo > 0)
  <2> SUFFICES ASSUME Partial(r)
               PROVE  /\ lo \in Nat /\ hi \in Nat /\ lo < hi
                      /\ len = hi - lo
                      /\ hi - 1 = From(r) + Len(Wanted(r)) - 1
                      /\ (hi # len <=> lo > 0)
    OBVIOUS
  <2>1. lo = From(r) /\ lo \in Nat /\ hi \in Nat /\ lo < hi /\ len = hi - lo
        /\ Len(Wanted(r)) = hi - lo
    BY <1>3, <1>9, <1>10
  <2>2. hi - 1 = lo + (hi - lo) - 1 /\ (hi # hi - lo <=> lo > 0)
    BY <2>1
  <2> QED
    BY <2>1, <2>2
<1>12. some <=> Partial(r) /\ From(r) > 0
  BY <1>8, <1>9, <1>11 DEF Some
<1>13. /\ source # <<>> <=> Exists(r)
       /\ content = Content(r) /\ content \in Tokens
       /\ len = Len(Wanted(r)) /\ len \in Int
  BY <1>1, <1>2, <1>3, <1>4, <1>10
<1>14. /\ Partial(r) => lo = From(r) /\ hi - 1 = From(r) + Len(Wanted(r)) - 1
       /\ some => SubSeq(content, lo + 1, hi) = Wanted(r)
       /\ some => r.path \in DOMAIN Size /\ source = <<Bytes(0, Size[r.path])>>
  BY <1>1, <1>8, <1>9, <1>11, <1>12 DEF n
<1> QED
  BY <1>8, <1>12, <1>13, <1>14 DEF Response

(* The task when the answer has been made.                                 *)
WithAnswer(t, source, headers, answer) ==
  [at |-> t.at, state |-> "SEND_HEADERS", lines |-> t.lines,
   verb |-> t.verb, path |-> t.path, last |-> t.last, reuse |-> t.reuse,
   closing |-> t.closing, range |-> t.range, remain |-> t.remain,
   source |-> source, sink |-> FALSE, posted |-> <<>>,
   headers |-> headers, answer |-> answer, buffer |-> t.buffer]

LEMMA WithAnswerIs ==
  ASSUME NEW t, t \in Tasks, NEW source, NEW headers, NEW answer, NEW u,
         u = [t EXCEPT !.state = "SEND_HEADERS", !.sink = FALSE, !.posted = <<>>,
                       !.source = source, !.answer = answer, !.headers = headers]
  PROVE  u = WithAnswer(t, source, headers, answer)
  BY Zenon DEF Tasks, WithAnswer

LEMMA BuildResponseServes ==
  ASSUME NEW script, IsScript(script), NEW unsent \in Tokens, NEW got \in Tokens,
         ServesOn(task, conn, script, unsent, got), BuildResponse
  PROVE  ServesOn(task', conn', script, unsent, got)
<1> DEFINE source  == IF task.sink THEN <<task.posted>> ELSE task.source
           found   == source # <<>>
           content == IF found THEN source[1] ELSE NotFoundPage
           lo      == Least(task.range[1], Len(content))
           hi      == Least(task.range[2], Len(content))
           partial == found /\ task.range # <<>> /\ hi # lo
           len     == IF partial THEN hi - lo ELSE Len(content)
           some    == partial /\ (lo > 0 \/ hi # len)
           status  == IF ~found THEN 404 ELSE IF partial THEN 206 ELSE 200
           clines  == IF partial THEN <<<<"crange", lo, hi - 1, len>>>> ELSE <<>>
           headers == <<<<"status", status>>>> \o clines \o <<<<"length", len>>, <<"end">>>>
           kept    == IF some THEN source ELSE <<>>
           answer  == IF some THEN SubSeq(content, lo + 1, hi) ELSE content
           in      == Inbound(task, conn, unsent)
           out     == WithoutTotals(Outbound(conn, got))
<1>1. /\ IsConn(conn) /\ task \in Tasks /\ conn.reset = FALSE /\ conn.down.end = FALSE
      /\ task.at = "run" /\ task.state = "RECV_BODY" /\ task.remain = 0 /\ conn' = conn
  BY DEF ServesOn, Serving, BuildResponse, Run
<1>2. task' = [task EXCEPT !.state = "SEND_HEADERS", !.sink = FALSE, !.posted = <<>>,
                           !.source = kept, !.answer = answer, !.headers = headers]
  BY DEF BuildResponse
<1>3. PICK k \in 0..Len(script) : Taking(task, in, out, script, k)
  <2>1. PICK k \in 0..Len(script) : Phase(task, in, out, script, k)
    BY DEF ServesOn, Serving
  <2> HIDE DEF in, out
  <2> QED
    BY <2>1, <1>1 DEF Phase, Between, Reading, Taking, Sending
<1> DEFINE r    == script[k]
           rest == AskedFrom(script, k)
<1>4. k \in 1..Len(script) /\ IsRequest(r) /\ rest \in Tokens
  <2>1. Len(script) \in Nat /\ k >= 1
    BY <1>3, ScriptIs DEF Taking
  <2>2. k \in 1..Len(script)
    BY <2>1
  <2> QED
    BY <2>2, ScriptIs, AskedTypes
<1> HIDE DEF source, found, content, lo, hi, partial, len, some, status, clines, headers, kept, answer, in, out
<1>5. /\ AskedFor(task, r) /\ r.body \in Nat
      /\ in = rest /\ out = Answered(script, k - 1)
      /\ task.range = RangeOf(r) /\ task.sink = ToSink(r) /\ task.buffer = <<>>
      /\ source = IF ToSink(r) THEN <<Bytes(0, r.body)>> ELSE SourceOf(r)
  <2>1. r.body \in Nat
    BY <1>4, RequestIs
  <2>2. r.body - task.remain = r.body
    BY <2>1, <1>1
  <2>3. /\ AskedFor(task, r) /\ in = Bytes(r.body, r.body) \o rest /\ out = Answered(script, k - 1)
        /\ task.range = RangeOf(r) /\ task.sink = ToSink(r) /\ task.buffer = <<>>
        /\ task.sink => task.posted = Bytes(0, r.body)
        /\ ~task.sink => task.source = SourceOf(r)
    BY <1>3, <2>2 DEF Taking
  <2>4. in = rest
    BY <2>1, <2>3, <1>4, NoBytes, CatNothing
  <2> QED
    BY <2>1, <2>3, <2>4 DEF source
<1>6. /\ Response(r, source, content, lo, hi, len)
      /\ partial <=> Clipped(r, source, lo, hi)
      /\ some <=> Some(r, source, lo, hi, len)
  <2>1. /\ content = (IF source # <<>> THEN source[1] ELSE NotFoundPage)
        /\ lo = Least(RangeOf(r)[1], Len(content)) /\ hi = Least(RangeOf(r)[2], Len(content))
        /\ partial <=> Clipped(r, source, lo, hi)
    BY <1>5 DEF content, found, lo, hi, partial, Clipped
  <2>2. /\ len = (IF Clipped(r, source, lo, hi) THEN hi - lo ELSE Len(content))
        /\ some <=> Some(r, source, lo, hi, len)
    BY <2>1 DEF len, some, Some
  <2>3. Offered(r, source, content, lo, hi, len)
    BY <1>5, <2>1, <2>2 DEF Offered
  <2>4. Response(r, source, content, lo, hi, len)
    BY <1>4, <2>3, ResponseIs
  <2> QED
    BY <2>1, <2>2, <2>4
<1>7. /\ source # <<>> <=> Exists(r)
      /\ content = Content(r) /\ content \in Tokens
      /\ partial <=> Partial(r)
      /\ len = Len(Wanted(r)) /\ len \in Int
      /\ partial => lo = From(r) /\ hi - 1 = From(r) + Len(Wanted(r)) - 1
      /\ some <=> Partial(r) /\ From(r) > 0
      /\ some => SubSeq(content, lo + 1, hi) = Wanted(r)
      /\ some => r.path \in DOMAIN Size /\ source = <<Bytes(0, Size[r.path])>>
  BY <1>6 DEF Response, found
<1>8. headers \in Tokens /\ WithoutTotals(headers) = AnswerHeaders(r)
  <2>1. <<<<"status", status>>>> = <<StatusLine(r)>>
    BY <1>7 DEF status, found, StatusLine, StatusOf
  <2>2. clines = IF Partial(r)
                 THEN <<<<"crange", From(r), From(r) + Len(Wanted(r)) - 1, len>>>> ELSE <<>>
    BY <1>7 DEF clines
  <2>3. <<<<"length", len>>, <<"end">>>> = LengthAndEnd(r)
    BY <1>7 DEF LengthAndEnd, LengthLine
  <2>4. clines \in Tokens
    <3>1. <<>> \in Tokens
      BY EmptySeq DEF Tokens
    <3>2. Partial(r) => <<"crange", From(r), From(r) + Len(Wanted(r)) - 1, len>> \in Token
      <4>1. Partial(r) => From(r) \in Int /\ From(r) + Len(Wanted(r)) - 1 \in Int
        BY <1>4, WantedIs
      <4> QED
        BY <4>1, <1>7, TokensAre
    <3>3. \A x \in Token : <<x>> \in Tokens
      BY DEF Tokens
    <3> QED
      BY <3>1, <3>2, <3>3, <2>2
  <2>5. headers = (<<StatusLine(r)>> \o clines) \o LengthAndEnd(r)
    BY <2>1, <2>3 DEF headers
  <2> QED
    BY <2>2, <2>4, <2>5, <1>4, <1>7, HeadersGiven
<1>9. answer \in Tokens /\ answer = IF Partial(r) /\ From(r) > 0 THEN Wanted(r) ELSE Content(r)
  BY <1>4, <1>7, WantedIs DEF answer
<1>10. kept \in Seq(Tokens)
       /\ (kept # <<>> => r.path \in DOMAIN Size /\ kept = <<Bytes(0, Size[r.path])>>)
  <2>1. <<>> \in Seq(Tokens) /\ source \in Seq(Tokens)
    <3> HIDE DEF r
    <3> QED
      BY <1>4, <1>5, SourceIs, SourceHolds
  <2> QED
    BY <2>1, <1>7 DEF kept
<1>11. task' = WithAnswer(task, kept, headers, answer)
  BY <1>1, <1>2, WithAnswerIs
<1>12. /\ task' \in Tasks /\ task'.at = "run" /\ task'.state = "SEND_HEADERS"
       /\ task'.lines = task.lines
       /\ task'.verb = task.verb /\ task'.last = task.last
       /\ task'.source = kept /\ task'.sink = FALSE
       /\ task'.headers = headers /\ task'.answer = answer
       /\ task'.posted = <<>> /\ task'.buffer = <<>>
  <2>1. "SEND_HEADERS" \in Text /\ <<>> \in Tokens /\ FALSE \in BOOLEAN
    BY StatesAre, EmptySeq DEF Tokens
  <2>2. task' \in Tasks
    BY <2>1, <1>8, <1>9, <1>10, <1>11, <1>1, TaskIs DEF Tasks, WithAnswer
  <2> QED
    BY <2>2, <1>1, <1>5, <1>11 DEF WithAnswer
<1>13. Inbound(task', conn', unsent) = in /\ WithoutTotals(Outbound(conn', got)) = out
  BY <1>1, <1>12 DEF Inbound, Outbound, in, out
<1>14. out \o WithoutTotals(Pending(task')) = Answered(script, k)
  <2> DEFINE body == IF task'.verb = "HEAD" THEN <<>> ELSE answer
  <2>1. body = GivenBody(r)
    BY <1>5, <1>9, <1>12 DEF GivenBody, AskedFor
  <2>2. GivenBody(r) \in Tokens /\ WithoutTotals(GivenBody(r)) = GivenBody(r)
        /\ <<>> \o GivenBody(r) = GivenBody(r)
    BY <1>4, GivenIs, CatNothing
  <2>3. Pending(task') = headers \o GivenBody(r)
    <3>1. Pending(task') = headers \o (<<>> \o body)
      BY <1>12 DEF Pending
    <3> QED
      BY <3>1, <2>1, <2>2
  <2>4. WithoutTotals(headers \o GivenBody(r)) = WithoutTotals(headers) \o WithoutTotals(GivenBody(r))
    BY <2>2, <1>8, WithoutBoth
  <2>5. WithoutTotals(Pending(task')) = Given(r)
    BY <2>2, <2>3, <2>4, <1>8 DEF Given
  <2> QED
    BY <2>5, <1>4, <1>5, AnsweredNext
<1>15. Sending(task', in, out, script, k)
  <2>1. k >= 1
    BY <1>4
  <2>2. Kept(task')
    BY <1>5, <1>10, <1>12 DEF Kept, AskedFor
  <2> QED
    BY <2>1, <2>2, <1>5, <1>12, <1>14 DEF Sending
<1>16. Phase(task', in, out, script, k)
  BY <1>15 DEF Phase
<1>17. Serving(task', conn', script, unsent, got)
  BY <1>1, <1>3, <1>13, <1>16 DEF Serving
<1> QED
  BY <1>1, <1>12, <1>17 DEF ServesOn
-----------------------------------------------------------------------------
(* The steps that move no token.                                           *)
LEMMA WaitingServes ==
  ASSUME NEW script, NEW unsent, NEW got, ServesOn(task, conn, script, unsent, got),
         Accept \/ OnActivity \/ NeedLine
  PROVE  ServesOn(task', conn', script, unsent, got)
<1>1. IsConn(conn) /\ task \in Tasks /\ conn.reset = FALSE
  BY DEF ServesOn, Serving
<1>2. ~Ended("up")
  BY <1>1, ConnIs DEF Ended
<1>3. "run" \in Text /\ "readable" \in Text
  BY StatesAre
<1>4. conn' = conn /\ (task' = [task EXCEPT !.at = "run"] \/ task' = [task EXCEPT !.at = "readable"])
  BY <1>2 DEF Accept, OnActivity, NeedLine, Wait
<1>5. CASE task' = [task EXCEPT !.at = "run"]
  BY <1>3, <1>4, <1>5, OnlyMoves
<1>6. CASE task' = [task EXCEPT !.at = "readable"]
  BY <1>3, <1>4, <1>6, OnlyMoves
<1> QED
  BY <1>4, <1>5, <1>6

(* Between two requests, and ready for the next.                           *)
Turned(t) ==
  [at |-> t.at, state |-> "WAITING", lines |-> t.lines,
   verb |-> t.verb, path |-> t.path, last |-> t.last, reuse |-> t.reuse,
   closing |-> t.closing, range |-> t.range, remain |-> t.remain,
   source |-> t.source, sink |-> t.sink, posted |-> t.posted,
   headers |-> t.headers, answer |-> t.answer, buffer |-> t.buffer]

LEMMA TurnedIs ==
  ASSUME NEW t, t \in Tasks, NEW u, u = [t EXCEPT !.state = "WAITING"]
  PROVE  u = Turned(t)
  BY Zenon DEF Tasks, Turned

LEMMA TurnedTypes ==
  ASSUME NEW t, t \in Tasks, NEW u, u = [t EXCEPT !.state = "WAITING"]
  PROVE  /\ u \in Tasks /\ u.state = "WAITING" /\ u.at = t.at /\ u.lines = t.lines
         /\ u.last = t.last /\ u.source = t.source /\ u.sink = t.sink
         /\ u.posted = t.posted /\ u.buffer = t.buffer
<1>1. u = Turned(t)
  BY TurnedIs
<1>2. u \in Tasks
  BY <1>1, TaskIs, StatesAre DEF Tasks, Turned
<1> QED
  BY <1>1, <1>2 DEF Turned

LEMMA TurnedServes ==
  ASSUME NEW script, NEW unsent, NEW got, IsConn(conn), conn.reset = FALSE, conn.down.end = FALSE,
         task \in Tasks, task.at \notin {"gone", "failed"}, NEW k \in 0..Len(script),
         Inbound(task, conn, unsent) = AskedFrom(script, k),
         WithoutTotals(Outbound(conn, got)) = Answered(script, k),
         Kept(task), Quiet(task),
         task' = [task EXCEPT !.state = "WAITING"], conn' = conn
  PROVE  ServesOn(task', conn', script, unsent, got)
<1>1. /\ task' \in Tasks /\ task'.state = "WAITING" /\ task'.at = task.at /\ task'.lines = task.lines
      /\ task'.last = task.last /\ task'.source = task.source /\ task'.sink = task.sink
      /\ task'.posted = task.posted /\ task'.buffer = task.buffer
  BY TurnedTypes
<1>2. /\ Inbound(task', conn', unsent) = AskedFrom(script, k)
      /\ WithoutTotals(Outbound(conn', got)) = Answered(script, k)
      /\ Kept(task') /\ Quiet(task')
  BY <1>1 DEF Inbound, Outbound, Kept, Quiet
<1>3. Phase(task', Inbound(task', conn', unsent), WithoutTotals(Outbound(conn', got)), script, k)
  BY <1>1, <1>2 DEF Phase, Between
<1> QED
  BY <1>1, <1>3 DEF ServesOn, Serving

LEMMA CheckAccessServes ==
  ASSUME NEW script, NEW unsent, NEW got, ServesOn(task, conn, script, unsent, got),
         CheckAccess, peer # Denied
  PROVE  ServesOn(task', conn', script, unsent, got)
<1>1. /\ IsConn(conn) /\ task \in Tasks /\ task.at \notin {"gone", "failed"} /\ task.state = "CHECKING"
      /\ conn.reset = FALSE /\ conn.down.end = FALSE
      /\ task' = [task EXCEPT !.state = "WAITING"] /\ conn' = conn
  BY DEF ServesOn, Serving, CheckAccess, Run
<1>2. PICK k \in 0..Len(script) :
        Phase(task, Inbound(task, conn, unsent), WithoutTotals(Outbound(conn, got)), script, k)
  BY DEF ServesOn, Serving
<1>3. Between(task, Inbound(task, conn, unsent), WithoutTotals(Outbound(conn, got)), script, k)
  BY <1>1, <1>2 DEF Phase, Between, Reading, Taking, Sending
<1>4. /\ Inbound(task, conn, unsent) = AskedFrom(script, k)
      /\ WithoutTotals(Outbound(conn, got)) = Answered(script, k)
      /\ Kept(task) /\ Quiet(task)
  BY <1>3 DEF Between
<1> QED
  BY <1>1, <1>4, TurnedServes

(* The end of an answer.                                                   *)
LEMMA PhaseOfSending ==
  ASSUME NEW script, IsScript(script), NEW unsent, NEW got, ServesOn(task, conn, script, unsent, got),
         task.state \in {"SEND_HEADERS", "SEND_BODY"}
  PROVE  \E k \in 1..Len(script) :
           Sending(task, Inbound(task, conn, unsent), WithoutTotals(Outbound(conn, got)), script, k)
<1>1. PICK k \in 0..Len(script) :
        Phase(task, Inbound(task, conn, unsent), WithoutTotals(Outbound(conn, got)), script, k)
  BY DEF ServesOn, Serving
<1>2. Sending(task, Inbound(task, conn, unsent), WithoutTotals(Outbound(conn, got)), script, k)
  BY <1>1 DEF Phase, Between, Reading, Taking, Sending
<1>3. k \in 1..Len(script)
  BY <1>2, ScriptIs DEF Sending
<1> QED
  BY <1>2, <1>3

LEMMA EndOfResponseServes ==
  ASSUME NEW script, IsScript(script), NEW unsent \in Tokens, NEW got \in Tokens,
         ServesOn(task, conn, script, unsent, got), EndOfResponse
  PROVE  Serves(task', conn', script, unsent, got)
<1> DEFINE in  == Inbound(task, conn, unsent)
           out == WithoutTotals(Outbound(conn, got))
<1>1. /\ IsConn(conn) /\ task \in Tasks /\ conn.reset = FALSE /\ conn.down.end = FALSE
      /\ task.at = "run" /\ task.state = "SEND_BODY"
      /\ task.headers = <<>> /\ task.buffer = <<>> /\ (task.verb = "HEAD" \/ task.answer = <<>>)
  BY DEF ServesOn, Serving, EndOfResponse, Run
<1>2. PICK k \in 1..Len(script) : Sending(task, in, out, script, k)
  BY <1>1, PhaseOfSending
<1>3. Outbound(conn, got) \in Tokens /\ out \in Tokens
  <2>1. conn.down.data \in Tokens
    BY <1>1, ConnIs
  <2>2. Outbound(conn, got) \in Tokens
    BY <2>1, Cat DEF Outbound
  <2> QED
    BY <2>2, WithoutTypes
<1>4. Pending(task) = <<>> /\ WithoutTotals(Pending(task)) = <<>>
  <2>1. <<>> \in Tokens /\ Len(<<>>) = 0 /\ <<>> \o <<>> = <<>>
    BY EmptySeq, ConcatEmptySeq DEF Tokens
  <2>2. WithoutTotals(<<>>) = <<>>
    BY <2>1, WithoutNothing
  <2>3. (IF task.verb = "HEAD" THEN <<>> ELSE task.answer) = <<>>
    BY <1>1
  <2>4. Pending(task) = <<>> \o (<<>> \o <<>>)
    BY <1>1, <2>3 DEF Pending
  <2> QED
    BY <2>1, <2>2, <2>4
<1>5. in = AskedFrom(script, k) /\ out = Answered(script, k) /\ Kept(task) /\ Quiet(task)
  <2>1. out \o WithoutTotals(Pending(task)) = Answered(script, k)
    BY <1>2 DEF Sending
  <2>2. out \o <<>> = out
    BY <1>3, CatNothing
  <2> HIDE DEF in, out
  <2> QED
    BY <1>1, <1>2, <1>4, <2>1, <2>2 DEF Sending, Quiet
<1>6. CASE task.closing
  <2>1. task' = [task EXCEPT !.at = "gone"] /\ conn' = [conn EXCEPT !.down.end = TRUE]
    BY <1>6 DEF EndOfResponse, Destroy
  <2>2. /\ IsConn(conn') /\ conn'.down.data = conn.down.data /\ conn'.reset = conn.reset
    BY <1>1, <2>1, Ending
  <2>3. task'.at = "gone"
    BY <1>1, <2>1 DEF Tasks
  <2>4. WithoutTotals(Outbound(conn', got)) = Answered(script, k)
    BY <1>5, <2>2 DEF Outbound
  <2> QED
    BY <1>1, <2>2, <2>3, <2>4 DEF Serves, Done
<1>7. CASE ~task.closing
  <2>1. task' = [task EXCEPT !.state = "WAITING"] /\ conn' = conn
    BY <1>7 DEF EndOfResponse
  <2>2. k \in 0..Len(script) /\ task.at \notin {"gone", "failed"}
    BY <1>1, ScriptIs
  <2>3. ServesOn(task', conn', script, unsent, got)
    BY <1>1, <1>5, <2>1, <2>2, TurnedServes
  <2> QED
    BY <2>3, Lasting
<1> QED
  BY <1>6, <1>7
-----------------------------------------------------------------------------
(* Sending.                                                                *)
LEMMA CutAt ==
  ASSUME NEW s, NEW a, NEW x, Cut(s, a, x), NEW n, n = Len(a)
  PROVE  First(n, s) = a /\ Rest(n, s) = x
<1>0. a \in Tokens /\ x \in Tokens /\ s = a \o x
  BY DEF Cut
<1>1. Len(a) \in Nat /\ Len(x) \in Nat /\ s \in Tokens /\ Len(s) = Len(a) + Len(x) /\ n \in Nat
  BY <1>0, Cat DEF Tokens
<1> DEFINE f == First(n, s)
           r == Rest(n, s)
<1>2. f \in Tokens /\ r \in Tokens /\ f \o r = s /\ Len(f) = Least(n, Len(s))
  BY <1>1, TokensOf
<1>3. Least(n, Len(s)) = n
  BY <1>1 DEF Least
<1> HIDE DEF f, r
<1>4. f = First(Len(f), a) /\ r = Rest(Len(f), a) \o x
  <2>1. Cut(s, f, r) /\ Cut(s, a, x) /\ Len(f) <= Len(a)
    BY <1>0, <1>1, <1>2, <1>3 DEF Cut
  <2> QED
    BY <2>1, CutTokens
<1>5. First(n, a) = a /\ Rest(n, a) = <<>>
  <2>1. a \in Seq(Token) /\ n \in Nat /\ Len(a) <= n
    BY <1>0, <1>1 DEF Tokens
  <2> QED
    BY <2>1, FirstOfAll
<1>6. f = a /\ r = x
  BY <1>0, <1>2, <1>3, <1>4, <1>5, CatNothing
<1> QED
  BY <1>6 DEF f, r

LEMMA RestOfBoth ==
  ASSUME NEW h \in Tokens, NEW b \in Tokens, NEW n \in Nat
  PROVE  Rest(n, h) \o Rest(n - Least(n, Len(h)), b) = Rest(n, h \o b)
<1>1. Len(h) \in Nat /\ Len(b) \in Nat /\ h \o b \in Tokens /\ Len(h \o b) = Len(h) + Len(b)
  BY Cat DEF Tokens
<1>2. CASE n <= Len(h)
  <2> DEFINE f == First(n, h)
             r == Rest(n, h)
  <2>1. f \in Tokens /\ r \in Tokens /\ f \o r = h /\ Len(f) = n
    <3>1. Least(n, Len(h)) = n
      BY <1>1, <1>2 DEF Least
    <3> QED
      BY <3>1, TokensOf
  <2>2. n - Least(n, Len(h)) = 0
    BY <1>1, <1>2 DEF Least
  <2>3. Rest(0, b) = b
    <3>1. 0 \in Nat
      OBVIOUS
    <3>2. First(0, b) = <<>>
      BY FirstOfNone DEF Tokens
    <3>3. First(0, b) \o Rest(0, b) = b /\ Rest(0, b) \in Tokens
      BY <3>1, TokensOf
    <3> QED
      BY <3>2, <3>3, CatNothing
  <2> HIDE DEF f, r
  <2>4. h \o b = f \o (r \o b) /\ r \o b \in Tokens
    <3>1. (f \o r) \o b = f \o (r \o b)
      <4>1. Assoc(f, r, b)
        BY <2>1, CatAssoc
      <4> QED
        BY <4>1 DEF Assoc
    <3> QED
      BY <3>1, <2>1, Cat
  <2>5. Rest(n, h \o b) = r \o b
    <3>1. Cut(h \o b, f, r \o b) /\ n = Len(f)
      BY <2>1, <2>4 DEF Cut
    <3> QED
      BY <3>1, CutAt
  <2> QED
    BY <2>2, <2>3, <2>5 DEF r
<1>3. CASE Len(h) < n
  <2> DEFINE m == n - Len(h)
             f == First(m, b)
             r == Rest(m, b)
  <2>1. m \in Nat /\ n - Least(n, Len(h)) = m /\ n = Len(h) + m
    BY <1>1, <1>3 DEF Least
  <2>2. Rest(n, h) = <<>>
    <3>1. h \in Seq(Token) /\ Len(h) <= n
      BY <1>1, <1>3 DEF Tokens
    <3> QED
      BY <3>1, FirstOfAll
  <2>3. f \in Tokens /\ r \in Tokens /\ f \o r = b /\ Len(f) = Least(m, Len(b)) /\ <<>> \o r = r
    <3>1. f \in Tokens /\ r \in Tokens /\ f \o r = b /\ Len(f) = Least(m, Len(b))
      BY <2>1, TokensOf
    <3> HIDE DEF r
    <3> QED
      BY <3>1, CatNothing
  <2> HIDE DEF f, m
  <2>4. Rest(n, h \o b) = r
    <3>1. CASE m <= Len(b)
      <4>1. Len(f) = m
        BY <1>1, <2>1, <2>3, <3>1 DEF Least
      <4> HIDE DEF r
      <4>2. h \o f \in Tokens /\ Len(h \o f) = n
        BY <2>1, <2>3, <4>1, Cat
      <4>3. h \o b = (h \o f) \o r
        BY <2>3, CatThree
      <4>4. Cut(h \o b, h \o f, r) /\ n = Len(h \o f)
        BY <2>3, <4>2, <4>3 DEF Cut
      <4> QED
        BY <4>4, CutAt
    <3>2. CASE Len(b) < m
      <4>1. b \in Seq(Token) /\ h \o b \in Seq(Token) /\ Len(b) <= m /\ Len(h \o b) <= n
        BY <1>1, <2>1, <3>2 DEF Tokens
      <4> QED
        BY <4>1, <2>1, FirstOfAll
    <3> QED
      BY <3>1, <3>2, <1>1, <2>1
  <2> QED
    BY <2>1, <2>2, <2>3, <2>4 DEF r
<1> QED
  BY <1>1, <1>2, <1>3

(* What is sent is no longer to be sent.                                   *)
LEMMA SentOn ==
  ASSUME NEW got \in Tokens, NEW down \in Tokens, NEW all, NEW first, NEW later,
         Cut(all, first, later)
  PROVE  WithoutTotals(got \o (down \o first)) \o WithoutTotals(later)
           = WithoutTotals(got \o down) \o WithoutTotals(all)
<1>0. first \in Tokens /\ later \in Tokens /\ all = first \o later
  BY DEF Cut
<1> DEFINE o == got \o down
<1>1. o \in Tokens /\ down \o first \in Tokens
  BY <1>0, Cat
<1>2. got \o (down \o first) = o \o first
  BY <1>0, CatThree
<1> HIDE DEF o
<1>3. WithoutTotals(o \o first) = WithoutTotals(o) \o WithoutTotals(first)
  BY <1>0, <1>1, WithoutBoth
<1>4. WithoutTotals(all) = WithoutTotals(first) \o WithoutTotals(later)
  BY <1>0, WithoutBoth
<1>5. /\ WithoutTotals(o) \in Tokens /\ WithoutTotals(first) \in Tokens
      /\ WithoutTotals(later) \in Tokens
  BY <1>0, <1>1, WithoutTypes
<1>6. (WithoutTotals(o) \o WithoutTotals(first)) \o WithoutTotals(later)
        = WithoutTotals(o) \o (WithoutTotals(first) \o WithoutTotals(later))
  <2>1. Assoc(WithoutTotals(o), WithoutTotals(first), WithoutTotals(later))
    BY <1>5, CatAssoc
  <2> QED
    BY <2>1 DEF Assoc
<1>7. WithoutTotals(got \o (down \o first)) \o WithoutTotals(later)
        = WithoutTotals(o) \o WithoutTotals(all)
  BY <1>2, <1>3, <1>4, <1>6
<1> QED
  BY <1>7 DEF o


(* The task while it sends.                                                *)
MovedOn(t, at, state, headers, answer, buffer) ==
  [at |-> at, state |-> state, lines |-> t.lines,
   verb |-> t.verb, path |-> t.path, last |-> t.last, reuse |-> t.reuse,
   closing |-> t.closing, range |-> t.range, remain |-> t.remain,
   source |-> t.source, sink |-> t.sink, posted |-> t.posted,
   headers |-> headers, answer |-> answer, buffer |-> buffer]

LEMMA MovedOnIs ==
  ASSUME NEW t, t \in Tasks, NEW headers, NEW u
  PROVE  /\ u = [t EXCEPT !.state = "SEND_BODY"]
              => u = MovedOn(t, t.at, "SEND_BODY", t.headers, t.answer, t.buffer)
         /\ u = [t EXCEPT !.headers = headers]
              => u = MovedOn(t, t.at, t.state, headers, t.answer, t.buffer)
<1>1. ASSUME u = [t EXCEPT !.state = "SEND_BODY"]
      PROVE  u = MovedOn(t, t.at, "SEND_BODY", t.headers, t.answer, t.buffer)
  BY <1>1, Zenon DEF Tasks, MovedOn
<1>2. ASSUME u = [t EXCEPT !.headers = headers]
      PROVE  u = MovedOn(t, t.at, t.state, headers, t.answer, t.buffer)
  BY <1>2, Zenon DEF Tasks, MovedOn
<1> QED
  BY <1>1, <1>2

LEMMA FilledOn ==
  ASSUME NEW t, t \in Tasks, NEW answer, NEW buffer, NEW f,
         f = [t EXCEPT !.answer = answer, !.buffer = buffer]
  PROVE  f = MovedOn(t, t.at, t.state, t.headers, answer, buffer)
  BY Zenon DEF Tasks, MovedOn

LEMMA FilledWaits ==
  ASSUME NEW t, NEW at, NEW state, NEW headers, NEW answer, NEW buffer, NEW u,
         u = [MovedOn(t, at, state, headers, answer, buffer) EXCEPT !.at = "writable"]
  PROVE  u = MovedOn(t, "writable", state, headers, answer, buffer)
  BY Zenon DEF MovedOn

GoesOn(u, f, h, b) == u = [f EXCEPT !.headers = h, !.buffer = b]

LEMMA FilledGoesOn ==
  ASSUME NEW t, NEW at, NEW state, NEW headers, NEW answer, NEW buffer, NEW f,
         f = MovedOn(t, at, state, headers, answer, buffer),
         NEW h, NEW b, NEW u, GoesOn(u, f, h, b)
  PROVE  u = MovedOn(t, at, state, h, answer, b)
  BY Zenon DEF MovedOn, GoesOn

LEMMA SendingServes ==
  ASSUME NEW script, NEW unsent, NEW got, NEW k \in 1..Len(script), IsScript(script),
         task \in Tasks, IsConn(conn'), conn'.reset = FALSE, conn'.down.end = FALSE,
         conn'.up = conn.up,
         Sending(task, Inbound(task, conn, unsent), WithoutTotals(Outbound(conn, got)), script, k),
         NEW at \in Text, at \notin {"gone", "failed"}, NEW state \in {"SEND_HEADERS", "SEND_BODY"},
         NEW headers \in Tokens, NEW answer \in Tokens, NEW buffer \in Tokens,
         task' = MovedOn(task, at, state, headers, answer, buffer),
         task.verb = "HEAD" => buffer = <<>>,
         WithoutTotals(Outbound(conn', got)) \o WithoutTotals(Pending(task'))
           = WithoutTotals(Outbound(conn, got)) \o WithoutTotals(Pending(task))
  PROVE  ServesOn(task', conn', script, unsent, got)
<1>1. /\ task'.at = at /\ task'.state = state /\ task'.lines = task.lines
      /\ task'.verb = task.verb /\ task'.last = task.last /\ task'.source = task.source
      /\ task'.sink = task.sink /\ task'.posted = task.posted /\ task'.buffer = buffer
  BY DEF MovedOn
<1>2. task' \in Tasks
  <2>1. state \in Text
    BY StatesAre
  <2> QED
    BY <2>1, TaskIs DEF Tasks, MovedOn
<1>3. Inbound(task', conn', unsent) = Inbound(task, conn, unsent)
  BY <1>1 DEF Inbound
<1>4. Sending(task', Inbound(task', conn', unsent), WithoutTotals(Outbound(conn', got)), script, k)
  BY <1>1, <1>3 DEF Sending, Kept
<1>5. Phase(task', Inbound(task', conn', unsent), WithoutTotals(Outbound(conn', got)), script, k)
  BY <1>4 DEF Phase
<1>6. k \in 0..Len(script)
  BY ScriptIs
<1> QED
  BY <1>1, <1>2, <1>5, <1>6 DEF ServesOn, Serving

LEMMA SendHeadersServes ==
  ASSUME NEW script, IsScript(script), NEW unsent \in Tokens, NEW got \in Tokens,
         ServesOn(task, conn, script, unsent, got), SendHeaders
  PROVE  ServesOn(task', conn', script, unsent, got)
<1>1. /\ IsConn(conn) /\ task \in Tasks /\ conn.reset = FALSE /\ conn.down.end = FALSE
      /\ task.at = "run" /\ task.state = "SEND_HEADERS"
  BY DEF ServesOn, Serving, SendHeaders, Run
<1>2. /\ task.headers \in Tokens /\ task.answer \in Tokens /\ task.buffer \in Tokens
      /\ conn.down.data \in Tokens /\ <<>> \in Tokens /\ "run" \in Text /\ "writable" \in Text
  BY <1>1, TaskIs, ConnIs, StatesAre, EmptySeq DEF Tokens
<1>3. PICK k \in 1..Len(script) :
        Sending(task, Inbound(task, conn, unsent), WithoutTotals(Outbound(conn, got)), script, k)
  BY <1>1, PhaseOfSending
<1>4. task.verb = "HEAD" => task.buffer = <<>>
  BY <1>3 DEF Sending
<1>5. CASE task' = [task EXCEPT !.state = "SEND_BODY"] /\ conn' = conn
  <2>1. task' = MovedOn(task, "run", "SEND_BODY", task.headers, task.answer, task.buffer)
    BY <1>1, <1>5, MovedOnIs
  <2>2. /\ task'.headers = task.headers /\ task'.buffer = task.buffer /\ task'.answer = task.answer
        /\ task'.verb = task.verb
    BY <2>1 DEF MovedOn
  <2>3. WithoutTotals(Outbound(conn', got)) \o WithoutTotals(Pending(task'))
           = WithoutTotals(Outbound(conn, got)) \o WithoutTotals(Pending(task))
    BY <1>5, <2>2 DEF Pending
  <2>4. /\ IsConn(conn') /\ conn'.reset = FALSE /\ conn'.down.end = FALSE /\ conn'.up = conn.up
    BY <1>1, <1>5
  <2> QED
    BY <1>1, <1>2, <1>3, <1>4, <2>1, <2>3, <2>4, SendingServes
<1>6. CASE Wait("writable")
  <2>1. task' = [task EXCEPT !.at = "writable"] /\ conn' = conn
    BY <1>6 DEF Wait
  <2> QED
    BY <2>1, <1>2, OnlyMoves
<1>7. CASE /\ task.verb = "HEAD" /\ conn' = Sent("down", task.headers)
           /\ task' = [task EXCEPT !.headers = Rest(Room("down"), @)]
  <2> DEFINE first == First(Room("down"), task.headers)
             later == Rest(Room("down"), task.headers)
  <2>1. /\ IsConn(conn') /\ Room("down") \in Nat
        /\ conn'.down.data = conn.down.data \o first
        /\ conn'.down.end = conn.down.end /\ conn'.up = conn.up /\ conn'.reset = conn.reset
    BY <1>1, <1>2, <1>7, SentDown
  <2>2. first \in Tokens /\ later \in Tokens /\ first \o later = task.headers
    BY <1>2, <2>1, TokensOf
  <2>3. task' = [task EXCEPT !.headers = later]
    BY <1>1, <1>7 DEF Tasks
  <2> HIDE DEF first, later
  <2>4. task' = MovedOn(task, "run", "SEND_HEADERS", later, task.answer, task.buffer)
    BY <1>1, <2>3, MovedOnIs
  <2>5. Pending(task) = task.headers /\ Pending(task') = later
    <3>1. /\ task'.headers = later /\ task'.buffer = <<>> /\ task'.verb = "HEAD"
          /\ task.buffer = <<>>
      BY <1>4, <1>7, <2>4 DEF MovedOn
    <3>2. <<>> \o <<>> = <<>> /\ task.headers \o <<>> = task.headers /\ later \o <<>> = later
      BY <1>2, <2>2, CatNothing
    <3>3. Pending(task) = task.headers \o (<<>> \o <<>>)
      BY <3>1, <1>7 DEF Pending
    <3>4. Pending(task') = later \o (<<>> \o <<>>)
      BY <3>1 DEF Pending
    <3> QED
      BY <3>2, <3>3, <3>4
  <2>6. WithoutTotals(Outbound(conn', got)) \o WithoutTotals(Pending(task'))
           = WithoutTotals(Outbound(conn, got)) \o WithoutTotals(Pending(task))
    <3>1. WithoutTotals(got \o (conn.down.data \o first)) \o WithoutTotals(later)
           = WithoutTotals(got \o conn.down.data) \o WithoutTotals(task.headers)
      <4>1. conn.down.data \in Tokens /\ Cut(task.headers, first, later)
        BY <1>2, <2>2 DEF Cut
      <4> QED
        BY <4>1, SentOn
    <3> QED
      BY <3>1, <2>1, <2>5 DEF Outbound
  <2> QED
    BY <1>1, <1>2, <1>3, <1>4, <2>1, <2>2, <2>4, <2>6, SendingServes
<1> QED
  BY <1>1, <1>5, <1>6, <1>7 DEF SendHeaders

(* Filling the buffer: what is read is the first of what is left.          *)
LEMMA FilledIs ==
  ASSUME task \in Tasks, arrived \in Int, NEW read, read = First(Space, Available)
  PROVE  Cut(task.answer, read, Rest(Len(read), task.answer))
<1>1. /\ task.answer \in Tokens /\ task.answer \in Seq(Token) /\ task.buffer \in Tokens
      /\ Len(task.answer) \in Nat /\ Len(task.buffer) \in Nat
  BY TaskIs DEF Tokens
<1>2. BodyBuffer \in Nat /\ Size[Live] \in Nat
  BY ConnectionAssumption, SessionAssumption DEF ConnectionAssumption, SessionAssumption
<1>3. Space \in Int /\ arrived - (Size[Live] - Len(task.answer)) \in Int
  BY <1>1, <1>2 DEF Space
<1>4. First(Len(task.answer), task.answer) = task.answer
  BY <1>1, FirstOfAll
<1>5. \E m \in Int : Available = First(m, task.answer)
  BY <1>1, <1>3, <1>4 DEF Available
<1>6. PICK m \in Int : read = First(Space, First(m, task.answer))
  BY <1>5
<1> DEFINE s == task.answer
           n == Space
<1>7. s \in Seq(Token) /\ n \in Int
  BY <1>1, <1>3
<1> HIDE DEF s, n
<1>8. First(n, First(m, s)) \in Seq(Token)
      /\ First(n, First(m, s)) \o Rest(Len(First(n, First(m, s))), s) = s
  BY <1>7, FirstOfFirst
<1>9. read = First(n, First(m, s))
  BY <1>6 DEF n, s
<1>10. read \in Seq(Token) /\ read \o Rest(Len(read), s) = s
  BY <1>8, <1>9
<1>11. Rest(Len(read), s) \in Tokens
  <2>1. Len(read) \in Nat /\ s \in Tokens
    BY <1>7, <1>10 DEF Tokens
  <2> QED
    BY <2>1, TokensOf
<1> QED
  BY <1>10, <1>11 DEF Cut, s, Tokens

(* However much of it is in the buffer, what is pending is the same.       *)
Filling(h, b, s, x, y) == h \in Tokens /\ b \in Tokens /\ Cut(s, x, y)
Filled(h, b, s, x, y) ==
  /\ b \o x \in Tokens /\ h \o (b \o x) \in Tokens
  /\ h \o ((b \o x) \o y) = h \o (b \o s)
  /\ Cut(h \o (b \o s), h \o (b \o x), y)

LEMMA FillingIs ==
  ASSUME NEW h, NEW b, NEW s, NEW x, NEW y, Filling(h, b, s, x, y)
  PROVE  Filled(h, b, s, x, y)
<1>0. h \in Tokens /\ b \in Tokens /\ x \in Tokens /\ y \in Tokens /\ s = x \o y
  BY DEF Filling, Cut
<1> DEFINE bx == b \o x
<1>1. bx \in Tokens
  BY <1>0, Cat
<1>2. bx \o y = b \o s
  <2>1. b \in Tokens /\ x \in Tokens /\ y \in Tokens
    BY <1>0
  <2> QED
    BY <2>1, <1>0, CatThree
<1> HIDE DEF bx
<1>3. h \o bx \in Tokens
  BY <1>0, <1>1, Cat
<1>4. (h \o bx) \o y = h \o (bx \o y)
  <2>1. h \in Tokens /\ bx \in Tokens /\ y \in Tokens
    BY <1>0, <1>1
  <2> QED
    BY <2>1, CatThree
<1>5. h \o (b \o s) = (h \o bx) \o y
  BY <1>2, <1>4
<1> QED
  BY <1>0, <1>1, <1>2, <1>3, <1>5 DEF bx, Cut, Filled

(* What is left of a message is what is left of its two parts.             *)
LEMMA LeftOf ==
  ASSUME NEW h \in Tokens, NEW b \in Tokens, NEW y, NEW all, Cut(all, h \o b, y),
         NEW room \in Nat, NEW wrote, wrote = Least(room, Len(h \o b)),
         NEW h2, h2 = Rest(wrote, h), NEW b2, b2 = Rest(wrote - Least(wrote, Len(h)), b)
  PROVE  /\ h2 \in Tokens /\ b2 \in Tokens
         /\ Cut(all, First(room, h \o b), h2 \o (b2 \o y))
<1> DEFINE m == h \o b
           f == First(room, m)
           r == Rest(room, m)
<1>1. m \in Tokens /\ y \in Tokens /\ all = m \o y /\ Len(m) \in Nat /\ Len(h) \in Nat
  BY DEF Cut, Tokens
<1> HIDE DEF m
<1>2. f \in Tokens /\ r \in Tokens /\ f \o r = m
  BY <1>1, TokensOf
<1>3. wrote \in Nat /\ wrote = Least(room, Len(m)) /\ wrote - Least(wrote, Len(h)) \in Nat
  <2>1. wrote = Least(room, Len(m))
    BY DEF m
  <2>2. wrote \in Nat
    BY <2>1, <1>1 DEF Least
  <2>3. wrote - Least(wrote, Len(h)) \in Nat
    BY <2>2, <1>1 DEF Least
  <2> QED
    BY <2>1, <2>2, <2>3
<1>4. h2 \in Tokens /\ b2 \in Tokens
  BY <1>3, TokensOf
<1>5. Rest(wrote, m) = r
  <2>1. CASE room <= Len(m)
    BY <2>1, <1>1, <1>3 DEF Least
  <2>2. CASE Len(m) < room
    <3>1. wrote = Len(m)
      BY <2>2, <1>1, <1>3 DEF Least
    <3>2. m \in Seq(Token) /\ Len(m) <= wrote /\ Len(m) <= room
      BY <3>1, <2>2, <1>1 DEF Tokens
    <3> QED
      BY <3>2, <1>3, FirstOfAll
  <2> QED
    BY <2>1, <2>2, <1>1
<1>6. h2 \o b2 = r
  <2>1. h2 \o b2 = Rest(wrote, m)
    BY <1>3, RestOfBoth DEF m
  <2> QED
    BY <2>1, <1>5
<1> HIDE DEF f, r
<1>7. all = f \o (r \o y) /\ r \o y \in Tokens
  <2>1. (f \o r) \o y = f \o (r \o y)
    <3>1. f \in Tokens /\ r \in Tokens /\ y \in Tokens
      BY <1>1, <1>2
    <3>2. Assoc(f, r, y)
      BY <3>1, CatAssoc
    <3> QED
      BY <3>2 DEF Assoc
  <2>2. r \o y \in Tokens
    BY <1>1, <1>2, Cat
  <2> QED
    BY <2>1, <2>2, <1>1, <1>2
<1>8. r \o y = h2 \o (b2 \o y)
  <2>1. (h2 \o b2) \o y = h2 \o (b2 \o y)
    <3>1. h2 \in Tokens /\ b2 \in Tokens /\ y \in Tokens
      BY <1>1, <1>4
    <3>2. Assoc(h2, b2, y)
      BY <3>1, CatAssoc
    <3> QED
      BY <3>2 DEF Assoc
  <2> QED
    BY <2>1, <1>6
<1> QED
  BY <1>2, <1>4, <1>7, <1>8 DEF Cut, f, m

LEMMA SendBodyServes ==
  ASSUME NEW script, IsScript(script), NEW unsent \in Tokens, NEW got \in Tokens,
         ServesOn(task, conn, script, unsent, got), SendBody, arrived \in Int
  PROVE  ServesOn(task', conn', script, unsent, got)
<1> DEFINE read    == First(Space, Available)
           buffer  == task.buffer \o read
           message == task.headers \o buffer
           wrote   == Least(Room("down"), Len(message))
           answer  == Rest(Len(read), task.answer)
           h2      == Rest(wrote, task.headers)
           b2      == Rest(wrote - Least(wrote, Len(task.headers)), buffer)
           all     == task.headers \o (task.buffer \o task.answer)
<1>1. /\ IsConn(conn) /\ task \in Tasks /\ conn.reset = FALSE /\ conn.down.end = FALSE
      /\ task.at = "run" /\ task.state = "SEND_BODY" /\ task.verb # "HEAD"
  BY DEF ServesOn, Serving, SendBody, Run
<1>2. /\ task.headers \in Tokens /\ task.answer \in Tokens /\ task.buffer \in Tokens
      /\ conn.down.data \in Tokens
      /\ "run" \in Text /\ "writable" \in Text /\ "source" \in Text
  BY <1>1, TaskIs, ConnIs, StatesAre
<1>3. PICK k \in 1..Len(script) :
        Sending(task, Inbound(task, conn, unsent), WithoutTotals(Outbound(conn, got)), script, k)
  BY <1>1, PhaseOfSending
<1> DEFINE filled == [task EXCEPT !.answer = Rest(Len(read), @), !.buffer = buffer]
<1>4. \/ Wait("source")
      \/ task' = [filled EXCEPT !.at = "writable"] /\ conn' = conn
      \/ /\ conn' = Sent("down", message)
         /\ task' = [filled EXCEPT !.headers = Rest(wrote, @),
                       !.buffer = Rest(wrote - Least(wrote, Len(task.headers)), @)]
  BY <1>1 DEF SendBody
<1>11. filled = MovedOn(task, task.at, task.state, task.headers, answer, buffer)
  <2>1. filled = [task EXCEPT !.answer = answer, !.buffer = buffer]
    BY <1>1 DEF Tasks
  <2> HIDE DEF filled, answer, buffer
  <2> QED
    BY <1>1, <2>1, FilledOn
<1> HIDE DEF filled
<1>12. filled.headers = task.headers /\ filled.buffer = buffer
  BY <1>11 DEF MovedOn
<1>5. Pending(task) = all
  BY <1>1 DEF Pending
<1>6. Cut(task.answer, read, answer)
  BY <1>1, FilledIs
<1> HIDE DEF read
<1>7. /\ buffer \in Tokens /\ message \in Tokens /\ answer \in Tokens
      /\ task.headers \o (buffer \o answer) = all
      /\ Cut(all, message, answer)
  <2>1. answer \in Tokens
    BY <1>6 DEF Cut
  <2> HIDE DEF answer
  <2>2. Filling(task.headers, task.buffer, task.answer, read, answer)
    BY <1>2, <1>6 DEF Filling
  <2>3. Filled(task.headers, task.buffer, task.answer, read, answer)
    BY <2>2, FillingIs
  <2> QED
    BY <2>1, <2>3 DEF Filled
<1> HIDE DEF buffer, answer, all
<1>8. CASE Wait("source")
  <2>1. task' = [task EXCEPT !.at = "source"] /\ conn' = conn
    BY <1>8 DEF Wait
  <2> QED
    BY <2>1, <1>2, OnlyMoves
<1>9. CASE task' = [filled EXCEPT !.at = "writable"] /\ conn' = conn
  <2>1. task' = MovedOn(task, "writable", "SEND_BODY", task.headers, answer, buffer)
    BY <1>1, <1>9, <1>11, FilledWaits
  <2>2. Pending(task') = all
    <3>1. /\ task'.headers = task.headers /\ task'.buffer = buffer /\ task'.answer = answer
          /\ task'.verb = task.verb
      BY <2>1 DEF MovedOn
    <3> QED
      BY <3>1, <1>1, <1>7 DEF Pending
  <2>3. WithoutTotals(Outbound(conn', got)) \o WithoutTotals(Pending(task'))
           = WithoutTotals(Outbound(conn, got)) \o WithoutTotals(Pending(task))
    BY <1>5, <1>9, <2>2
  <2>4. /\ IsConn(conn') /\ conn'.reset = FALSE /\ conn'.down.end = FALSE /\ conn'.up = conn.up
    BY <1>1, <1>9
  <2> QED
    BY <1>1, <1>2, <1>3, <1>7, <2>1, <2>3, <2>4, SendingServes
<1>10. CASE /\ conn' = Sent("down", message)
            /\ task' = [filled EXCEPT !.headers = Rest(wrote, @),
                          !.buffer = Rest(wrote - Least(wrote, Len(task.headers)), @)]
  <2> DEFINE first == First(Room("down"), message)
  <2>1. /\ IsConn(conn') /\ Room("down") \in Nat
        /\ conn'.down.data = conn.down.data \o first
        /\ conn'.down.end = conn.down.end /\ conn'.up = conn.up /\ conn'.reset = conn.reset
    <3> HIDE DEF message
    <3> QED
      BY <1>1, <1>7, <1>10, SentDown
  <2>2. /\ h2 \in Tokens /\ b2 \in Tokens
        /\ Cut(all, first, h2 \o (b2 \o answer))
    BY <1>2, <1>7, <2>1, LeftOf
  <2>3. GoesOn(task', filled, h2, b2)
    BY <1>10, <1>11, <1>12 DEF MovedOn, GoesOn
  <2> HIDE DEF first, message, wrote, h2, b2
  <2>4. task' = MovedOn(task, "run", "SEND_BODY", h2, answer, b2)
    <3>1. filled = MovedOn(task, "run", "SEND_BODY", task.headers, answer, buffer)
      BY <1>1, <1>11
    <3> QED
      BY <2>3, <3>1, FilledGoesOn
  <2>5. Pending(task') = h2 \o (b2 \o answer)
    <3>1. /\ task'.headers = h2 /\ task'.buffer = b2 /\ task'.answer = answer
          /\ task'.verb = task.verb
      BY <2>4 DEF MovedOn
    <3> QED
      BY <3>1, <1>1 DEF Pending
  <2>6. WithoutTotals(Outbound(conn', got)) \o WithoutTotals(Pending(task'))
           = WithoutTotals(Outbound(conn, got)) \o WithoutTotals(Pending(task))
    <3>1. WithoutTotals(got \o (conn.down.data \o first)) \o WithoutTotals(h2 \o (b2 \o answer))
           = WithoutTotals(got \o conn.down.data) \o WithoutTotals(all)
      BY <1>2, <2>2, SentOn
    <3> QED
      BY <3>1, <1>5, <2>1, <2>5 DEF Outbound
  <2>7. conn'.reset = FALSE /\ conn'.down.end = FALSE
    BY <1>1, <2>1
  <2> QED
    BY <1>1, <1>2, <1>3, <1>7, <2>1, <2>2, <2>4, <2>6, <2>7, SendingServes
<1> QED
  BY <1>4, <1>8, <1>9, <1>10
-----------------------------------------------------------------------------
(* What has been given is the beginning of all the answers.                *)
LEMMA PendingTypes ==
  ASSUME NEW t \in Tasks
  PROVE  Pending(t) \in Tokens
<1>1. /\ t.headers \in Tokens /\ t.buffer \in Tokens
      /\ (IF t.verb = "HEAD" THEN <<>> ELSE t.answer) \in Tokens
  <2>1. t.headers \in Tokens /\ t.buffer \in Tokens /\ t.answer \in Tokens /\ <<>> \in Tokens
    BY TaskIs, EmptySeq DEF Tokens
  <2> QED
    BY <2>1
<1>2. ASSUME NEW h \in Tokens, NEW b \in Tokens, NEW a \in Tokens
      PROVE  h \o (b \o a) \in Tokens
  <2>1. b \o a \in Tokens
    BY Cat
  <2> QED
    BY <2>1, Cat
<1> QED
  BY <1>1, <1>2 DEF Pending

LEMMA PhaseBegun ==
  ASSUME NEW script, IsScript(script), NEW k \in 0..Len(script), NEW t \in Tasks,
         NEW in, NEW out \in Tokens, Phase(t, in, out, script, k)
  PROVE  \E j \in 0..Len(script), y \in Tokens : out \o y = Answered(script, j)
<1>1. out \o <<>> = out /\ <<>> \in Tokens
  BY CatNothing, EmptySeq DEF Tokens
<1>2. Len(script) \in Nat /\ (k >= 1 => k - 1 \in 0..Len(script))
  BY ScriptIs
<1>3. CASE Between(t, in, out, script, k)
  BY <1>1, <1>3 DEF Between
<1>4. CASE Reading(t, in, out, script, k)
  BY <1>1, <1>2, <1>4 DEF Reading
<1>5. CASE Taking(t, in, out, script, k)
  BY <1>1, <1>2, <1>5 DEF Taking
<1>6. CASE Sending(t, in, out, script, k)
  <2>1. WithoutTotals(Pending(t)) \in Tokens
    BY PendingTypes, WithoutTypes
  <2>2. out \o WithoutTotals(Pending(t)) = Answered(script, k)
    BY <1>6 DEF Sending
  <2> QED
    BY <2>1, <2>2
<1> QED
  BY <1>3, <1>4, <1>5, <1>6 DEF Phase

LEMMA BegunAt ==
  ASSUME NEW script, IsScript(script), NEW out \in Tokens, NEW j \in 0..Len(script),
         NEW y \in Tokens, out \o y = Answered(script, j)
  PROVE  \E z \in Tokens : out \o z = Answered(script, Len(script))
<1>1. PICK x \in Tokens : Answered(script, j) \o x = Answered(script, Len(script))
  BY AnsweredGoesOn
<1>2. Assoc(out, y, x) /\ y \o x \in Tokens
  BY CatAssoc, Cat
<1> QED
  BY <1>1, <1>2 DEF Assoc

LEMMA OutboundTypes ==
  ASSUME NEW c, IsConn(c), NEW got \in Tokens
  PROVE  Outbound(c, got) \in Tokens /\ WithoutTotals(Outbound(c, got)) \in Tokens
<1>1. c.down.data \in Tokens
  BY DEF IsConn, Chan
<1>2. Outbound(c, got) \in Tokens
  BY <1>1, Cat DEF Outbound
<1> QED
  BY <1>2, WithoutTypes

LEMMA ServesBegun ==
  ASSUME NEW t, NEW c, NEW script, IsScript(script), NEW unsent, NEW got \in Tokens,
         Serves(t, c, script, unsent, got)
  PROVE  Begun(c, script, got)
<1>1. CASE IsConn(c) /\ t.at = "gone" /\ Done(c, script, got)
  <2>1. PICK k \in 1..Len(script) : WithoutTotals(Outbound(c, got)) = Answered(script, k)
    BY <1>1 DEF Done
  <2>2. k \in 0..Len(script)
    BY ScriptIs
  <2>3. PICK z \in Tokens : Answered(script, k) \o z = Answered(script, Len(script))
    BY <2>2, AnsweredGoesOn
  <2> QED
    BY <2>1, <2>3 DEF Begun
<1>2. CASE IsConn(c) /\ t \in Tasks /\ Serving(t, c, script, unsent, got)
  <2> DEFINE out == WithoutTotals(Outbound(c, got))
  <2>1. PICK k \in 0..Len(script) : Phase(t, Inbound(t, c, unsent), out, script, k)
    BY <1>2 DEF Serving
  <2>2. out \in Tokens
    BY <1>2, OutboundTypes
  <2> HIDE DEF out
  <2>3. PICK j \in 0..Len(script), y \in Tokens : out \o y = Answered(script, j)
    BY <1>2, <2>1, <2>2, PhaseBegun
  <2>4. \E z \in Tokens : out \o z = Answered(script, Len(script))
    BY <2>2, <2>3, BegunAt
  <2> QED
    BY <2>4 DEF Begun, out
<1> QED
  BY <1>1, <1>2 DEF Serves, Failed

(* The stream that is sent cannot be read.                                 *)
LEMMA SourceFailsServes ==
  ASSUME NEW script, IsScript(script), NEW unsent, NEW got \in Tokens,
         ServesOn(task, conn, script, unsent, got), SourceFails
  PROVE  Serves(task', conn', script, unsent, got)
<1>1. /\ IsConn(conn) /\ task \in Tasks /\ conn.reset = FALSE
      /\ task' = [task EXCEPT !.at = "failed"] /\ conn' = [conn EXCEPT !.down.end = TRUE]
  BY DEF ServesOn, Serving, SourceFails
<1>2. task'.at = "failed"
  BY <1>1 DEF Tasks
<1>3. IsConn(conn') /\ conn'.down.data = conn.down.data /\ conn'.reset = conn.reset
  BY <1>1, Ending
<1>4. Begun(conn, script, got)
  BY Lasting, ServesBegun
<1>5. Begun(conn', script, got)
  BY <1>3, <1>4 DEF Begun, Outbound
<1> QED
  BY <1>1, <1>2, <1>3, <1>5 DEF Serves, Failed
-----------------------------------------------------------------------------
(* Every step of the server.                                               *)
LEMMA SamePlace ==
  ASSUME NEW c, NEW d, NEW script, NEW got, Begun(c, script, got), Lost(c),
         d = c \/ (\E x : d = [c EXCEPT !.up = x]) \/ d = [c EXCEPT !.down.end = TRUE]
  PROVE  Lost(d) /\ Begun(d, script, got)
<1>1. /\ c.reset = TRUE /\ c.down.data = <<>>
      /\ c = [up |-> c.up, down |-> c.down, open |-> c.open, reset |-> c.reset]
      /\ c.down = [data |-> c.down.data, end |-> c.down.end]
  BY DEF Lost
<1>2. ASSUME NEW x, d = [c EXCEPT !.up = x]
      PROVE  Lost(d) /\ d.down.data = c.down.data
  BY <1>1, <1>2 DEF Lost
<1>3. ASSUME d = [c EXCEPT !.down.end = TRUE]
      PROVE  Lost(d) /\ d.down.data = c.down.data
  BY <1>1, <1>3 DEF Lost
<1>4. Lost(d) /\ d.down.data = c.down.data
  BY <1>2, <1>3
<1> QED
  BY <1>4 DEF Begun, Outbound

LEMMA LostStays ==
  ASSUME NEW script, NEW got, Begun(conn, script, got), Lost(conn), ServerStep
  PROVE  Lost(conn') /\ Begun(conn', script, got)
<1>1. /\ conn.reset = TRUE
      /\ conn = [up |-> conn.up, down |-> conn.down, open |-> conn.open, reset |-> conn.reset]
  BY DEF Lost
<1>2. ASSUME NEW n, NEW c, c = Taken("up", n)
      PROVE  \E x : c = [conn EXCEPT !.up = x]
  <2>1. c = [conn EXCEPT !.up = [conn.up EXCEPT !.data = Rest(n, @)]]
    BY <1>1, <1>2 DEF Taken
  <2> QED
    BY <2>1
<1>3. ASSUME NEW b, NEW c, c = AfterLines(b, "up")
      PROVE  c = conn \/ \E x : c = [conn EXCEPT !.up = x]
  BY <1>2, <1>3 DEF AfterLines
<1>4. \/ conn' = conn
      \/ \E x : conn' = [conn EXCEPT !.up = x]
      \/ conn' = [conn EXCEPT !.down.end = TRUE]
  <2>1. CASE Accept \/ CheckAccess \/ OnActivity \/ NeedLine
    BY <2>1 DEF Accept, CheckAccess, OnActivity, NeedLine, Wait, Destroy
  <2>2. CASE GetRequestLine
    BY <2>2, <1>3 DEF GetRequestLine, Destroy
  <2>3. CASE GetHeaderLine
    BY <2>3, <1>3 DEF GetHeaderLine
  <2>4. CASE EndOfHeaders
    BY <2>4, <1>3 DEF EndOfHeaders
  <2>5. CASE ReceiveBody
    BY <2>5, <1>2 DEF ReceiveBody, Wait, Destroy
  <2>6. CASE BuildResponse
    BY <2>6 DEF BuildResponse
  <2>7. CASE SendHeaders
    BY <2>7, <1>1 DEF SendHeaders, Destroy
  <2>8. CASE SendBody
    BY <2>8, <1>1 DEF SendBody, Destroy
  <2>9. CASE EndOfResponse
    BY <2>9 DEF EndOfResponse, Destroy
  <2>9a. CASE SourceFails
    BY <2>9a DEF SourceFails
  <2>10. CASE MoreArrives
    BY <2>10 DEF MoreArrives
  <2> QED
    BY <2>1, <2>2, <2>3, <2>4, <2>5, <2>6, <2>7, <2>8, <2>9, <2>9a, <2>10 DEF ServerStep
<1> QED
  BY <1>4, SamePlace

LEMMA GoneStays ==
  ASSUME ServerStep, task.at \in {"gone", "failed"}
  PROVE  conn' = conn /\ task' = task
  BY DEF ServerStep, Accept, CheckAccess, OnActivity, NeedLine, GetRequestLine, GetHeaderLine,
         EndOfHeaders, ReceiveBody, BuildResponse, SendHeaders, SendBody, SourceFails,
         EndOfResponse, MoreArrives, Run

LEMMA ServerServes ==
  ASSUME NEW script, IsScript(script), NEW unsent \in Tokens, NEW got \in Tokens,
         arrived \in Int, peer # Denied, ServerStep,
         Serves(task, conn, script, unsent, got)
  PROVE  Serves(task', conn', script, unsent, got)
<1>1. CASE Lost(conn) /\ Begun(conn, script, got)
  BY <1>1, LostStays DEF Serves
<1>2. CASE IsConn(conn) /\ task.at = "gone" /\ Done(conn, script, got)
  BY <1>2, GoneStays DEF Serves, Done
<1>2a. CASE IsConn(conn) /\ Failed(task, conn, script, got)
  BY <1>2a, GoneStays DEF Serves, Failed, Begun, Outbound
<1>3. CASE ServesOn(task, conn, script, unsent, got)
  <2>1. CASE Accept \/ OnActivity \/ NeedLine
    BY <2>1, <1>3, WaitingServes, Lasting
  <2>2. CASE CheckAccess
    BY <2>2, <1>3, CheckAccessServes, Lasting
  <2>3. CASE GetRequestLine
    BY <2>3, <1>3, GetRequestLineServes, Lasting
  <2>4. CASE GetHeaderLine
    BY <2>4, <1>3, GetHeaderLineServes, Lasting
  <2>5. CASE EndOfHeaders
    BY <2>5, <1>3, EndOfHeadersServes, Lasting
  <2>6. CASE ReceiveBody
    BY <2>6, <1>3, ReceiveBodyServes, Lasting
  <2>7. CASE BuildResponse
    BY <2>7, <1>3, BuildResponseServes, Lasting
  <2>8. CASE SendHeaders
    BY <2>8, <1>3, SendHeadersServes, Lasting
  <2>9. CASE SendBody
    BY <2>9, <1>3, SendBodyServes, Lasting
  <2>10. CASE EndOfResponse
    BY <2>10, <1>3, EndOfResponseServes
  <2>10a. CASE SourceFails
    BY <2>10a, <1>3, SourceFailsServes
  <2>11. CASE MoreArrives
    BY <2>11, <1>3, Lasting DEF MoreArrives
  <2> QED
    BY <2>1, <2>2, <2>3, <2>4, <2>5, <2>6, <2>7, <2>8, <2>9, <2>10, <2>10a, <2>11
       DEF ServerStep
<1> QED
  BY <1>1, <1>2, <1>2a, <1>3 DEF Serves, ServesOn
-----------------------------------------------------------------------------
(* The steps of the one at the other end: it sends, it receives, and the   *)
(* connection is lost.                                                     *)
Longer(lines, data, s, first, rest, more) ==
  lines \o ((data \o first) \o (rest \o more)) = lines \o (data \o (s \o more))

LEMMA LongerUp ==
  ASSUME NEW lines \in Tokens, NEW data \in Tokens, NEW s, NEW first, NEW rest,
         Cut(s, first, rest), NEW more \in Tokens
  PROVE  Longer(lines, data, s, first, rest, more)
<1>0. first \in Tokens /\ rest \in Tokens /\ s = first \o rest
  BY DEF Cut
<1>1. rest \o more \in Tokens
  BY <1>0, Cat
<1>2. (data \o first) \o (rest \o more) = data \o (first \o (rest \o more))
  BY <1>0, <1>1, CatThree
<1>3. first \o (rest \o more) = s \o more
  BY <1>0, CatThree
<1> QED
  BY <1>2, <1>3 DEF Longer

LEMMA SendingUpServes ==
  ASSUME NEW script, NEW got, NEW s \in Tokens, NEW more \in Tokens,
         Serves(task, conn, script, s \o more, got), conn.reset = FALSE,
         conn' = Sent("up", s), task' = task
  PROVE  /\ Room("up") \in Nat
         /\ Serves(task', conn', script, Rest(Room("up"), s) \o more, got)
<1>1. IsConn(conn)
  BY DEF Serves, Lost
<1>2. /\ IsConn(conn') /\ Room("up") \in Nat
      /\ conn'.up.data = conn.up.data \o First(Room("up"), s)
      /\ conn'.down = conn.down /\ conn'.reset = conn.reset
  BY <1>1, SentUp
<1>3. CASE task.at = "gone" /\ Done(conn, script, got)
  <2>1. Done(conn', script, got)
    BY <1>2, <1>3 DEF Done, Outbound
  <2> QED
    BY <1>2, <1>3, <2>1 DEF Serves
<1>3a. CASE Failed(task, conn, script, got)
  <2>1. Failed(task', conn', script, got)
    BY <1>2, <1>3a DEF Failed, Begun, Outbound
  <2> QED
    BY <1>2, <2>1 DEF Serves
<1>4. CASE task \in Tasks /\ task.at \notin {"gone", "failed"} /\ Serving(task, conn, script, s \o more, got)
  <2> DEFINE first == First(Room("up"), s)
             rest  == Rest(Room("up"), s)
  <2>1. first \in Tokens /\ rest \in Tokens /\ first \o rest = s
    BY <1>2, TokensOf
  <2>2. conn.up.data \in Tokens /\ task.lines \in Tokens
    BY <1>1, <1>4, ConnIs, TaskIs
  <2> HIDE DEF first, rest
  <2>0. Cut(s, first, rest)
    BY <2>1 DEF Cut
  <2>3. task.lines \o ((conn.up.data \o first) \o (rest \o more))
          = task.lines \o (conn.up.data \o (s \o more))
    <3>1. Longer(task.lines, conn.up.data, s, first, rest, more)
      BY <2>0, <2>2, LongerUp
    <3> QED
      BY <3>1 DEF Longer
  <2>4. Inbound(task', conn', rest \o more) = Inbound(task, conn, s \o more)
    BY <1>2, <2>3 DEF Inbound, first
  <2>5. Serving(task', conn', script, rest \o more, got)
    BY <1>2, <1>4, <2>4 DEF Serving, Outbound
  <2> QED
    BY <1>2, <1>4, <2>5 DEF Serves, rest
<1> QED
  BY <1>1, <1>3, <1>3a, <1>4 DEF Serves, Lost

LEMMA ReceivingServes ==
  ASSUME NEW script, NEW unsent, NEW got \in Tokens, NEW n \in Nat,
         Serves(task, conn, script, unsent, got),
         conn' = Taken("down", n), task' = task
  PROVE  Serves(task', conn', script, unsent, got \o First(n, conn.down.data))
<1>1. CASE Lost(conn) /\ Begun(conn, script, got)
  <2>1. First(n, <<>>) = <<>> /\ Rest(n, <<>>) = <<>> /\ got \o <<>> = got
    <3>1. <<>> \in Seq(Token) /\ Len(<<>>) <= n
      BY EmptySeq
    <3> QED
      BY <3>1, FirstOfAll, CatNothing
  <2>2. conn.down.data = <<>> /\ conn.down = [data |-> conn.down.data, end |-> conn.down.end]
    BY <1>1 DEF Lost
  <2>3. conn' = conn
    <3>1. [conn.down EXCEPT !.data = Rest(n, @)] = conn.down
      BY <2>1, <2>2
    <3>2. conn = [up |-> conn.up, down |-> conn.down, open |-> conn.open, reset |-> conn.reset]
      BY <1>1 DEF Lost
    <3>3. conn' = [conn EXCEPT !.down = [conn.down EXCEPT !.data = Rest(n, @)]]
      BY <3>2 DEF Taken
    <3> QED
      BY <3>1, <3>2, <3>3
  <2> QED
    BY <1>1, <2>1, <2>2, <2>3 DEF Serves
<1>2. CASE IsConn(conn)
  <2>1. /\ IsConn(conn') /\ conn'.down.data = Rest(n, conn.down.data)
        /\ conn'.down.end = conn.down.end /\ conn'.up = conn.up /\ conn'.reset = conn.reset
    BY <1>2, TakenDown
  <2>2. conn.down.data \in Tokens
    BY <1>2, ConnIs
  <2>3. /\ First(n, conn.down.data) \in Tokens /\ Rest(n, conn.down.data) \in Tokens
        /\ First(n, conn.down.data) \o Rest(n, conn.down.data) = conn.down.data
    BY <2>2, TokensOf
  <2>4. Outbound(conn', got \o First(n, conn.down.data)) = Outbound(conn, got)
    <3>1. (got \o First(n, conn.down.data)) \o Rest(n, conn.down.data)
            = got \o (First(n, conn.down.data) \o Rest(n, conn.down.data))
      BY <2>3, CatThree
    <3> QED
      BY <2>1, <2>3, <3>1 DEF Outbound
  <2>5. Inbound(task', conn', unsent) = Inbound(task, conn, unsent)
    BY <2>1 DEF Inbound
  <2>6. CASE task.at = "gone" /\ Done(conn, script, got)
    BY <2>1, <2>4, <2>6 DEF Serves, Done
  <2>6a. CASE Failed(task, conn, script, got)
    BY <2>1, <2>4, <2>6a DEF Serves, Failed, Begun
  <2>7. CASE task \in Tasks /\ task.at \notin {"gone", "failed"} /\ Serving(task, conn, script, unsent, got)
    BY <2>1, <2>4, <2>5, <2>7 DEF Serves, Serving
  <2>8. ~Lost(conn) => \/ task.at = "gone" /\ Done(conn, script, got)
                       \/ Failed(task, conn, script, got)
                       \/ task \in Tasks /\ task.at \notin {"gone", "failed"} /\ Serving(task, conn, script, unsent, got)
    BY DEF Serves
  <2> QED
    BY <1>1, <2>6, <2>6a, <2>7, <2>8 DEF Serves
<1> QED
  BY <1>1, <1>2 DEF Serves

Place(up, down, open, reset) == [up |-> up, down |-> down, open |-> open, reset |-> reset]

LEMMA OpenedIs == Opened = Place(Channel, Channel, TRUE, FALSE)
<1>1. ASSUME NEW x, NEW u, u = [Place(Channel, Channel, FALSE, FALSE) EXCEPT !.open = x]
      PROVE  u = Place(Channel, Channel, x, FALSE)
  BY <1>1, Zenon DEF Place
<1>2. Opened = [Place(Channel, Channel, FALSE, FALSE) EXCEPT !.open = TRUE]
  BY Zenon DEF Opened, Unused, Place
<1> QED
  BY <1>1, <1>2, Zenon

LEMMA BrokenIs == Lost(Broken) /\ Broken.down.data = <<>> /\ Broken.down.end = FALSE
<1>1. ASSUME NEW x, NEW u, u = [Place(Channel, Channel, TRUE, FALSE) EXCEPT !.reset = x]
      PROVE  u = Place(Channel, Channel, TRUE, x)
  BY <1>1, Zenon DEF Place
<1>2. Broken = [Place(Channel, Channel, TRUE, FALSE) EXCEPT !.reset = TRUE]
  BY OpenedIs, Zenon DEF Broken
<1>3. Broken = Place(Channel, Channel, TRUE, TRUE)
  BY <1>1, <1>2, Zenon
<1>4. Channel = [data |-> <<>>, end |-> FALSE]
  BY DEF Channel
<1> QED
  BY <1>3, <1>4 DEF Lost, Place

LEMMA LosingServes ==
  ASSUME NEW t, NEW u, NEW c, NEW script, IsScript(script), NEW unsent, NEW left,
         NEW got \in Tokens, Serves(t, c, script, unsent, got)
  PROVE  Serves(u, Broken, script, left, got)
<1>1. Begun(c, script, got)
  BY ServesBegun
<1>2. c.down.data \in Tokens
  BY EmptySeq DEF Serves, Lost, IsConn, Chan, Tokens
<1>3. PICK z \in Tokens : WithoutTotals(got \o c.down.data) \o z = Answered(script, Len(script))
  BY <1>1 DEF Begun, Outbound
<1> DEFINE a == WithoutTotals(got)
           b == WithoutTotals(c.down.data)
<1>4. a \in Tokens /\ b \in Tokens /\ WithoutTotals(got \o c.down.data) = a \o b
  BY <1>2, WithoutTypes, WithoutBoth
<1>5. got \o <<>> = got
  BY CatNothing
<1> HIDE DEF a, b
<1>6. (a \o b) \o z = a \o (b \o z) /\ b \o z \in Tokens
  BY <1>4, CatThree, Cat
<1>7. a \o (b \o z) = Answered(script, Len(script))
  BY <1>3, <1>4, <1>6
<1>8. Begun(Broken, script, got)
  BY <1>5, <1>6, <1>7, BrokenIs DEF Begun, Outbound, a
<1> QED
  BY <1>8, BrokenIs DEF Serves
-----------------------------------------------------------------------------
(* The session of another program.                                         *)
RawInv ==
  /\ arrived \in Int /\ peer \in {"raw", Denied, "client", "fetcher", "stream"}
  /\ raw = [script |-> raw.script, got |-> raw.got, unsent |-> raw.unsent]
  /\ raw.got \in Tokens /\ raw.unsent \in Tokens /\ IsScript(raw.script)
  /\ peer \in {"raw", Denied} => raw.script \in Scripts
  /\ peer = "raw" => Serves(task, conn, raw.script, raw.unsent, raw.got)
  /\ peer = Denied => /\ IsConn(conn) /\ task \in Tasks
                      /\ task.state = "CHECKING"
                      /\ raw.got = <<>> /\ conn.down.data = <<>>
  /\ peer \notin {"raw", Denied} => raw.script = <<>>

LEMMA PeersAre ==
  /\ Denied # "raw" /\ Denied # "client" /\ Denied # "fetcher" /\ Denied # "stream"
  /\ Live \in DOMAIN Size /\ Size[Live] \in Int
  /\ \A script \in Scripts \cup {<<>>} : IsScript(script)
<1>1. \A script \in Scripts : IsScript(script)
  BY SessionAssumption DEF SessionAssumption, IsScript
<1>2. IsScript(<<>>)
  <2>1. <<>> \in Seq(Request) /\ DOMAIN <<>> = {}
    BY EmptySeq
  <2> QED
    BY <2>1 DEF IsScript
<1> QED
  BY <1>1, <1>2, SessionAssumption, ConnectionAssumption DEF SessionAssumption, ConnectionAssumption

(* A connection that nothing has been sent on.                             *)
Untouched(c) == IsConn(c) /\ c.up.data = <<>> /\ c.down.data = <<>>
            /\ c.reset = FALSE /\ c.down.end = FALSE

LEMMA NewIs ==
  /\ NewTask \in Tasks /\ NewTask.state = "CHECKING" /\ NewTask.at = "none"
  /\ NewTask.lines = <<>> /\ Kept(NewTask) /\ Quiet(NewTask)
  /\ Untouched(Opened) /\ Untouched(Unused)
<1>1. <<>> \in Tokens /\ <<>> \in Seq(Int) /\ <<>> \in Seq(Tokens) /\ Len(<<>>) = 0
  BY EmptySeq, NoInts DEF Tokens
<1>2. NewTask \in Tasks
  <2>1. FALSE \in BOOLEAN /\ 0 \in Int
    OBVIOUS
  <2> QED
    BY <1>1, <2>1, StatesAre, Zenon DEF NewTask, Tasks
<1>3. /\ NewTask.state = "CHECKING" /\ NewTask.at = "none" /\ NewTask.lines = <<>>
      /\ NewTask.source = <<>> /\ NewTask.buffer = <<>> /\ NewTask.sink = FALSE
      /\ NewTask.posted = <<>>
  BY DEF NewTask
<1>4. Channel \in Chan /\ Channel.data = <<>> /\ Channel.end = FALSE
  BY <1>1 DEF Chan, Channel
<1>5. ASSUME NEW open \in BOOLEAN, NEW c, c = Place(Channel, Channel, open, FALSE)
      PROVE  Untouched(c)
  <2>1. Capacity >= 0
    BY ConnectionAssumption DEF ConnectionAssumption
  <2>2. /\ c.up = Channel /\ c.down = Channel /\ c.reset = FALSE
        /\ c \in [up : Chan, down : Chan, open : BOOLEAN, reset : BOOLEAN]
    BY <1>4, <1>5 DEF Place
  <2> QED
    BY <2>1, <2>2, <1>1, <1>4 DEF IsConn, Untouched
<1>6. Untouched(Opened) /\ Untouched(Unused)
  <2>1. Unused = Place(Channel, Channel, FALSE, FALSE)
    BY Zenon DEF Unused, Place
  <2> QED
    BY <1>5, <2>1, OpenedIs
<1> QED
  BY <1>2, <1>3, <1>6 DEF Kept, Quiet

(* A new connection: nothing has been taken in, nothing has been given.    *)
LEMMA NewServes ==
  ASSUME NEW script, IsScript(script), NEW unsent, unsent = AskedFrom(script, 0), NEW c, Untouched(c)
  PROVE  Serves(NewTask, c, script, unsent, <<>>)
<1>1. 0 \in 0..Len(script) /\ <<>> \in Tokens
  BY ScriptIs, EmptySeq DEF Tokens
<1>2. unsent \in Tokens
  BY <1>1, AskedTypes
<1>3. Inbound(NewTask, c, unsent) = AskedFrom(script, 0)
  <2>1. <<>> \o unsent = unsent
    BY <1>2, CatNothing
  <2> QED
    BY <2>1, NewIs DEF Inbound, Untouched
<1>4. WithoutTotals(Outbound(c, <<>>)) = Answered(script, 0)
  <2>1. <<>> \o <<>> = <<>>
    BY <1>1, CatNothing
  <2>2. Len(<<>>) = 0
    BY EmptySeq
  <2>3. WithoutTotals(<<>>) = <<>>
    BY <1>1, <2>2, WithoutNothing
  <2> QED
    BY <2>1, <2>3, NewIs, AnsweredNone DEF Outbound, Untouched
<1>5. Between(NewTask, Inbound(NewTask, c, unsent), WithoutTotals(Outbound(c, <<>>)),
              script, 0)
  BY <1>3, <1>4, NewIs DEF Between
<1>6. Serving(NewTask, c, script, unsent, <<>>)
  BY <1>1, <1>5, NewIs DEF Serving, Phase, Untouched
<1> QED
  BY <1>6, NewIs, StatesAre DEF Serves, Untouched

LEMMA SessionBegins == SessionInit => RawInv
<1> SUFFICES ASSUME SessionInit PROVE RawInv
  OBVIOUS
<1>1. PICK script \in (IF peer \in {"raw", Denied} THEN Scripts ELSE {<<>>}) :
        raw = [script |-> script, got |-> <<>>,
               unsent |-> FlattenSeq([i \in DOMAIN script |-> RequestLines(script[i])])]
  BY DEF SessionInit
<1>2. IsScript(script) /\ <<>> \in Tokens
  BY PeersAre, EmptySeq DEF Tokens
<1>3. /\ raw.script = script /\ raw.got = <<>> /\ raw.unsent = AskedFrom(script, 0)
      /\ raw = [script |-> raw.script, got |-> raw.got, unsent |-> raw.unsent]
  BY <1>1, <1>2, AskedAll
<1>4. raw.unsent \in Tokens
  <2>1. 0 \in 0..Len(script)
    BY <1>2, ScriptIs
  <2> QED
    BY <1>2, <1>3, <2>1, AskedTypes
<1>5. Serves(NewTask, Opened, raw.script, raw.unsent, raw.got)
  BY <1>2, <1>3, NewIs, NewServes
<1>6. /\ peer \in {"raw", Denied, "client", "fetcher", "stream"} /\ arrived = 0 /\ task = NewTask
      /\ peer \in {"raw", Denied} => conn = Opened
  BY DEF SessionInit
<1>7. /\ peer \in {"raw", Denied} => script \in Scripts
      /\ peer \notin {"raw", Denied} => script = <<>>
  OBVIOUS
<1> QED
  BY <1>2, <1>3, <1>4, <1>5, <1>6, <1>7, NewIs DEF RawInv, Untouched

(* Whoever is not let in gets nothing.                                     *)
NothingGiven(t, c) ==
  IsConn(c) /\ t \in Tasks /\ t.state = "CHECKING" /\ c.down.data = <<>>

LEMMA DeniedGetsNothing ==
  ASSUME peer = Denied, NothingGiven(task, conn), ServerStep
  PROVE  NothingGiven(task', conn')
<1>1. /\ IsConn(conn) /\ task \in Tasks /\ task.state = "CHECKING" /\ conn.down.data = <<>>
  BY DEF NothingGiven
<1>2. ASSUME NEW x \in Text, task' = [task EXCEPT !.at = x]
      PROVE  task' \in Tasks /\ task'.state = "CHECKING"
  BY <1>1, <1>2 DEF Tasks
<1>3. CASE Accept \/ OnActivity
  <2>1. task' = [task EXCEPT !.at = "run"] /\ conn' = conn
    BY <1>3 DEF Accept, OnActivity
  <2> QED
    BY <2>1, <1>1, <1>2, StatesAre DEF NothingGiven
<1>4. CASE CheckAccess
  <2>1. Destroy
    BY <1>4 DEF CheckAccess
  <2>2. task' \in Tasks /\ task'.state = "CHECKING"
    BY <2>1, <1>2, StatesAre DEF Destroy
  <2>3. IsConn(conn') /\ conn'.down.data = conn.down.data
    BY <2>1, <1>1, Ending DEF Destroy
  <2> QED
    BY <2>2, <2>3, <1>1 DEF NothingGiven
<1>5. CASE MoreArrives
  BY <1>5, <1>1 DEF MoreArrives, NothingGiven
<1>6. ~(NeedLine \/ GetRequestLine \/ GetHeaderLine \/ EndOfHeaders \/ ReceiveBody
         \/ BuildResponse \/ SendHeaders \/ SendBody \/ SourceFails \/ EndOfResponse)
  BY <1>1 DEF NeedLine, GetRequestLine, GetHeaderLine, EndOfHeaders, ReceiveBody,
              BuildResponse, SendHeaders, SendBody, SourceFails, EndOfResponse, Run
<1> QED
  BY <1>3, <1>4, <1>5, <1>6 DEF ServerStep

LEMMA ArrivedTypes ==
  ASSUME arrived \in Int, ServerStep
  PROVE  arrived' \in Int
  BY DEF ServerStep, MoreArrives

LEMMA ServerKeeps ==
  ASSUME RawInv, Server
  PROVE  RawInv'
<1>1. arrived' \in Int
  BY ArrivedTypes DEF RawInv, Server
<1>2. ASSUME peer = "raw"
      PROVE  Serves(task', conn', raw.script, raw.unsent, raw.got)
  BY <1>2, ServerServes, PeersAre DEF RawInv, Server
<1>3. ASSUME peer = Denied
      PROVE  IsConn(conn') /\ task' \in Tasks /\ task'.state = "CHECKING" /\ conn'.down.data = <<>>
  <2>1. NothingGiven(task, conn)
    BY <1>3 DEF RawInv, NothingGiven
  <2> QED
    BY <2>1, <1>3, DeniedGetsNothing DEF Server, NothingGiven
<1> QED
  BY <1>1, <1>2, <1>3 DEF RawInv, Server

LEMMA OthersKeep ==
  ASSUME RawInv, Client \/ FetcherGivesUp \/ Stream
  PROVE  RawInv'
<1>1. peer \in {"client", "fetcher", "stream"} /\ UNCHANGED <<peer, arrived, raw>>
  BY DEF Client, FetcherGivesUp, Stream
<1> QED
  BY <1>1, PeersAre DEF RawInv

RawWith(script, got, unsent) == [script |-> script, got |-> got, unsent |-> unsent]

LEMMA RawWithIs ==
  ASSUME NEW r, NEW script, NEW got, NEW unsent, r = RawWith(script, got, unsent), NEW x, NEW u
  PROVE  /\ u = [r EXCEPT !.unsent = x] => u = RawWith(script, got, x)
         /\ u = [r EXCEPT !.got = x] => u = RawWith(script, x, unsent)
<1>1. ASSUME u = [r EXCEPT !.unsent = x] PROVE u = RawWith(script, got, x)
  BY <1>1, Zenon DEF RawWith
<1>2. ASSUME u = [r EXCEPT !.got = x] PROVE u = RawWith(script, x, unsent)
  BY <1>2, Zenon DEF RawWith
<1> QED
  BY <1>1, <1>2

LEMMA RawSendsKeeps ==
  ASSUME RawInv, RawSends
  PROVE  RawInv'
<1>1. PICK n \in 1..Least(Room("up"), Len(raw.unsent)) :
        /\ ~conn.reset
        /\ conn' = Sent("up", First(n, raw.unsent))
        /\ raw' = [raw EXCEPT !.unsent = Rest(n, @)]
  BY DEF RawSends
<1>2. UNCHANGED <<peer, task, arrived>>
  BY DEF RawSends
<1>3. n \in Nat
  OBVIOUS
<1> DEFINE s    == First(n, raw.unsent)
           more == Rest(n, raw.unsent)
<1>4. /\ s \in Tokens /\ more \in Tokens /\ s \o more = raw.unsent
      /\ Len(s) = Least(n, Len(raw.unsent)) /\ Len(raw.unsent) \in Nat
  BY <1>3, TokensOf DEF RawInv
<1>5. raw = RawWith(raw.script, raw.got, raw.unsent)
  BY DEF RawInv, RawWith
<1>6. raw' = [raw EXCEPT !.unsent = more]
  BY <1>1, <1>5 DEF RawWith
<1>7. conn' = Sent("up", s)
  BY <1>1
<1> HIDE DEF s, more
<1>8. raw' = RawWith(raw.script, raw.got, more)
  BY <1>5, <1>6, RawWithIs
<1>9. /\ raw'.script = raw.script /\ raw'.got = raw.got /\ raw'.unsent = more
      /\ raw' = [script |-> raw'.script, got |-> raw'.got, unsent |-> raw'.unsent]
  BY <1>8 DEF RawWith
<1>10. ASSUME peer = "raw"
       PROVE  Serves(task', conn', raw'.script, raw'.unsent, raw'.got)
  <2>1. Serves(task, conn, raw.script, s \o more, raw.got)
    BY <1>4, <1>10 DEF RawInv
  <2>2. conn.reset = FALSE
    BY <1>1, <2>1 DEF Serves, Lost, IsConn
  <2>3. /\ Room("up") \in Nat
        /\ Serves(task', conn', raw.script, Rest(Room("up"), s) \o more, raw.got)
    BY <1>2, <1>4, <1>7, <2>1, <2>2, SendingUpServes
  <2>4. Rest(Room("up"), s) = <<>>
    <3>1. Len(s) <= Room("up")
      BY <1>3, <1>4, <2>3 DEF Least
    <3> QED
      BY <1>4, <2>3, <3>1, FirstOfAll DEF Tokens
  <2>5. <<>> \o more = more
    BY <1>4, CatNothing
  <2> QED
    BY <1>9, <2>3, <2>4, <2>5
<1>11. ASSUME peer = Denied
       PROVE  IsConn(conn') /\ conn'.down.data = <<>>
  BY <1>4, <1>7, <1>11, SentUp DEF RawInv
<1> QED
  BY <1>2, <1>4, <1>9, <1>10, <1>11 DEF RawInv

LEMMA RawReceivesKeeps ==
  ASSUME RawInv, RawReceives
  PROVE  RawInv'
<1>1. /\ raw.script # <<>> /\ conn.down.data # <<>>
      /\ conn' = Taken("down", Capacity)
      /\ raw' = [raw EXCEPT !.got = @ \o conn.down.data]
      /\ UNCHANGED <<peer, task, arrived>>
  BY DEF RawReceives
<1>2. peer = "raw"
  BY <1>1 DEF RawInv
<1>3. Serves(task, conn, raw.script, raw.unsent, raw.got)
  BY <1>2 DEF RawInv
<1>4. /\ conn.down.data \in Tokens /\ Len(conn.down.data) <= Capacity
  BY <1>1, <1>3, ConnIs DEF Serves, Lost
<1>5. Capacity \in Nat
  BY ConnectionAssumption DEF ConnectionAssumption
<1>6. First(Capacity, conn.down.data) = conn.down.data
  BY <1>4, <1>5, FirstOfAll DEF Tokens
<1> DEFINE got == raw.got \o conn.down.data
<1>7. got \in Tokens
  BY <1>4, Cat DEF RawInv
<1>8. Serves(task', conn', raw.script, raw.unsent, got)
  BY <1>1, <1>3, <1>5, <1>6, ReceivingServes DEF RawInv
<1>9. raw = RawWith(raw.script, raw.got, raw.unsent)
  BY DEF RawInv, RawWith
<1>10. raw' = [raw EXCEPT !.got = got]
  BY <1>1, <1>9 DEF RawWith
<1> HIDE DEF got
<1>11. raw' = RawWith(raw.script, got, raw.unsent)
  BY <1>9, <1>10, RawWithIs
<1>12. /\ raw'.script = raw.script /\ raw'.got = got /\ raw'.unsent = raw.unsent
       /\ raw' = [script |-> raw'.script, got |-> raw'.got, unsent |-> raw'.unsent]
  BY <1>11 DEF RawWith
<1> QED
  BY <1>1, <1>2, <1>7, <1>8, <1>12, PeersAre DEF RawInv

LEMMA ResetKeeps ==
  ASSUME RawInv, Reset
  PROVE  RawInv'
<1>1. /\ peer \in {"raw", "client", "fetcher"} /\ conn' = Broken
      /\ UNCHANGED <<peer, task, arrived, raw>>
  BY DEF Reset
<1>2. ASSUME peer = "raw"
      PROVE  Serves(task', conn', raw.script, raw.unsent, raw.got)
  BY <1>1, <1>2, LosingServes DEF RawInv
<1> QED
  BY <1>1, <1>2, PeersAre DEF RawInv

LEMMA SessionKeeps == RawInv /\ [SessionNext]_sessionVars => RawInv'
<1> SUFFICES ASSUME RawInv, [SessionNext]_sessionVars PROVE RawInv'
  OBVIOUS
<1>1. CASE Server
  BY <1>1, ServerKeeps
<1>2. CASE Client \/ FetcherGivesUp \/ Stream
  BY <1>2, OthersKeep
<1>3. CASE RawSends
  BY <1>3, RawSendsKeeps
<1>4. CASE RawReceives
  BY <1>4, RawReceivesKeeps
<1>5. CASE Reset
  BY <1>5, ResetKeeps
<1>6. CASE UNCHANGED sessionVars
  BY <1>6 DEF sessionVars, RawInv
<1> QED
  BY <1>1, <1>2, <1>3, <1>4, <1>5, <1>6 DEF SessionNext
-----------------------------------------------------------------------------
(* A sequence is the beginning of what it is continued to.                 *)
LEMMA BeginsIt ==
  ASSUME NEW s \in Tokens, NEW z \in Tokens, NEW t, t = s \o z
  PROVE  IsPrefix(s, t)
<1>1. Len(s) \in Nat /\ Len(z) \in Nat /\ Len(t) = Len(s) + Len(z)
  BY Cat DEF Tokens
<1>2. SubSeq(s, 1, Len(s)) = s
  BY SubSeqFull DEF Tokens
<1>3. First(Len(s), t) = s
  <2>1. Cut(t, s, z)
    BY DEF Cut
  <2> QED
    BY <2>1, CutAt
<1>4. Least(Len(s), Len(t)) = Len(s)
  BY <1>1 DEF Least
<1> QED
  BY <1>1, <1>2, <1>3, <1>4 DEF IsPrefix, First

(* What the other program gets is what the server gives to its requests,   *)
(* in their order.                                                         *)
GivenInOrder ==
  raw.script # <<>> =>
    IsPrefix(WithoutTotals(raw.got \o conn.down.data),
             IF peer = Denied THEN <<>>
             ELSE Answered(raw.script, Len(raw.script)))

LEMMA InvGivesInOrder ==
  ASSUME RawInv
  PROVE  GivenInOrder
<1>1. SUFFICES ASSUME raw.script # <<>> PROVE GivenInOrder
  BY DEF GivenInOrder
<1>2. CASE peer = Denied
  <2>1. <<>> \in Tokens /\ Len(<<>>) = 0
    BY EmptySeq DEF Tokens
  <2>2. <<>> \o <<>> = <<>> /\ WithoutTotals(<<>>) = <<>>
    BY <2>1, CatNothing, WithoutNothing
  <2>3. IsPrefix(<<>>, <<>>)
    BY <2>1, <2>2, BeginsIt
  <2>4. raw.got = <<>> /\ conn.down.data = <<>>
    BY <1>2 DEF RawInv
  <2> QED
    BY <1>2, <2>2, <2>3, <2>4 DEF GivenInOrder
<1>3. CASE peer = "raw"
  <2> DEFINE out == WithoutTotals(raw.got \o conn.down.data)
             all == Answered(raw.script, Len(raw.script))
  <2>1. Serves(task, conn, raw.script, raw.unsent, raw.got) /\ IsScript(raw.script)
        /\ raw.got \in Tokens
    BY <1>3 DEF RawInv
  <2>2. PICK z \in Tokens : out \o z = all
    <3>1. Begun(conn, raw.script, raw.got)
      BY <2>1, ServesBegun
    <3> QED
      BY <3>1 DEF Begun, Outbound
  <2>3. conn.down.data \in Tokens
    BY <2>1, EmptySeq DEF Serves, Lost, IsConn, Chan, Tokens
  <2>4. out \in Tokens
    BY <2>1, <2>3, Cat, WithoutTypes
  <2> HIDE DEF out, all
  <2>6. IsPrefix(out, all)
    BY <2>2, <2>4, BeginsIt
  <2> QED
    BY <1>3, <2>6, PeersAre DEF GivenInOrder, out, all
<1> QED
  BY <1>1, <1>2, <1>3 DEF RawInv

LEMMA GivesTheAnswers ==
  ASSUME RawInv, GivenInOrder
  PROVE  AnswersInOrder
<1>1. SUFFICES ASSUME raw.script # <<>>, NoBeginnings PROVE AnswersInOrder
  BY DEF AnswersInOrder
<1>2. IsScript(raw.script) /\ raw.script \in Scripts
  BY <1>1 DEF RawInv
<1>3. FlattenSeq([i \in DOMAIN raw.script |-> Answer(raw.script[i])])
        = Answered(raw.script, Len(raw.script))
  BY <1>1, <1>2, AnsweredAll DEF NoBeginnings
<1> QED
  BY <1>1, <1>3 DEF GivenInOrder, AnswersInOrder, AnswersTo

LEMMA RawInvHolds == SessionSpec => []RawInv
<1>1. SessionInit => RawInv
  BY SessionBegins
<1>2. RawInv /\ [SessionNext]_sessionVars => RawInv'
  BY SessionKeeps
<1> QED
  BY <1>1, <1>2, PTL DEF SessionSpec

(* Whatever requests another program puts on a connection, however they    *)
(* are cut up on the way, and wherever the connection is lost, it gets     *)
(* what the server gives to each, in the order of the requests, and of a   *)
(* request's body nothing is taken for a request.                          *)
THEOREM RequestsAreServedInOrder == SessionSpec => []GivenInOrder
<1>1. RawInv => GivenInOrder
  BY InvGivesInOrder
<1> QED
  BY <1>1, RawInvHolds, PTL

(* And that is the answer that HTTP asks for, with the bytes and the       *)
(* length that belong to the request, unless just the beginning of         *)
(* something was asked for (DataTask::Run, http_server.cpp:556).           *)
THEOREM EachRequestHasItsAnswer == SessionSpec => []AnswersInOrder
<1>1. RawInv => AnswersInOrder
  BY InvGivesInOrder, GivesTheAnswers
<1> QED
  BY <1>1, RawInvHolds, PTL
-----------------------------------------------------------------------------
(* The client, and what its caller is told.                                *)
ClientStates == {"UNINITIALISED", "CONNECTING", "SEND_HEADERS", "SEND_BODY",
                 "WAITING", "RECV_HEADERS", "RECV_BODY", "IDLE"}

Clients ==
  [request : Request, state : ClientStates, init : BOOLEAN, run : BOOLEAN,
   wait : {"none", "readable", "writable"}, headers : Tokens, body : Tokens, lines : Tokens,
   left : Int, length : BOOLEAN, data : Tokens, callback : BOOLEAN]
Told == [rc : {"none", "ok", "error"}, done : {<<>>, <<"ok">>, <<"error">>},
         fetched : {"none", "ok", "error", "timeout"}]

(* While the task is to run, or will be, or will call back, nothing has    *)
(* been told; and success is told only of an answer that is complete.      *)
Telling(p, c, t) ==
  /\ c.run => c.wait = "none" /\ ~c.callback /\ t.done = <<>>
  /\ c.wait # "none" => ~c.callback /\ t.done = <<>>
  /\ c.callback => t.done = <<>>
  /\ t.fetched # "none" => ~c.run /\ c.wait = "none" /\ ~c.callback
  /\ t.fetched = "timeout" => t.done = <<>>
  /\ t.rc = "none" /\ c.state = "UNINITIALISED" => t.fetched = "none"
  /\ c.init => t.rc = "none" /\ t.fetched = "none"
  /\ c.state = "UNINITIALISED" =>
       /\ ~c.run /\ c.wait = "none" /\ ~c.callback /\ ~c.init
       /\ t.done = <<>> /\ t.rc # "ok"
  /\ c.callback \/ t.done = <<"ok">> => c.state = "IDLE"
  /\ t.done = <<"error">> => c.state \notin {"RECV_BODY", "IDLE"}
  /\ c.state = "IDLE" => c.left = 0
  /\ p = "fetcher" /\ c.init => t.done = <<>> /\ ~c.run /\ ~c.callback
  /\ p = "fetcher" /\ t.rc = "error" =>
       t.done = <<>> /\ ~c.run /\ ~c.callback /\ c.wait = "none" /\ ~c.init

(* The answer as far as it has been taken in: eaten, of which data is what *)
(* the caller was given.                                                   *)
Early == {"UNINITIALISED", "CONNECTING", "SEND_HEADERS", "SEND_BODY", "WAITING"}

Eating(at, state, data, left, length, r, eaten) ==
  \/ state \in Early /\ eaten = <<>> /\ data = <<>>
  \/ /\ state = "RECV_HEADERS" /\ data = <<>>
     /\ \/ eaten = <<StatusLine(r)>>
        \/ eaten = <<StatusLine(r)>> \o CRangeLines(r)
        \/ /\ eaten = (<<StatusLine(r)>> \o CRangeLines(r)) \o <<LengthLine(r)>>
           /\ length = TRUE /\ left = Len(Wanted(r))
  \/ /\ state \in {"RECV_BODY", "IDLE"}
     /\ eaten = AnswerHeaders(r) \o data
     /\ left \in Nat
     /\ left > 0 => left = Len(Wanted(r)) - Len(data)
     /\ left = 0 => \/ data = AnswerBody(r)
                    \/ at = "failed" /\ Len(data) <= Len(Wanted(r))

Unsent(c) == IF c.state \in {"UNINITIALISED", "CONNECTING"} THEN RequestLines(c.request)
             ELSE c.headers \o c.body

Asking(c, t, k) ==
  \E eaten \in Tokens :
    /\ Eating(t.at, c.state, c.data, c.left, c.length, c.request, eaten)
    /\ Serves(t, k, <<c.request>>, Unsent(c), eaten \o c.lines)

LEMMA OneRequest ==
  ASSUME NEW r, IsRequest(r)
  PROVE  /\ IsScript(<<r>>) /\ Len(<<r>>) = 1 /\ <<r>>[1] = r
         /\ AskedFrom(<<r>>, 0) = RequestLines(r)
         /\ Answered(<<r>>, 1) = Given(r)
<1>1. <<r>> \in Seq(Request) /\ Len(<<r>>) = 1 /\ <<r>>[1] = r /\ DOMAIN <<r>> = {1}
  BY DEF IsRequest
<1>2. IsScript(<<r>>)
  BY <1>1 DEF IsScript
<1> DEFINE script == <<r>>
<1>3. Len(script) = 1 /\ script[1] = r /\ IsScript(script)
  BY <1>1, <1>2
<1> HIDE DEF script
<1>4. AskedFrom(script, 0) = RequestLines(r)
  <2>1. 0 \in 0..Len(script) /\ 0 # Len(script) /\ 0 + 1 = 1
    BY <1>3
  <2>2. AskedFrom(script, 0) = RequestLines(script[0 + 1]) \o AskedFrom(script, 0 + 1)
    BY <1>3, <2>1, AskedNext
  <2>3. AskedFrom(script, 1) = <<>>
    BY <1>3, AskedNone
  <2>4. RequestLines(r) \in Tokens
    BY RequestLinesAre, EmptySeq DEF Tokens
  <2>5. RequestLines(r) \o <<>> = RequestLines(r)
    BY <2>4, CatNothing
  <2> QED
    BY <1>3, <2>1, <2>2, <2>3, <2>5
<1>5. Answered(script, 1) = Given(r)
  <2>1. 1 \in 1..Len(script) /\ 1 - 1 = 0
    BY <1>3
  <2>2. Answered(script, 1) = Answered(script, 1 - 1) \o Given(script[1])
    BY <1>3, <2>1, AnsweredNext
  <2>3. Answered(script, 0) = <<>>
    BY <1>3, AnsweredNone
  <2>4. <<>> \o Given(r) = Given(r)
    BY GivenIs, CatNothing
  <2> QED
    BY <1>3, <2>1, <2>2, <2>3, <2>4
<1> QED
  BY <1>1, <1>2, <1>4, <1>5 DEF script

(* Only what is compared of what has been received matters.                *)
LEMMA SameGiven ==
  ASSUME NEW t, NEW c, NEW script, NEW unsent, NEW got \in Tokens, NEW gut \in Tokens,
         WithoutTotals(got) = WithoutTotals(gut), Serves(t, c, script, unsent, got)
  PROVE  Serves(t, c, script, unsent, gut)
<1>1. c.down.data \in Tokens
  BY EmptySeq DEF Serves, Lost, IsConn, Chan, Tokens
<1>2. WithoutTotals(got \o c.down.data) = WithoutTotals(gut \o c.down.data)
  <2>1. WithoutTotals(got \o c.down.data) = WithoutTotals(got) \o WithoutTotals(c.down.data)
    BY <1>1, WithoutBoth
  <2>2. WithoutTotals(gut \o c.down.data) = WithoutTotals(gut) \o WithoutTotals(c.down.data)
    BY <1>1, WithoutBoth
  <2> QED
    BY <2>1, <2>2
<1>3. WithoutTotals(Outbound(c, got)) = WithoutTotals(Outbound(c, gut))
  BY <1>2 DEF Outbound
<1>4. Begun(c, script, got) => Begun(c, script, gut)
  BY <1>3 DEF Begun
<1>5. Done(c, script, got) => Done(c, script, gut)
  BY <1>3 DEF Done
<1>6. Serving(t, c, script, unsent, got) => Serving(t, c, script, unsent, gut)
  BY <1>3 DEF Serving
<1> QED
  BY <1>4, <1>5, <1>6 DEF Serves, Failed

(* What the steps of the client tell.                                      *)
TellsOn ==
  /\ client \in Clients /\ told \in Told /\ Telling(peer, client, told)

LEMMA ToldMore ==
  ASSUME told \in Told, told.done = <<>>, NEW rc \in {"ok", "error"}, OnDone(rc)
  PROVE  told' \in Told /\ told'.done = <<rc>> /\ told'.rc = told.rc /\ told'.fetched = told.fetched
<1>1. Append(<<>>, rc) = <<rc>>
  OBVIOUS
<1>2. told' = [told EXCEPT !.done = <<rc>>]
  BY <1>1 DEF OnDone, Told
<1> QED
  BY <1>2 DEF Told

LEMMA ForgottenTells ==
  ASSUME TellsOn, client.run, Forgotten,
         \/ OnDone("error") /\ client.state \notin {"RECV_BODY", "IDLE"}
         \/ UNCHANGED told
  PROVE  client' \in Clients /\ told' \in Told /\ Telling(peer, client', told')
<1>1. /\ client' \in Clients /\ client'.run = FALSE /\ client'.wait = "none"
      /\ client'.state = client.state /\ client'.init = client.init
      /\ client'.callback = client.callback /\ client'.left = client.left
  BY DEF TellsOn, Forgotten, Waits, Clients
<1>2. CASE OnDone("error") /\ client.state \notin {"RECV_BODY", "IDLE"}
  <2>1. told.done = <<>> /\ told \in Told
    BY DEF TellsOn, Telling
  <2>2. /\ told' \in Told /\ told'.done = <<"error">> /\ told'.rc = told.rc
        /\ told'.fetched = told.fetched
    BY <1>2, <2>1, ToldMore
  <2>3. <<"error">> # <<"ok">>
    OBVIOUS
  <2> QED
    BY <1>1, <2>2, <2>3 DEF TellsOn, Telling
<1>3. CASE UNCHANGED told
  BY <1>1, <1>3 DEF TellsOn, Telling
<1> QED
  BY <1>2, <1>3

LEMMA WaitingTells ==
  ASSUME TellsOn, client.run, NEW for \in {"readable", "writable"},
         client' = Waits(client, for), UNCHANGED told
  PROVE  client' \in Clients /\ told' \in Told /\ Telling(peer, client', told')
<1>1. /\ client' \in Clients /\ client'.run = FALSE /\ client'.wait = for
      /\ client'.state = client.state /\ client'.init = client.init
      /\ client'.callback = client.callback /\ client'.left = client.left
  BY DEF TellsOn, Waits, Clients
<1> QED
  BY <1>1 DEF TellsOn, Telling

LEMMA ConnectingTells ==
  ASSUME TellsOn, peer \in {"client", "fetcher"},
         BeginConnect \/ NoAddress \/ InitConnects \/ Establish \/ Refuse \/ PollerRuns(peer)
  PROVE  client' \in Clients /\ told' \in Told /\ Telling(peer, client', told')
<1>1. CASE BeginConnect
  <2>1. /\ client' \in Clients /\ client'.run = client.run /\ client'.wait = "writable"
        /\ client'.state = "CONNECTING" /\ client'.init = TRUE
        /\ client'.callback = client.callback /\ client'.left = client.left
    BY <1>1 DEF TellsOn, BeginConnect, Clients, ClientStates
  <2> QED
    BY <1>1, <2>1 DEF TellsOn, Telling, BeginConnect
<1>2. CASE NoAddress
  <2>1. told' \in Told /\ told'.rc = "error" /\ told'.done = told.done /\ told'.fetched = told.fetched
    BY <1>2 DEF TellsOn, NoAddress, Told
  <2> QED
    BY <1>2, <2>1 DEF TellsOn, Telling, NoAddress
<1>3. CASE InitConnects
  <2>1. PICK rc \in ConnectOutcomes :
          LET ok == rc \in {"EINPROGRESS", "EISCONN"} IN
          /\ client.init
          /\ client' = [client EXCEPT !.init = FALSE, !.wait = IF ok THEN @ ELSE "none"]
          /\ told'   = [told EXCEPT !.rc = IF ok THEN "ok" ELSE "error"]
    BY <1>3 DEF InitConnects
  <2> DEFINE ok == rc \in {"EINPROGRESS", "EISCONN"}
  <2>2. /\ client' \in Clients /\ client'.run = client.run
        /\ client'.wait = IF ok THEN client.wait ELSE "none"
        /\ client'.state = client.state /\ client'.init = FALSE
        /\ client'.callback = client.callback /\ client'.left = client.left
    BY <2>1 DEF TellsOn, Clients
  <2>3. /\ told' \in Told /\ told'.rc = (IF ok THEN "ok" ELSE "error")
        /\ told'.done = told.done /\ told'.fetched = told.fetched
    BY <2>1 DEF TellsOn, Told
  <2> QED
    BY <2>1, <2>2, <2>3 DEF TellsOn, Telling
<1>4. CASE Establish \/ Refuse
  BY <1>4 DEF TellsOn, Establish, Refuse
<1>5. CASE PollerRuns(peer)
  <2>1. /\ client' \in Clients /\ client'.run = TRUE /\ client'.wait = "none"
        /\ client'.state = client.state /\ client'.init = client.init
        /\ client'.callback = client.callback /\ client'.left = client.left
    BY <1>5 DEF TellsOn, PollerRuns, Clients
  <2> QED
    BY <1>5, <2>1 DEF TellsOn, Telling, PollerRuns
<1> QED
  BY <1>1, <1>2, <1>3, <1>4, <1>5

(* What is told does not change while the task runs.                       *)
LEMMA RunningTells ==
  ASSUME TellsOn, client.run, client' \in Clients, UNCHANGED told,
         client'.state \notin {"UNINITIALISED", "IDLE"},
         client'.init = client.init, client'.callback = client.callback,
         \/ client'.run = client.run /\ client'.wait = client.wait
         \/ client'.run = FALSE /\ client'.wait \in {"readable", "writable"}
  PROVE  Telling(peer, client', told')
<1>1. /\ client.wait = "none" /\ client.callback = FALSE
      /\ told.done = <<>> /\ told.fetched = "none"
      /\ ~(peer = "fetcher" /\ client.init) /\ ~(peer = "fetcher" /\ told.rc = "error")
      /\ client.init => told.rc = "none"
  BY DEF TellsOn, Telling, Clients
<1>2. told' = told /\ <<>> # <<"ok">> /\ <<>> # <<"error">> /\ client'.callback = FALSE
  BY <1>1
<1>3. client'.run => client'.wait = "none"
  BY <1>1
<1>4. client'.state # "UNINITIALISED" /\ client'.state # "IDLE"
  OBVIOUS
<1> QED
  BY <1>1, <1>2, <1>3, <1>4 DEF Telling

LEMMA FinishTells ==
  ASSUME TellsOn, Finish
  PROVE  client' \in Clients /\ told' \in Told /\ Telling(peer, client', told')
<1>1. /\ client' \in Clients /\ client'.run = FALSE /\ client'.wait = "none"
      /\ client'.state = "IDLE" /\ client'.init = client.init
      /\ client'.callback = TRUE /\ client'.left = client.left
  BY DEF TellsOn, Finish, Waits, Clients, ClientStates
<1> QED
  BY <1>1 DEF TellsOn, Telling, Finish, In

LEMMA CallbackTells ==
  ASSUME TellsOn, CallbackRuns
  PROVE  client' \in Clients /\ told' \in Told /\ Telling(peer, client', told')
<1>1. /\ client' \in Clients /\ client'.run = client.run /\ client'.wait = client.wait
      /\ client'.state = client.state /\ client'.init = client.init
      /\ client'.callback = FALSE /\ client'.left = client.left
  BY DEF TellsOn, CallbackRuns, Clients
<1>2. told.done = <<>> /\ told \in Told /\ client.callback
  BY DEF TellsOn, Telling, CallbackRuns
<1>3. /\ told' \in Told /\ told'.done = <<"ok">> /\ told'.rc = told.rc
      /\ told'.fetched = told.fetched
  BY <1>2, ToldMore DEF CallbackRuns
<1> QED
  BY <1>1, <1>2, <1>3 DEF TellsOn, Telling

LEMMA GiveUpTells ==
  ASSUME TellsOn, GiveUp
  PROVE  client' \in Clients /\ told' \in Told /\ Telling(peer, client', told')
<1>1. /\ client' \in Clients /\ client'.run = client.run /\ client'.wait = "none"
      /\ client'.state = client.state /\ client'.init = client.init
      /\ client'.callback = FALSE /\ client'.left = client.left
  BY DEF TellsOn, GiveUp, Clients
<1>2. told' \in Told /\ told'.rc = told.rc /\ told'.done = told.done /\ told'.fetched = "timeout"
  BY DEF TellsOn, GiveUp, Told
<1> QED
  BY <1>1, <1>2 DEF TellsOn, Telling, GiveUp

LEMMA FetchReturnsTells ==
  ASSUME TellsOn, peer = "fetcher", FetchReturns
  PROVE  /\ client' = client /\ conn' = conn
         /\ client' \in Clients /\ told' \in Told /\ Telling(peer, client', told')
<1>1. client' = client /\ conn' = conn /\ (told.rc = "error" \/ told.done # <<>>)
  BY DEF FetchReturns
<1>2. /\ told' \in Told /\ told'.rc = told.rc /\ told'.done = told.done
      /\ told'.fetched \in {"ok", "error"}
  BY DEF TellsOn, FetchReturns, Told
<1>3. /\ ~client.run /\ client.wait = "none" /\ ~client.callback /\ ~client.init
      /\ client.state = "UNINITIALISED" => told.rc # "none"
  <2>1. CASE told.rc = "error"
    BY <2>1 DEF TellsOn, Telling
  <2>2. CASE told.done # <<>>
    BY <2>2 DEF TellsOn, Telling, Clients
  <2> QED
    BY <1>1, <2>1, <2>2
<1> QED
  BY <1>1, <1>2, <1>3 DEF TellsOn, Telling

(* What is asked for does not change.                                      *)
SameAnswer(c, d) ==
  /\ d.request = c.request /\ d.lines = c.lines
  /\ d.data = c.data /\ d.left = c.left /\ d.length = c.length

LEMMA EatingStays ==
  ASSUME NEW at, NEW et, at = "failed" => et = "failed", NEW state, NEW data, NEW left, NEW length,
         NEW r, NEW eaten, Eating(at, state, data, left, length, r, eaten)
  PROVE  Eating(et, state, data, left, length, r, eaten)
  BY DEF Eating

LEMMA AskingAlike ==
  ASSUME NEW c, NEW d, NEW t, NEW k, NEW u, NEW l, Asking(c, t, k), SameAnswer(c, d),
         \/ d.state = c.state
         \/ c.state \in Early /\ d.state \in Early
         \/ c.state = "RECV_BODY" /\ d.state = "IDLE",
         t.at = "failed" => u.at = "failed",
         \A eaten \in Tokens :
           Serves(t, k, <<c.request>>, Unsent(c), eaten \o c.lines)
             => Serves(u, l, <<c.request>>, Unsent(d), eaten \o c.lines)
  PROVE  Asking(d, u, l)
<1>1. PICK eaten \in Tokens :
        /\ Eating(t.at, c.state, c.data, c.left, c.length, c.request, eaten)
        /\ Serves(t, k, <<c.request>>, Unsent(c), eaten \o c.lines)
  BY DEF Asking
<1>2. Eating(u.at, d.state, d.data, d.left, d.length, d.request, eaten)
  <2>1. Eating(u.at, c.state, d.data, d.left, d.length, d.request, eaten)
    BY <1>1, EatingStays DEF SameAnswer
  <2>2. CASE d.state = c.state
    BY <2>1, <2>2
  <2>3. CASE c.state \in Early /\ d.state \in Early
    BY <2>1, <2>3 DEF Eating, Early
  <2>4. CASE c.state = "RECV_BODY" /\ d.state = "IDLE"
    BY <2>1, <2>4 DEF Eating, Early
  <2> QED
    BY <2>2, <2>3, <2>4
<1>3. Serves(u, l, <<d.request>>, Unsent(d), eaten \o d.lines)
  BY <1>1 DEF SameAnswer
<1> QED
  BY <1>2, <1>3 DEF Asking

LEMMA AskingStays ==
  ASSUME NEW c, NEW d, NEW t, NEW k, Asking(c, t, k), SameAnswer(c, d),
         d.headers = c.headers, d.body = c.body,
         \/ d.state = c.state
         \/ c.state = "UNINITIALISED" /\ d.state = "CONNECTING"
         \/ c.state = "SEND_BODY" /\ d.state = "WAITING"
  PROVE  Asking(d, t, k)
<1>1. Unsent(d) = Unsent(c)
  BY DEF Unsent, SameAnswer
<1>2. \/ d.state = c.state
      \/ c.state \in Early /\ d.state \in Early
  BY DEF Early
<1> QED
  BY <1>1, <1>2, AskingAlike

LEMMA AskingBreaks ==
  ASSUME NEW c, IsRequest(c.request), c.lines \in Tokens, NEW d, NEW t, NEW k, NEW u, Asking(c, t, k),
         t.at = "failed" => u.at = "failed",
         SameAnswer(c, d), d.state = c.state \/ (c.state = "RECV_BODY" /\ d.state = "IDLE")
  PROVE  Asking(d, u, Broken)
<1>1. IsScript(<<c.request>>)
  BY OneRequest
<1>2. ASSUME NEW eaten \in Tokens, Serves(t, k, <<c.request>>, Unsent(c), eaten \o c.lines)
      PROVE  Serves(u, Broken, <<c.request>>, Unsent(d), eaten \o c.lines)
  <2>1. eaten \o c.lines \in Tokens
    BY Cat
  <2> QED
    BY <1>1, <1>2, <2>1, LosingServes
<1> QED
  BY <1>2, AskingAlike

LEMMA OpeningServes ==
  ASSUME NEW t, NEW c, NEW d, d = [c EXCEPT !.open = TRUE], NEW script, NEW unsent, NEW got,
         Serves(t, c, script, unsent, got)
  PROVE  Serves(t, d, script, unsent, got)
<1>1. CASE Lost(c) /\ Begun(c, script, got)
  <2>1. /\ d.up = c.up /\ d.down = c.down /\ d.reset = c.reset
        /\ d = [up |-> d.up, down |-> d.down, open |-> d.open, reset |-> d.reset]
    BY <1>1 DEF Lost
  <2> QED
    BY <1>1, <2>1 DEF Serves, Lost, Begun, Outbound
<1>2. CASE IsConn(c)
  <2>1. /\ d.up = c.up /\ d.down = c.down /\ d.reset = c.reset /\ IsConn(d)
    BY <1>2 DEF IsConn
  <2>2. /\ Done(c, script, got) => Done(d, script, got)
        /\ Failed(t, c, script, got) => Failed(t, d, script, got)
        /\ Serving(t, c, script, unsent, got) => Serving(t, d, script, unsent, got)
    BY <2>1 DEF Done, Failed, Begun, Serving, Outbound, Inbound
  <2> QED
    BY <1>1, <2>1, <2>2 DEF Serves
<1> QED
  BY <1>1, <1>2 DEF Serves

LEMMA AskingOpens ==
  ASSUME NEW c, NEW t, Asking(c, t, conn), NEW d, d = [conn EXCEPT !.open = TRUE]
  PROVE  Asking(c, t, d)
<1>1. \A eaten \in Tokens :
        Serves(t, conn, <<c.request>>, Unsent(c), eaten \o c.lines)
          => Serves(t, d, <<c.request>>, Unsent(c), eaten \o c.lines)
  BY OpeningServes
<1> QED
  BY <1>1 DEF Asking

LEMMA AskingServed ==
  ASSUME NEW c, IsRequest(c.request), c.lines \in Tokens, c.headers \in Tokens, c.body \in Tokens,
         arrived \in Int, peer # Denied, ServerStep, Asking(c, task, conn)
  PROVE  Asking(c, task', conn')
<1>1. IsScript(<<c.request>>)
  BY OneRequest
<1>2. Unsent(c) \in Tokens
  <2>1. RequestLines(c.request) \in Tokens
    BY RequestLinesAre, EmptySeq DEF Tokens
  <2>2. c.headers \o c.body \in Tokens
    BY Cat
  <2> QED
    BY <2>1, <2>2 DEF Unsent
<1>3. ASSUME NEW eaten \in Tokens, Serves(task, conn, <<c.request>>, Unsent(c), eaten \o c.lines)
      PROVE  Serves(task', conn', <<c.request>>, Unsent(c), eaten \o c.lines)
  <2>1. eaten \o c.lines \in Tokens
    BY Cat
  <2> QED
    BY <1>1, <1>2, <1>3, <2>1, ServerServes
<1>4. task.at = "failed" => task'.at = "failed"
  BY GoneStays
<1> QED
  BY <1>3, <1>4, EatingStays DEF Asking

(* The request is sent.                                                    *)
LEMMA SplitIs ==
  ASSUME NEW r, IsRequest(r), NEW split, split = Len(RequestLines(r)) - r.body
  PROVE  split \in Nat /\ RequestLines(r) \in Tokens
<1>1. /\ RequestLine(r) \in Token /\ End \in Tokens /\ <<>> \in Tokens
      /\ r.range \in Tokens /\ CloseLines(r) \in Tokens /\ LengthLines(r) \in Tokens
      /\ Bytes(0, r.body) \in Tokens
  BY PartsTypes
<1>2. r.body \in Nat /\ Len(Bytes(0, r.body)) = r.body
  <2>1. r.body \in Nat
    BY RequestIs
  <2>2. 0 \in Nat /\ 0 <= r.body /\ r.body - 0 = r.body
    BY <2>1
  <2>3. Len(Bytes(0, r.body)) = r.body - 0
    BY <2>1, <2>2, BytesTypes
  <2> QED
    BY <2>1, <2>2, <2>3
<1>3. /\ RequestLines(r) \in Tokens
      /\ RequestLines(r) \o <<>>
           = <<RequestLine(r)>> \o HeadersAnd(r.range, CloseLines(r), LengthLines(r),
                                              Bytes(0, r.body) \o <<>>)
  BY <1>1, RequestLinesAre
<1>4. /\ RequestLines(r) \o <<>> = RequestLines(r)
      /\ Bytes(0, r.body) \o <<>> = Bytes(0, r.body)
  BY <1>1, <1>3, CatNothing
<1>5. ASSUME NEW a \in Tokens, NEW b \in Tokens
      PROVE  a \o b \in Tokens /\ Len(b) \in Nat /\ Len(b) <= Len(a \o b)
  BY <1>5, Cat DEF Tokens
<1> DEFINE s == Bytes(0, r.body)
           e == End \o s
           l == LengthLines(r) \o e
           c == CloseLines(r) \o l
           h == r.range \o c
<1>6. e \in Tokens /\ Len(s) <= Len(e) /\ Len(s) \in Nat /\ Len(e) \in Nat
  BY <1>1, <1>5
<1>7. l \in Tokens /\ Len(e) <= Len(l) /\ Len(l) \in Nat
  <2> HIDE DEF e
  <2>1. LengthLines(r) \o e \in Tokens /\ Len(e) <= Len(LengthLines(r) \o e)
    BY <1>1, <1>5, <1>6
  <2> QED
    BY <2>1 DEF Tokens
<1>8. c \in Tokens /\ Len(l) <= Len(c) /\ Len(c) \in Nat
  <2> HIDE DEF l
  <2>1. CloseLines(r) \o l \in Tokens /\ Len(l) <= Len(CloseLines(r) \o l)
    BY <1>1, <1>5, <1>7
  <2> QED
    BY <2>1 DEF Tokens
<1>9. h \in Tokens /\ Len(c) <= Len(h) /\ Len(h) \in Nat
  <2> HIDE DEF c
  <2>1. r.range \o c \in Tokens /\ Len(c) <= Len(r.range \o c)
    BY <1>1, <1>5, <1>8
  <2> QED
    BY <2>1 DEF Tokens
<1>10. h = HeadersAnd(r.range, CloseLines(r), LengthLines(r), s)
  BY DEF HeadersAnd
<1> HIDE DEF h, c, l, e, s
<1>11. Len(h) <= Len(<<RequestLine(r)>> \o h) /\ Len(<<RequestLine(r)>> \o h) \in Nat
  <2>1. <<RequestLine(r)>> \in Tokens
    BY <1>1, CatOne
  <2>2. <<RequestLine(r)>> \o h \in Tokens /\ Len(h) <= Len(<<RequestLine(r)>> \o h)
    BY <1>5, <1>9, <2>1
  <2> QED
    BY <2>2 DEF Tokens
<1>12. RequestLines(r) = <<RequestLine(r)>> \o h
  BY <1>3, <1>4, <1>10 DEF s
<1>13. Len(s) = r.body
  BY <1>2 DEF s
<1> QED
  BY <1>2, <1>3, <1>6, <1>7, <1>8, <1>9, <1>11, <1>12, <1>13
-----------------------------------------------------------------------------
(* The steps of the client.                                                *)
AskingNow == /\ TellsOn /\ IsRequest(client.request) /\ Asking(client, task, conn)

LEMMA ClientIs ==
  ASSUME NEW c \in Clients
  PROVE  /\ c.state \in ClientStates /\ c.init \in BOOLEAN /\ c.run \in BOOLEAN
         /\ c.wait \in {"none", "readable", "writable"}
         /\ c.headers \in Tokens /\ c.body \in Tokens /\ c.lines \in Tokens /\ c.data \in Tokens
         /\ c.left \in Int /\ c.length \in BOOLEAN /\ c.callback \in BOOLEAN
         /\ c.request \in Request
  BY DEF Clients

LEMMA ForgottenKeeps ==
  ASSUME AskingNow, client.run, UNCHANGED <<task, peer>>, Forgotten,
         \/ OnDone("error") /\ client.state \notin {"RECV_BODY", "IDLE"}
         \/ UNCHANGED told
  PROVE  AskingNow'
<1>1. client' \in Clients /\ told' \in Told /\ Telling(peer, client', told')
  BY ForgottenTells DEF AskingNow
<1>2. SameAnswer(client, client') /\ client'.state = client.state /\ conn' = Broken
  BY DEF AskingNow, TellsOn, Forgotten, Waits, Clients, SameAnswer
<1>3. client.lines \in Tokens
  BY ClientIs DEF AskingNow, TellsOn
<1>4. Asking(client', task', Broken)
  BY <1>2, <1>3, AskingBreaks DEF AskingNow
<1> QED
  BY <1>1, <1>2, <1>4 DEF AskingNow, TellsOn, SameAnswer

LEMMA WaitsKeeps ==
  ASSUME AskingNow, client.run, NEW for \in {"readable", "writable"},
         client' = Waits(client, for), UNCHANGED <<told, conn, task, peer>>
  PROVE  AskingNow'
<1>1. client' \in Clients /\ told' \in Told /\ Telling(peer, client', told')
  BY WaitingTells DEF AskingNow
<1>2. /\ SameAnswer(client, client') /\ client'.state = client.state
      /\ client'.headers = client.headers /\ client'.body = client.body
  BY DEF AskingNow, TellsOn, Waits, Clients, SameAnswer
<1>3. Asking(client', task, conn)
  BY <1>2, AskingStays DEF AskingNow
<1> QED
  BY <1>1, <1>2, <1>3 DEF AskingNow, TellsOn, SameAnswer

LEMMA ConnectingKeeps ==
  ASSUME AskingNow, peer \in {"client", "fetcher"}, UNCHANGED <<task, peer>>,
         BeginConnect \/ NoAddress \/ InitConnects \/ Establish \/ Refuse \/ PollerRuns(peer)
           \/ CallbackRuns
  PROVE  AskingNow'
<1>1. client' \in Clients /\ told' \in Told /\ Telling(peer, client', told')
  BY ConnectingTells, CallbackTells DEF AskingNow
<1>2. CASE Establish
  <2>1. client' = client /\ conn' = [conn EXCEPT !.open = TRUE]
    BY <1>2 DEF Establish
  <2>2. Asking(client, task, conn')
    BY <2>1, AskingOpens DEF AskingNow
  <2> QED
    BY <1>1, <2>1, <2>2 DEF AskingNow, TellsOn
<1>3. CASE BeginConnect \/ NoAddress \/ InitConnects \/ Refuse \/ PollerRuns(peer) \/ CallbackRuns
  <2>1. /\ SameAnswer(client, client') /\ conn' = conn
        /\ client'.headers = client.headers /\ client'.body = client.body
        /\ \/ client'.state = client.state
           \/ client.state = "UNINITIALISED" /\ client'.state = "CONNECTING"
    <3>1. CASE BeginConnect
      BY <3>1 DEF AskingNow, TellsOn, Clients, BeginConnect, SameAnswer
    <3>2. CASE NoAddress \/ Refuse
      BY <3>2 DEF NoAddress, Refuse, SameAnswer
    <3>3. CASE InitConnects
      <4>1. /\ conn' = conn
            /\ \E i, w : client' = [client EXCEPT !.init = i, !.wait = w]
        BY <3>3 DEF InitConnects
      <4> QED
        BY <4>1 DEF AskingNow, TellsOn, Clients, SameAnswer
    <3>4. CASE PollerRuns(peer)
      BY <3>4 DEF AskingNow, TellsOn, Clients, PollerRuns, SameAnswer
    <3>5. CASE CallbackRuns
      BY <3>5 DEF AskingNow, TellsOn, Clients, CallbackRuns, SameAnswer
    <3> QED
      BY <1>3, <3>1, <3>2, <3>3, <3>4, <3>5
  <2>2. Asking(client', task, conn)
    BY <2>1, AskingStays DEF AskingNow
  <2> QED
    BY <1>1, <2>1, <2>2 DEF AskingNow, TellsOn, SameAnswer
<1> QED
  BY <1>2, <1>3

LEMMA RunConnectsKeeps ==
  ASSUME AskingNow, UNCHANGED <<task, peer>>, RunConnects
  PROVE  AskingNow'
<1>1. client.run /\ client.state = "CONNECTING" /\ client \in Clients
  BY DEF RunConnects, In, AskingNow, TellsOn
<1>2. CASE Forgotten /\ OnDone("error")
  BY <1>1, <1>2, ForgottenKeeps
<1>3. CASE client' = Waits(client, "writable") /\ UNCHANGED <<conn, told>>
  BY <1>1, <1>3, WaitsKeeps
<1> DEFINE lines == RequestLines(client.request)
           split == Len(lines) - client.request.body
<1>4. CASE /\ client' = [client EXCEPT !.state = "SEND_HEADERS",
                           !.headers = First(split, lines), !.body = Rest(split, lines)]
           /\ UNCHANGED <<conn, told>>
  <2>1. split \in Nat /\ lines \in Tokens
    BY SplitIs DEF AskingNow
  <2>2. /\ First(split, lines) \in Tokens /\ Rest(split, lines) \in Tokens
        /\ First(split, lines) \o Rest(split, lines) = lines
    <3> HIDE DEF split, lines
    <3> QED
      BY <2>1, TokensOf
  <2> DEFINE heads == First(split, lines)
             body  == Rest(split, lines)
  <2>3. client' = [client EXCEPT !.state = "SEND_HEADERS", !.headers = heads, !.body = body]
    BY <1>4
  <2>4. heads \in Tokens /\ body \in Tokens /\ heads \o body = RequestLines(client.request)
    BY <2>2
  <2> HIDE DEF heads, body, split, lines
  <2>5. /\ SameAnswer(client, client') /\ client' \in Clients
        /\ client'.state = "SEND_HEADERS" /\ client'.headers = heads /\ client'.body = body
        /\ client'.init = client.init /\ client'.callback = client.callback
        /\ client'.run = client.run /\ client'.wait = client.wait
    BY <1>1, <2>3, <2>4 DEF Clients, SameAnswer, ClientStates
  <2>6. Telling(peer, client', told')
    BY <1>1, <1>4, <2>5, RunningTells DEF AskingNow
  <2>7. Unsent(client') = Unsent(client)
    BY <1>1, <2>4, <2>5 DEF Unsent
  <2>8. client.state \in Early /\ client'.state \in Early
    BY <1>1, <2>5 DEF Early
  <2>9. Asking(client', task, conn)
    BY <2>5, <2>7, <2>8, AskingAlike DEF AskingNow
  <2> QED
    BY <1>4, <2>5, <2>6, <2>9 DEF AskingNow, TellsOn, SameAnswer
<1> QED
  BY <1>2, <1>3, <1>4 DEF RunConnects

LEMMA RequestSentKeeps ==
  ASSUME AskingNow, UNCHANGED <<task, peer>>, RequestSent
  PROVE  AskingNow'
<1>1. /\ client.run /\ client.state = "SEND_BODY" /\ client \in Clients
      /\ client' = [client EXCEPT !.state = "WAITING"] /\ UNCHANGED <<conn, told>>
  BY DEF RequestSent, In, AskingNow, TellsOn
<1>2. /\ SameAnswer(client, client') /\ client' \in Clients /\ client'.state = "WAITING"
      /\ client'.headers = client.headers /\ client'.body = client.body
      /\ client'.init = client.init /\ client'.callback = client.callback
      /\ client'.run = client.run /\ client'.wait = client.wait
  BY <1>1 DEF Clients, SameAnswer, ClientStates
<1>3. Telling(peer, client', told')
  BY <1>1, <1>2, RunningTells DEF AskingNow
<1>4. Asking(client', task, conn)
  BY <1>1, <1>2, AskingStays DEF AskingNow
<1> QED
  BY <1>1, <1>2, <1>3, <1>4 DEF AskingNow, TellsOn, SameAnswer

LEMMA SendRequestKeeps ==
  ASSUME AskingNow, UNCHANGED <<task, peer>>, SendRequest
  PROVE  AskingNow'
<1>1. /\ client.run /\ client.state \in {"SEND_HEADERS", "SEND_BODY"} /\ client \in Clients
      /\ client.headers \in Tokens /\ client.body \in Tokens /\ client.lines \in Tokens
  BY ClientIs DEF SendRequest, In, AskingNow, TellsOn
<1>2. CASE Forgotten /\ OnDone("error")
  BY <1>1, <1>2, ForgottenKeeps
<1>3. CASE ~conn.reset
  <2> DEFINE n     == Room("up")
             s     == client.headers \o client.body
             heads == Rest(n, client.headers)
             body  == Rest(n - Least(n, Len(client.headers)), client.body)
  <2>1. /\ conn' = Sent("up", s) /\ UNCHANGED told
        /\ LET c == [client EXCEPT !.headers = heads, !.body = body,
                          !.state = IF heads = <<>> THEN "SEND_BODY" ELSE @]
           IN  client' = c \/ client' = Waits(c, "writable")
    BY <1>3 DEF SendRequest
  <2>2. s \in Tokens /\ <<>> \in Tokens /\ s \o <<>> = s
    <3>1. s \in Tokens /\ <<>> \in Tokens
      BY <1>1, Cat, EmptySeq DEF Tokens
    <3> QED
      BY <3>1, CatNothing
  <2>3. PICK eaten \in Tokens :
          Serves(task, conn, <<client.request>>, Unsent(client), eaten \o client.lines)
    BY DEF AskingNow, Asking
  <2>4. IsConn(conn) /\ conn.reset = FALSE
    BY <1>3, <2>3 DEF Serves, Lost, IsConn
  <2>5. n \in Nat
    BY <2>2, <2>4, SentUp
  <2>6. heads \in Tokens /\ body \in Tokens /\ heads \o body = Rest(n, s)
    <3> HIDE DEF n
    <3>1. n - Least(n, Len(client.headers)) \in Nat
      <4>1. Len(client.headers) \in Nat
        BY <1>1 DEF Tokens
      <4> QED
        BY <2>5, <4>1 DEF Least
    <3>2. heads \in Tokens /\ body \in Tokens
      BY <1>1, <2>5, <3>1, TokensOf
    <3> QED
      BY <1>1, <2>5, <3>2, RestOfBoth
  <2>7. Unsent(client) = s
    BY <1>1 DEF Unsent
  <2> HIDE DEF n, s, heads, body
  <2>8. /\ SameAnswer(client, client') /\ client' \in Clients
        /\ client'.state \in {"SEND_HEADERS", "SEND_BODY"}
        /\ client'.headers = heads /\ client'.body = body
        /\ client'.init = client.init /\ client'.callback = client.callback
        /\ \/ client'.run = client.run /\ client'.wait = client.wait
           \/ client'.run = FALSE /\ client'.wait \in {"readable", "writable"}
    <3> DEFINE state == IF heads = <<>> THEN "SEND_BODY" ELSE client.state
               c == [client EXCEPT !.headers = heads, !.body = body, !.state = state]
    <3>1. state \in {"SEND_HEADERS", "SEND_BODY"}
      BY <1>1
    <3>2. client' = c \/ client' = Waits(c, "writable")
      BY <1>1, <2>1 DEF Clients
    <3> HIDE DEF state
    <3>3. /\ SameAnswer(client, c) /\ c \in Clients /\ c.state = state
          /\ c.headers = heads /\ c.body = body
          /\ c.init = client.init /\ c.callback = client.callback
          /\ c.run = client.run /\ c.wait = client.wait
      BY <1>1, <2>6, <3>1 DEF Clients, SameAnswer, ClientStates
    <3> HIDE DEF c
    <3>4. CASE client' = c
      BY <3>1, <3>3, <3>4
    <3>5. CASE client' = Waits(c, "writable")
      <4>1. /\ SameAnswer(c, client') /\ client' \in Clients /\ client'.state = c.state
            /\ client'.headers = c.headers /\ client'.body = c.body
            /\ client'.init = c.init /\ client'.callback = c.callback
            /\ client'.run = FALSE /\ client'.wait = "writable"
        BY <3>3, <3>5 DEF Waits, Clients, SameAnswer
      <4> QED
        BY <3>1, <3>3, <4>1 DEF SameAnswer
    <3> QED
      BY <3>2, <3>4, <3>5
  <2>9. Telling(peer, client', told')
    BY <1>1, <2>1, <2>8, RunningTells DEF AskingNow
  <2>10. Unsent(client') = Rest(n, s)
    BY <2>6, <2>8 DEF Unsent
  <2>11. Rest(n, s) \o <<>> = Rest(n, s)
    <3>1. Rest(n, s) \in Tokens
      BY <2>2, <2>5, TokensOf
    <3> QED
      BY <3>1, CatNothing
  <2>12. \A script, got :
           Serves(task, conn, script, s, got) => Serves(task', conn', script, Rest(n, s), got)
    <3>1. ASSUME NEW script, NEW got, Serves(task, conn, script, s \o <<>>, got)
          PROVE  Serves(task', conn', script, Rest(Room("up"), s) \o <<>>, got)
      BY <2>1, <2>2, <2>4, <3>1, SendingUpServes
    <3> QED
      BY <2>2, <2>11, <3>1 DEF n
  <2>13. client.state \in Early /\ client'.state \in Early
    BY <1>1, <2>8 DEF Early
  <2>14. Asking(client', task', conn')
    BY <2>7, <2>8, <2>10, <2>12, <2>13, AskingAlike DEF AskingNow
  <2> QED
    BY <2>1, <2>8, <2>9, <2>14 DEF AskingNow, TellsOn, SameAnswer
<1> QED
  BY <1>2, <1>3 DEF SendRequest, Fail
-----------------------------------------------------------------------------
(* What comes next in an answer.                                           *)
HeadTwo(r)   == <<StatusLine(r)>> \o CRangeLines(r)
HeadThree(r) == (<<StatusLine(r)>> \o CRangeLines(r)) \o <<LengthLine(r)>>

LEMMA GivenFrom ==
  ASSUME NEW r, IsRequest(r), NEW e, e = End \o GivenBody(r), NEW l, l = <<LengthLine(r)>> \o e,
         NEW c, c = CRangeLines(r) \o l
  PROVE  /\ Cut(Given(r), <<>>, <<StatusLine(r)>> \o c)
         /\ Cut(Given(r), <<StatusLine(r)>>, c)
         /\ Cut(Given(r), HeadTwo(r), l)
         /\ Cut(Given(r), HeadThree(r), e)
         /\ Cut(AnswerHeaders(r), HeadThree(r), End)
         /\ e \in Tokens /\ l \in Tokens /\ c \in Tokens
<1>1. /\ <<StatusLine(r)>> \in Tokens /\ CRangeLines(r) \in Tokens /\ LengthLine(r) \in Token
      /\ LengthAndEnd(r) = <<LengthLine(r)>> \o End
  BY LinesTypes
<1>2. GivenBody(r) \in Tokens /\ End \in Tokens /\ <<>> \in Tokens
  BY GivenIs, PartsTypes
<1>3. <<LengthLine(r)>> \in Tokens
  BY <1>1, CatOne
<1>4. AnswerHeaders(r) = HeadTwo(r) \o (<<LengthLine(r)>> \o End)
  BY <1>1, AnswerIs DEF HeadTwo
<1>5. HeadTwo(r) \in Tokens
  BY <1>1, Cat DEF HeadTwo
<1>6. HeadThree(r) = HeadTwo(r) \o <<LengthLine(r)>> /\ HeadThree(r) \in Tokens
  BY <1>3, <1>5, Cat DEF HeadTwo, HeadThree
<1>7. HeadTwo(r) \o (<<LengthLine(r)>> \o End) = HeadThree(r) \o End
  <2>1. (HeadTwo(r) \o <<LengthLine(r)>>) \o End = HeadTwo(r) \o (<<LengthLine(r)>> \o End)
    BY <1>2, <1>3, <1>5, CatThree
  <2> QED
    BY <1>6, <2>1
<1>8. e \in Tokens /\ Given(r) = HeadThree(r) \o e
  <2>1. e \in Tokens
    BY <1>2, Cat
  <2>2. (HeadThree(r) \o End) \o GivenBody(r) = HeadThree(r) \o (End \o GivenBody(r))
    BY <1>2, <1>6, CatThree
  <2> QED
    BY <1>4, <1>7, <2>1, <2>2 DEF Given
<1>9. l \in Tokens /\ Given(r) = HeadTwo(r) \o l
  <2>1. l \in Tokens
    BY <1>3, <1>8, Cat
  <2>2. (HeadTwo(r) \o <<LengthLine(r)>>) \o e = HeadTwo(r) \o (<<LengthLine(r)>> \o e)
    BY <1>3, <1>5, <1>8, CatThree
  <2> QED
    BY <1>6, <1>8, <2>1, <2>2
<1>10. c \in Tokens /\ Given(r) = <<StatusLine(r)>> \o c
  <2>1. c \in Tokens
    BY <1>1, <1>9, Cat
  <2>2. (<<StatusLine(r)>> \o CRangeLines(r)) \o l = <<StatusLine(r)>> \o (CRangeLines(r) \o l)
    BY <1>1, <1>9, CatThree
  <2> QED
    BY <1>9, <2>1, <2>2 DEF HeadTwo
<1>11. <<StatusLine(r)>> \o c \in Tokens /\ <<>> \o (<<StatusLine(r)>> \o c) = <<StatusLine(r)>> \o c
  <2>1. <<StatusLine(r)>> \o c \in Tokens
    BY <1>1, <1>10, Cat
  <2> QED
    BY <2>1, CatNothing
<1> QED
  BY <1>1, <1>2, <1>4, <1>5, <1>6, <1>7, <1>8, <1>9, <1>10, <1>11 DEF Cut

LEMMA WithoutOne ==
  ASSUME NEW x \in Token
  PROVE  <<x>> \in Tokens /\ WithoutTotals(<<x>>) = <<WithoutTotal(x)>>
<1>1. <<x>> \in Tokens
  BY EmptySeq, CatOne DEF Tokens
<1> QED
  BY <1>1 DEF WithoutTotals

LEMMA LinesWithout ==
  ASSUME NEW r, IsRequest(r)
  PROVE  /\ WithoutTotals(<<>>) = <<>>
         /\ WithoutTotals(<<StatusLine(r)>>) = <<StatusLine(r)>>
         /\ WithoutTotals(HeadTwo(r)) = HeadTwo(r)
         /\ WithoutTotals(HeadThree(r)) = HeadThree(r)
         /\ WithoutTotals(AnswerHeaders(r)) = AnswerHeaders(r)
<1>1. /\ StatusLine(r) \in Token /\ CRangeLines(r) \in Tokens /\ LengthLine(r) \in Token
      /\ (Partial(r) => CRangeLine(r) \in Token) /\ End \in Tokens /\ <<"end">> \in Token
      /\ <<StatusLine(r)>> \in Tokens
  BY LinesTypes, PartsTypes
<1>2. <<>> \in Tokens /\ WithoutTotals(<<>>) = <<>>
  <2>1. <<>> \in Tokens /\ Len(<<>>) = 0
    BY EmptySeq DEF Tokens
  <2> QED
    BY <2>1, WithoutNothing
<1>3. WithoutTotals(<<StatusLine(r)>>) = <<StatusLine(r)>>
  <2>1. WithoutTotal(StatusLine(r)) = StatusLine(r)
    BY DEF WithoutTotal, StatusLine
  <2> QED
    BY <1>1, <2>1, WithoutOne
<1>4. WithoutTotals(<<LengthLine(r)>>) = <<LengthLine(r)>> /\ <<LengthLine(r)>> \in Tokens
  <2>1. WithoutTotal(LengthLine(r)) = LengthLine(r)
    BY DEF WithoutTotal, LengthLine
  <2> QED
    BY <1>1, <2>1, WithoutOne
<1>5. WithoutTotals(End) = End
  <2>1. WithoutTotal(<<"end">>) = <<"end">>
    BY DEF WithoutTotal
  <2> QED
    BY <1>1, <2>1, WithoutOne DEF End
<1>6. WithoutTotals(CRangeLines(r)) = CRangeLines(r)
  <2>1. CASE ~Partial(r)
    BY <1>2, <2>1 DEF CRangeLines
  <2>2. CASE Partial(r)
    <3>1. WithoutTotal(CRangeLine(r)) = CRangeLine(r)
      BY DEF WithoutTotal, CRangeLine
    <3>2. CRangeLine(r) \in Token
      BY <1>1, <2>2
    <3>3. WithoutTotals(<<CRangeLine(r)>>) = <<CRangeLine(r)>>
      BY <3>1, <3>2, WithoutOne
    <3> QED
      BY <2>2, <3>3 DEF CRangeLines
  <2> QED
    BY <2>1, <2>2
<1>7. WithoutTotals(HeadTwo(r)) = HeadTwo(r) /\ HeadTwo(r) \in Tokens
  BY <1>1, <1>3, <1>6, WithoutBoth, Cat DEF HeadTwo
<1>8. WithoutTotals(HeadThree(r)) = HeadThree(r) /\ HeadThree(r) \in Tokens
  <2>1. HeadThree(r) = HeadTwo(r) \o <<LengthLine(r)>>
    BY DEF HeadTwo, HeadThree
  <2> QED
    BY <1>4, <1>7, <2>1, WithoutBoth, Cat
<1>9. WithoutTotals(AnswerHeaders(r)) = AnswerHeaders(r)
  <2>1. AnswerHeaders(r) = HeadThree(r) \o End
    BY GivenFrom DEF Cut
  <2> QED
    BY <1>1, <1>5, <1>8, <2>1, WithoutBoth
<1> QED
  BY <1>2, <1>3, <1>7, <1>8, <1>9

(* What follows the same beginning is the same.                            *)
LEMMA CutFirst ==
  ASSUME NEW s, NEW a, NEW x, NEW y, Cut(s, a, x), Cut(s, a, y)
  PROVE  x = y
<1>1. Rest(Len(a), s) = x /\ Rest(Len(a), s) = y
  BY CutAt
<1> QED
  BY <1>1

NextToken(s, a, x, w) == x \in Token /\ w \in Tokens /\ Cut(s, a, <<x>> \o w)

LEMMA NextIs ==
  ASSUME NEW s, NEW a, NEW x, NEW w, NextToken(s, a, x, w), NEW y, NEW v, NextToken(s, a, y, v)
  PROVE  x = y
<1> DEFINE p == <<x>> \o w
           q == <<y>> \o v
<1>1. p = q
  <2>1. Cut(s, a, p) /\ Cut(s, a, q)
    BY DEF NextToken
  <2> HIDE DEF p, q
  <2> QED
    BY <2>1, CutFirst
<1>2. Starts(p, x, w) /\ Starts(q, y, v)
  BY DEF Starts, NextToken
<1> HIDE DEF p, q
<1> QED
  BY <1>1, <1>2, CatSame

LEMMA RangesAre ==
  ASSUME NEW x \in Token, x[1] = "crange"
  PROVE  x[2] \in Int /\ x[3] \in Int /\ x[3] - x[2] + 1 \in Int
<1>1. x[2] \in Int /\ x[3] \in Int
  BY DEF Token
<1> QED
  BY <1>1

(* The next line of the answer, and what the client makes of it.           *)
Eats(at, state, data, left, length, r, eaten, line, more) ==
  /\ more \in Tokens /\ WithoutTotals(more) = WithoutTotals(eaten) \o <<WithoutTotal(line)>>
  /\ \/ line[1] = "status" /\ Eating(at, "RECV_HEADERS", data, left, length, r, more)
     \/ /\ line[1] = "length" /\ line[2] \in Int /\ state = "RECV_HEADERS"
        /\ Eating(at, "RECV_HEADERS", data, line[2], TRUE, r, more)
     \/ /\ line[1] = "crange" /\ line[3] - line[2] + 1 \in Int /\ state = "RECV_HEADERS"
        /\ Eating(at, "RECV_HEADERS", data, line[3] - line[2] + 1, TRUE, r, more)
     \/ /\ line[1] \notin {"status", "length", "crange"} /\ length = TRUE
        /\ Eating(at, "RECV_BODY", data, left, length, r, more)

LEMMA NextEaten ==
  ASSUME NEW at, NEW r, IsRequest(r), NEW state \in {"WAITING", "RECV_HEADERS"}, NEW data, NEW left,
         NEW length, NEW eaten \in Tokens, Eating(at, state, data, left, length, r, eaten),
         NEW line \in Token, NEW w \in Tokens,
         Given(r) = WithoutTotals(eaten) \o (<<WithoutTotal(line)>> \o w)
  PROVE  \E more : Eats(at, state, data, left, length, r, eaten, line, more)
<1> DEFINE e == End \o GivenBody(r)
           l == <<LengthLine(r)>> \o e
           c == CRangeLines(r) \o l
<1>1. /\ Cut(Given(r), <<>>, <<StatusLine(r)>> \o c)
      /\ Cut(Given(r), <<StatusLine(r)>>, c)
      /\ Cut(Given(r), HeadTwo(r), l)
      /\ Cut(Given(r), HeadThree(r), e)
      /\ Cut(AnswerHeaders(r), HeadThree(r), End)
      /\ e \in Tokens /\ l \in Tokens /\ c \in Tokens
  BY GivenFrom
<1>2. /\ StatusLine(r) \in Token /\ LengthLine(r) \in Token /\ <<"end">> \in Token
      /\ (Partial(r) => CRangeLine(r) \in Token)
      /\ GivenBody(r) \in Tokens /\ <<>> \in Tokens
  BY LinesTypes, GivenIs, EmptySeq DEF Tokens
<1>3. /\ WithoutTotal(line) \in Token /\ WithoutTotal(line)[1] = line[1]
      /\ (line[1] # "crange" => WithoutTotal(line) = line)
  BY TotalsAre
<1> DEFINE x == WithoutTotal(line)
           a == WithoutTotals(eaten)
<1>4. NextToken(Given(r), a, x, w)
  <2>1. a \in Tokens
    BY WithoutTypes
  <2>2. <<x>> \o w \in Tokens
    BY <1>3, CatOne
  <2> QED
    BY <1>3, <2>1, <2>2 DEF Cut, NextToken
<1>5. e = <<<<"end">>>> \o GivenBody(r) /\ l = <<LengthLine(r)>> \o e
  BY DEF End
<1> HIDE DEF e, l, c
<1>6. CASE eaten = <<>> /\ state = "WAITING" /\ data = <<>>
  <2>1. a = <<>>
    BY <1>6, LinesWithout
  <2>2. x = StatusLine(r)
    <3>1. NextToken(Given(r), a, StatusLine(r), c)
      BY <1>1, <1>2, <2>1 DEF NextToken
    <3> HIDE DEF x, a
    <3> QED
      BY <1>4, <3>1, NextIs
  <2>3. line[1] = "status"
    BY <1>3, <2>2 DEF StatusLine
  <2>4. WithoutTotals(<<StatusLine(r)>>) = a \o <<x>> /\ <<StatusLine(r)>> \in Tokens
    <3>1. <<StatusLine(r)>> \in Tokens
      BY <1>2, CatOne
    <3>2. <<>> \o <<StatusLine(r)>> = <<StatusLine(r)>>
      BY <3>1, CatNothing
    <3> QED
      BY <2>1, <2>2, <3>1, <3>2, LinesWithout
  <2>5. Eating(at, "RECV_HEADERS", data, left, length, r, <<StatusLine(r)>>)
    BY <1>6 DEF Eating
  <2> QED
    BY <2>3, <2>4, <2>5 DEF Eats
<1>7. CASE eaten = <<StatusLine(r)>> /\ Partial(r) /\ data = <<>> /\ state = "RECV_HEADERS"
  <2>1. a = <<StatusLine(r)>>
    BY <1>7, LinesWithout
  <2>2. CRangeLines(r) = <<CRangeLine(r)>>
    BY <1>7 DEF CRangeLines
  <2>3. Cut(Given(r), <<StatusLine(r)>>, <<CRangeLine(r)>> \o l)
    BY <1>1, <2>2 DEF c
  <2>4. x = CRangeLine(r)
    <3>1. NextToken(Given(r), a, CRangeLine(r), l)
      BY <1>1, <1>2, <1>7, <2>1, <2>3 DEF NextToken
    <3> HIDE DEF x, a
    <3> QED
      BY <1>4, <3>1, NextIs
  <2>5. line[1] = "crange"
    BY <1>3, <2>4 DEF CRangeLine
  <2>6. line[3] - line[2] + 1 \in Int
    BY <2>5, RangesAre
  <2>7. WithoutTotals(HeadTwo(r)) = a \o <<x>> /\ HeadTwo(r) \in Tokens
    <3>1. HeadTwo(r) = <<StatusLine(r)>> \o <<CRangeLine(r)>>
      BY <2>2 DEF HeadTwo
    <3> QED
      BY <1>1, <2>1, <2>4, <3>1, LinesWithout DEF Cut
  <2>8. Eating(at, "RECV_HEADERS", data, line[3] - line[2] + 1, TRUE, r, HeadTwo(r))
    BY <1>7 DEF Eating, HeadTwo
  <2> QED
    BY <1>7, <2>5, <2>6, <2>7, <2>8 DEF Eats
<1>8. CASE eaten = HeadTwo(r) /\ data = <<>> /\ state = "RECV_HEADERS"
  <2>1. a = HeadTwo(r)
    BY <1>8, LinesWithout
  <2>2. Cut(Given(r), HeadTwo(r), <<LengthLine(r)>> \o e)
    BY <1>1, <1>5
  <2>3. x = LengthLine(r)
    <3>1. NextToken(Given(r), a, LengthLine(r), e)
      BY <1>1, <1>2, <2>1, <2>2 DEF NextToken
    <3> HIDE DEF x, a
    <3> QED
      BY <1>4, <3>1, NextIs
  <2>4. line[1] = "length"
    BY <1>3, <2>3 DEF LengthLine
  <2>5. line = LengthLine(r)
    BY <1>3, <2>3, <2>4
  <2>6. line[2] = Len(Wanted(r)) /\ line[2] \in Int
    <3>1. Len(Wanted(r)) \in Nat
      BY WantedIs
    <3> QED
      BY <2>5, <3>1 DEF LengthLine
  <2>7. WithoutTotals(HeadThree(r)) = a \o <<x>> /\ HeadThree(r) \in Tokens
    <3>1. HeadThree(r) = HeadTwo(r) \o <<LengthLine(r)>>
      BY DEF HeadTwo, HeadThree
    <3> QED
      BY <1>1, <2>1, <2>3, <3>1, LinesWithout DEF Cut
  <2>8. Eating(at, "RECV_HEADERS", data, line[2], TRUE, r, HeadThree(r))
    BY <1>8, <2>6 DEF Eating, HeadThree
  <2> QED
    BY <1>8, <2>4, <2>6, <2>7, <2>8 DEF Eats
<1>9. CASE eaten = HeadThree(r) /\ length = TRUE /\ left = Len(Wanted(r)) /\ data = <<>>
  <2>1. a = HeadThree(r)
    BY <1>9, LinesWithout
  <2>2. Cut(Given(r), HeadThree(r), <<<<"end">>>> \o GivenBody(r))
    BY <1>1, <1>5
  <2>3. x = <<"end">>
    <3>1. NextToken(Given(r), a, <<"end">>, GivenBody(r))
      BY <1>2, <2>1, <2>2 DEF NextToken
    <3> HIDE DEF x, a
    <3> QED
      BY <1>4, <3>1, NextIs
  <2>4. line[1] \notin {"status", "length", "crange"}
    <3>1. line[1] = "end"
      BY <1>3, <2>3
    <3> QED
      BY <3>1
  <2>5. AnswerHeaders(r) = HeadThree(r) \o <<<<"end">>>> /\ AnswerHeaders(r) \in Tokens
    BY <1>1, AnswerIs DEF Cut, End
  <2>6. WithoutTotals(AnswerHeaders(r)) = a \o <<x>>
    BY <2>1, <2>3, <2>5, LinesWithout
  <2>7. Eating(at, "RECV_BODY", data, left, length, r, AnswerHeaders(r))
    <3>1. AnswerHeaders(r) = AnswerHeaders(r) \o data
      BY <1>9, <2>5, CatNothing
    <3>2. left \in Nat /\ Wanted(r) \in Tokens /\ Len(<<>>) = 0
      BY <1>9, WantedIs, EmptySeq
    <3>3. left = Len(Wanted(r)) - Len(data)
      BY <1>9, <3>2
    <3>4. left = 0 => data = AnswerBody(r)
      <4>1. ASSUME left = 0 PROVE Wanted(r) = <<>>
        BY <1>9, <3>2, <4>1, EmptySeq DEF Tokens
      <4> QED
        BY <1>9, <4>1 DEF AnswerBody
    <3> QED
      BY <3>1, <3>2, <3>3, <3>4 DEF Eating
  <2> QED
    BY <1>9, <2>4, <2>5, <2>6, <2>7 DEF Eats
<1>10. \/ eaten = <<>> /\ state = "WAITING" /\ data = <<>>
       \/ eaten = <<StatusLine(r)>> /\ Partial(r) /\ data = <<>> /\ state = "RECV_HEADERS"
       \/ eaten = HeadTwo(r) /\ data = <<>> /\ state = "RECV_HEADERS"
       \/ eaten = HeadThree(r) /\ length = TRUE /\ left = Len(Wanted(r)) /\ data = <<>>
  <2>1. CASE state = "WAITING"
    BY <2>1 DEF Eating
  <2>2. CASE state = "RECV_HEADERS"
    <3>1. ~Partial(r) => HeadTwo(r) = <<StatusLine(r)>>
      <4>1. <<StatusLine(r)>> \in Tokens
        BY <1>2, CatOne
      <4>2. <<StatusLine(r)>> \o <<>> = <<StatusLine(r)>>
        BY <4>1, CatNothing
      <4> QED
        BY <4>2 DEF HeadTwo, CRangeLines
    <3> QED
      BY <2>2, <3>1 DEF Eating, HeadTwo, HeadThree, Early
  <2> QED
    BY <2>1, <2>2
<1> QED
  BY <1>6, <1>7, <1>8, <1>9, <1>10

(* Before a line is taken out of what is buffered.                         *)
LEMMA LinesDown ==
  ASSUME NEW script, NEW unsent, NEW eaten \in Tokens, NEW buffered \in Tokens,
         Serves(task, conn, script, unsent, eaten \o buffered),
         conn' = AfterLines(buffered, "down"), task' = task
  PROVE  /\ Lines(buffered, "down") \in Tokens
         /\ Serves(task', conn', script, unsent, eaten \o Lines(buffered, "down"))
<1>1. CASE buffered # <<>>
  BY <1>1 DEF Lines, AfterLines
<1>2. CASE buffered = <<>>
  <2>1. Lines(buffered, "down") = First(LineBuffer, conn.down.data)
        /\ conn' = Taken("down", LineBuffer)
    BY <1>2 DEF Lines, AfterLines
  <2>2. LineBuffer \in Nat
    BY ConnectionAssumption DEF ConnectionAssumption
  <2>3. conn.down.data \in Tokens
    BY EmptySeq DEF Serves, Lost, IsConn, Chan, Tokens
  <2>4. First(LineBuffer, conn.down.data) \in Tokens
    BY <2>2, <2>3, TokensOf
  <2>5. eaten \o buffered = eaten
    BY <1>2, CatNothing
  <2>6. Serves(task, conn, script, unsent, eaten)
    BY <2>5
  <2>7. Serves(task', conn', script, unsent, eaten \o First(LineBuffer, conn.down.data))
    BY <2>1, <2>2, <2>6, ReceivingServes
  <2> QED
    BY <2>1, <2>4, <2>7
<1> QED
  BY <1>1, <1>2

FiveTogether(a, x, y, d, z) ==
  /\ ((a \o (x \o y)) \o d) \o z = a \o (x \o ((y \o d) \o z))
  /\ (y \o d) \o z \in Tokens

LEMMA FivePieces ==
  ASSUME NEW a \in Tokens, NEW x \in Tokens, NEW y \in Tokens, NEW d \in Tokens, NEW z \in Tokens
  PROVE  FiveTogether(a, x, y, d, z)
<1>1. x \o y \in Tokens /\ y \o d \in Tokens
  BY Cat
<1> DEFINE xy == x \o y
           yd == y \o d
<1>2. (a \o xy) \o d = a \o (xy \o d)
  <2> HIDE DEF xy
  <2>1. xy \in Tokens
    BY <1>1 DEF xy
  <2>2. Assoc(a, xy, d)
    BY <2>1, CatAssoc
  <2> QED
    BY <2>2 DEF Assoc
<1>3. xy \o d = x \o yd
  <2>1. Assoc(x, y, d)
    BY CatAssoc
  <2> QED
    BY <2>1 DEF Assoc
<1> HIDE DEF xy, yd
<1>4. yd \in Tokens /\ x \o yd \in Tokens /\ yd \o z \in Tokens
  <2>1. yd \in Tokens
    BY <1>1 DEF yd
  <2> QED
    BY <2>1, Cat
<1>5. (x \o yd) \o z = x \o (yd \o z)
  <2>1. yd \in Tokens
    BY <1>4
  <2>2. Assoc(x, yd, z)
    BY <2>1, CatAssoc
  <2> QED
    BY <2>2 DEF Assoc
<1>6. (a \o (x \o yd)) \o z = a \o ((x \o yd) \o z)
  <2>1. Assoc(a, x \o yd, z)
    BY <1>4, CatAssoc
  <2> QED
    BY <2>1 DEF Assoc
<1> QED
  BY <1>2, <1>3, <1>4, <1>5, <1>6 DEF xy, yd, FiveTogether

(* What has been eaten, and the first line of what is buffered, begin what *)
(* the server gives.                                                       *)
LEMMA LineOfGiven ==
  ASSUME NEW r, IsRequest(r), NEW t, NEW c, NEW unsent, NEW eaten \in Tokens,
         NEW line \in Token, NEW rest \in Tokens,
         Serves(t, c, <<r>>, unsent, eaten \o (<<line>> \o rest))
  PROVE  \E w \in Tokens : Given(r) = WithoutTotals(eaten) \o (<<WithoutTotal(line)>> \o w)
<1>1. IsScript(<<r>>) /\ Len(<<r>>) = 1 /\ Answered(<<r>>, 1) = Given(r)
  BY OneRequest
<1>2. /\ <<line>> \in Tokens /\ <<line>> \o rest \in Tokens
      /\ WithoutTotals(<<line>>) = <<WithoutTotal(line)>>
  BY CatOne, WithoutOne
<1> DEFINE got == eaten \o (<<line>> \o rest)
<1>3. got \in Tokens
  BY <1>2, Cat
<1>4. Begun(c, <<r>>, got)
  BY <1>1, <1>3, ServesBegun
<1>5. c.down.data \in Tokens
  BY EmptySeq DEF Serves, Lost, IsConn, Chan, Tokens
<1>6. PICK z \in Tokens : WithoutTotals(got \o c.down.data) \o z = Given(r)
  BY <1>1, <1>4 DEF Begun, Outbound
<1> DEFINE a == WithoutTotals(eaten)
           x == <<WithoutTotal(line)>>
           y == WithoutTotals(rest)
           d == WithoutTotals(c.down.data)
<1>7. a \in Tokens /\ x \in Tokens /\ y \in Tokens /\ d \in Tokens
  <2>1. x \in Tokens
    BY TotalsAre, WithoutOne
  <2> QED
    BY <1>5, <2>1, WithoutTypes
<1>8. WithoutTotals(got \o c.down.data) = (a \o (x \o y)) \o d
  <2>1. WithoutTotals(<<line>> \o rest) = x \o y
    <3>1. WithoutTotals(<<line>>) = x
      BY <1>2
    <3> HIDE DEF x, y
    <3>2. WithoutTotals(<<line>> \o rest) = WithoutTotals(<<line>>) \o WithoutTotals(rest)
      BY <1>2, WithoutBoth
    <3> QED
      BY <3>1, <3>2 DEF y
  <2>2. WithoutTotals(eaten \o (<<line>> \o rest)) = a \o (x \o y)
    BY <1>2, <2>1, WithoutBoth
  <2>3. WithoutTotals(got) = a \o (x \o y)
    BY <2>2
  <2>4. WithoutTotals(got \o c.down.data) = WithoutTotals(got) \o d
    <3> HIDE DEF got
    <3> QED
      BY <1>3, <1>5, WithoutBoth
  <2> QED
    BY <2>3, <2>4
<1> HIDE DEF a, x, y, d, got
<1>11. /\ ((a \o (x \o y)) \o d) \o z = a \o (x \o ((y \o d) \o z))
       /\ (y \o d) \o z \in Tokens
  <2>1. FiveTogether(a, x, y, d, z)
    BY <1>7, FivePieces
  <2> QED
    BY <2>1 DEF FiveTogether
<1>12. Given(r) = a \o (x \o ((y \o d) \o z))
  BY <1>6, <1>8, <1>11
<1> QED
  BY <1>11, <1>12 DEF a, x

LEMMA ReceiveLineKeeps ==
  ASSUME AskingNow, UNCHANGED <<task, peer>>, ReceiveLine
  PROVE  AskingNow'
<1>1. /\ client.run /\ client.state \in {"WAITING", "RECV_HEADERS"} /\ client \in Clients
      /\ client.lines \in Tokens /\ client.headers \in Tokens /\ client.body \in Tokens
      /\ UNCHANGED told /\ conn' = AfterLines(client.lines, "down")
  BY ClientIs DEF ReceiveLine, In, AskingNow, TellsOn
<1> DEFINE r    == client.request
           all  == Lines(client.lines, "down")
           line == Head(all)
           rest == Tail(all)
           c    == [client EXCEPT !.lines = rest]
<1>2. all # <<>>
  BY DEF ReceiveLine, NoLine
<1>3. client' = CASE line[1] = "status" -> [c EXCEPT !.state = "RECV_HEADERS"]
                  [] line[1] = "length" -> [c EXCEPT !.left = line[2], !.length = TRUE]
                  [] line[1] = "crange" -> [c EXCEPT !.left = line[3] - line[2] + 1,
                                                     !.length = TRUE]
                  [] OTHER -> [c EXCEPT !.state = "RECV_BODY",
                                 !.left = IF c.length THEN @ ELSE Forever]
  BY DEF ReceiveLine
<1>4. PICK eaten \in Tokens :
        /\ Eating(task.at, client.state, client.data, client.left, client.length, r, eaten)
        /\ Serves(task, conn, <<r>>, Unsent(client), eaten \o client.lines)
  BY DEF AskingNow, Asking
<1>5. all \in Tokens /\ Serves(task', conn', <<r>>, Unsent(client), eaten \o all)
  BY <1>1, <1>4, LinesDown
<1> HIDE DEF all
<1>6. line \in Token /\ rest \in Tokens /\ all = <<line>> \o rest
  BY <1>2, <1>5, HeadAndTail DEF Tokens
<1> HIDE DEF line, rest
<1>7. PICK w \in Tokens : Given(r) = WithoutTotals(eaten) \o (<<WithoutTotal(line)>> \o w)
  <2>1. Serves(task', conn', <<r>>, Unsent(client), eaten \o (<<line>> \o rest)) /\ IsRequest(r)
    BY <1>5, <1>6 DEF AskingNow
  <2> HIDE DEF r
  <2> QED
    BY <1>6, <2>1, LineOfGiven
<1>8. PICK more :
        Eats(task.at, client.state, client.data, client.left, client.length, r, eaten, line, more)
  BY <1>1, <1>4, <1>6, <1>7, NextEaten DEF AskingNow
<1>9. Serves(task', conn', <<r>>, Unsent(client), more \o rest)
  <2>1. more \in Tokens /\ WithoutTotals(more) = WithoutTotals(eaten) \o <<WithoutTotal(line)>>
    BY <1>8 DEF Eats
  <2>2. <<line>> \in Tokens /\ WithoutTotals(<<line>>) = <<WithoutTotal(line)>>
    BY <1>6, WithoutOne
  <2>3. (eaten \o <<line>>) \o rest = eaten \o all
    BY <1>6, <2>2, CatThree
  <2>4. eaten \o <<line>> \in Tokens
    BY <2>2, Cat
  <2>5. WithoutTotals(eaten \o <<line>>) = WithoutTotals(more)
    BY <2>1, <2>2, WithoutBoth
  <2>6. WithoutTotals((eaten \o <<line>>) \o rest) = WithoutTotals(eaten \o <<line>>) \o WithoutTotals(rest)
    BY <1>6, <2>4, WithoutBoth
  <2>7. WithoutTotals(more \o rest) = WithoutTotals(more) \o WithoutTotals(rest)
    BY <1>6, <2>1, WithoutBoth
  <2>8. WithoutTotals(eaten \o all) = WithoutTotals(more \o rest)
    BY <2>3, <2>5, <2>6, <2>7
  <2>9. eaten \o all \in Tokens /\ more \o rest \in Tokens
    BY <1>5, <1>6, <2>1, Cat
  <2> QED
    BY <1>5, <2>8, <2>9, SameGiven
<1>10. /\ c \in Clients /\ c.request = r /\ c.state = client.state /\ c.headers = client.headers
       /\ c.body = client.body /\ c.lines = rest /\ c.data = client.data
       /\ c.left = client.left /\ c.length = client.length /\ c.init = client.init
       /\ c.callback = client.callback /\ c.run = client.run /\ c.wait = client.wait
  BY <1>1, <1>6 DEF Clients
<1> HIDE DEF c
<1> DEFINE Made(state, left, length) ==
             /\ client' \in Clients /\ client'.request = r /\ client'.state = state
             /\ client'.headers = c.headers /\ client'.body = c.body /\ client'.lines = rest
             /\ client'.data = c.data /\ client'.left = left /\ client'.length = length
             /\ client'.init = c.init /\ client'.callback = c.callback
             /\ client'.run = c.run /\ client'.wait = c.wait
<1>11. \E state \in {"RECV_HEADERS", "RECV_BODY"} : \E left, length :
         Made(state, left, length) /\ Eating(task.at, state, client.data, left, length, r, more)
  <2>1. CASE /\ line[1] = "status"
             /\ Eating(task.at, "RECV_HEADERS", client.data, client.left, client.length, r, more)
    <3>1. client' = [c EXCEPT !.state = "RECV_HEADERS"]
      BY <1>3, <2>1
    <3>2. Made("RECV_HEADERS", c.left, c.length)
      BY <1>10, <3>1 DEF Clients, ClientStates
    <3> HIDE DEF Made
    <3> QED
      BY <1>10, <2>1, <3>2
  <2>2. CASE /\ line[1] = "length" /\ line[2] \in Int /\ client.state = "RECV_HEADERS"
             /\ Eating(task.at, "RECV_HEADERS", client.data, line[2], TRUE, r, more)
    <3>1. client' = [c EXCEPT !.left = line[2], !.length = TRUE]
      BY <1>3, <2>2
    <3>2. Made("RECV_HEADERS", line[2], TRUE)
      BY <1>10, <2>2, <3>1 DEF Clients
    <3> HIDE DEF Made
    <3> QED
      BY <2>2, <3>2
  <2>3. CASE /\ line[1] = "crange" /\ line[3] - line[2] + 1 \in Int
             /\ client.state = "RECV_HEADERS"
             /\ Eating(task.at, "RECV_HEADERS", client.data, line[3] - line[2] + 1, TRUE, r, more)
    <3> DEFINE n == line[3] - line[2] + 1
    <3>1. client' = [c EXCEPT !.left = n, !.length = TRUE] /\ n \in Int
      BY <1>3, <2>3
    <3> HIDE DEF n
    <3>2. Made("RECV_HEADERS", n, TRUE)
      BY <1>10, <2>3, <3>1 DEF Clients
    <3> HIDE DEF Made
    <3>3. Eating(task.at, "RECV_HEADERS", client.data, n, TRUE, r, more)
      BY <2>3 DEF n
    <3> QED
      BY <3>2, <3>3
  <2>4. CASE /\ line[1] \notin {"status", "length", "crange"} /\ client.length = TRUE
             /\ Eating(task.at, "RECV_BODY", client.data, client.left, client.length, r, more)
    <3>1. client' = [c EXCEPT !.state = "RECV_BODY", !.left = IF c.length THEN @ ELSE Forever]
      BY <1>3, <2>4
    <3>2. client' = [c EXCEPT !.state = "RECV_BODY", !.left = c.left]
      BY <1>10, <2>4, <3>1 DEF Clients
    <3>3. Made("RECV_BODY", c.left, c.length)
      BY <1>10, <3>2 DEF Clients, ClientStates
    <3> HIDE DEF Made
    <3> QED
      BY <1>10, <2>4, <3>3
  <2> HIDE DEF Made
  <2> QED
    BY <1>8, <2>1, <2>2, <2>3, <2>4 DEF Eats
<1>12. PICK state \in {"RECV_HEADERS", "RECV_BODY"} : \E left, length :
         Made(state, left, length) /\ Eating(task.at, state, client.data, left, length, r, more)
  BY <1>11
<1>13. Unsent(client') = Unsent(client)
  BY <1>1, <1>10, <1>12 DEF Unsent
<1>14. Eating(task'.at, client'.state, client'.data, client'.left, client'.length, client'.request, more)
  BY <1>10, <1>12
<1>15. Asking(client', task', conn')
  <2>1. more \in Tokens
    BY <1>8 DEF Eats
  <2>2. client'.request = r /\ client'.lines = rest
    BY <1>12
  <2> QED
    BY <1>9, <1>13, <1>14, <2>1, <2>2 DEF Asking
<1>16. Telling(peer, client', told')
  BY <1>1, <1>10, <1>12, RunningTells DEF AskingNow
<1> QED
  BY <1>1, <1>12, <1>15, <1>16 DEF AskingNow, TellsOn
-----------------------------------------------------------------------------
(* The body of an answer.                                                  *)
LEMMA BodyOfGiven ==
  ASSUME NEW r, IsRequest(r), NEW t, NEW c, NEW unsent, NEW data \in Tokens, NEW rest \in Tokens,
         Serves(t, c, <<r>>, unsent, (AnswerHeaders(r) \o data) \o rest)
  PROVE  \E y \in Tokens : GivenBody(r) = WithoutTotals(data) \o y
<1>1. IsScript(<<r>>) /\ Len(<<r>>) = 1 /\ Answered(<<r>>, 1) = Given(r)
  BY OneRequest
<1> DEFINE h   == AnswerHeaders(r)
           got == (h \o data) \o rest
<1>2. h \in Tokens /\ WithoutTotals(h) = h /\ GivenBody(r) \in Tokens /\ Given(r) = h \o GivenBody(r)
  BY AnswerIs, LinesWithout, GivenIs DEF Given
<1> HIDE DEF h
<1>3. h \o data \in Tokens /\ got \in Tokens
  <2>1. h \o data \in Tokens
    BY <1>2, Cat
  <2> QED
    BY <2>1, Cat
<1>4. Begun(c, <<r>>, got)
  BY <1>1, <1>3, ServesBegun DEF h
<1>5. c.down.data \in Tokens
  BY EmptySeq DEF Serves, Lost, IsConn, Chan, Tokens
<1>6. PICK z \in Tokens : WithoutTotals(got \o c.down.data) \o z = Given(r)
  BY <1>1, <1>4 DEF Begun, Outbound
<1> DEFINE x == WithoutTotals(data)
           y == WithoutTotals(rest)
           d == WithoutTotals(c.down.data)
<1>7. x \in Tokens /\ y \in Tokens /\ d \in Tokens
  BY <1>5, WithoutTypes
<1>8. WithoutTotals(got \o c.down.data) = ((h \o x) \o y) \o d
  <2>1. WithoutTotals(h \o data) = h \o x
    BY <1>2, WithoutBoth
  <2>2. WithoutTotals((h \o data) \o rest) = (h \o x) \o y
    BY <1>3, <2>1, WithoutBoth
  <2>3. WithoutTotals(got \o c.down.data) = WithoutTotals(got) \o d
    <3> HIDE DEF got
    <3> QED
      BY <1>3, <1>5, WithoutBoth
  <2> QED
    BY <2>2, <2>3
<1> HIDE DEF x, y, d, got
<1>9. (h \o x) \o y = h \o (x \o y)
  <2>1. h \in Tokens /\ x \in Tokens /\ y \in Tokens
    BY <1>2, <1>7
  <2>2. Assoc(h, x, y)
    BY <2>1, CatAssoc
  <2> QED
    BY <2>2 DEF Assoc
<1>10. FiveTogether(h, x, y, d, z)
  BY <1>2, <1>7, FivePieces
<1>11. h \o (x \o ((y \o d) \o z)) = h \o GivenBody(r) /\ (y \o d) \o z \in Tokens
  <2> DEFINE xy == x \o y
  <2>1. ((h \o xy) \o d) \o z = h \o (x \o ((y \o d) \o z))
    BY <1>10 DEF FiveTogether
  <2>2. WithoutTotals(got \o c.down.data) = (h \o xy) \o d
    BY <1>8, <1>9
  <2>3. ((h \o xy) \o d) \o z = h \o GivenBody(r)
    BY <1>2, <1>6, <2>2
  <2> HIDE DEF xy
  <2>4. (y \o d) \o z \in Tokens
    BY <1>10 DEF FiveTogether
  <2> QED
    BY <2>1, <2>3, <2>4, Zenon
<1>12. x \o ((y \o d) \o z) \in Tokens
  BY <1>7, <1>11, Cat
<1>13. Cut(Given(r), h, x \o ((y \o d) \o z)) /\ Cut(Given(r), h, GivenBody(r))
  BY <1>2, <1>11, <1>12 DEF Cut
<1>14. x \o ((y \o d) \o z) = GivenBody(r)
  BY <1>13, CutFirst
<1> QED
  BY <1>11, <1>14 DEF x

(* When the server has ended the connection, and not for want of what it   *)
(* was sending, all of it has been given.                                  *)
LEMMA BodyEnded ==
  ASSUME NEW r, IsRequest(r), NEW t, NEW c, NEW unsent, NEW data \in Tokens,
         Serves(t, c, <<r>>, unsent, AnswerHeaders(r) \o data), t.at # "failed",
         c.reset = FALSE, c.down.end, c.down.data = <<>>
  PROVE  GivenBody(r) = WithoutTotals(data)
<1>1. Len(<<r>>) = 1 /\ Answered(<<r>>, 1) = Given(r)
  BY OneRequest
<1> DEFINE h == AnswerHeaders(r)
           x == WithoutTotals(data)
<1>2. h \in Tokens /\ WithoutTotals(h) = h /\ GivenBody(r) \in Tokens /\ Given(r) = h \o GivenBody(r)
  BY AnswerIs, LinesWithout, GivenIs DEF Given
<1>3. x \in Tokens
  BY WithoutTypes
<1>4. WithoutTotals(Outbound(c, h \o data)) = Given(r)
  <2>1. Done(c, <<r>>, h \o data)
    BY DEF Serves, Lost, Serving, Failed
  <2>2. PICK k \in 1..Len(<<r>>) :
          WithoutTotals(Outbound(c, h \o data)) = Answered(<<r>>, k)
    BY <2>1 DEF Done
  <2>3. k = 1
    BY <1>1
  <2> QED
    BY <1>1, <2>2, <2>3
<1> HIDE DEF h
<1>5. Outbound(c, h \o data) = h \o data
  <2>1. h \o data \in Tokens
    BY <1>2, Cat
  <2> QED
    BY <2>1, CatNothing DEF Outbound
<1>6. h \o x = h \o GivenBody(r)
  BY <1>2, <1>4, <1>5, WithoutBoth
<1> HIDE DEF x
<1>7. Cut(Given(r), h, x) /\ Cut(Given(r), h, GivenBody(r))
  BY <1>2, <1>3, <1>6 DEF Cut
<1>8. x = GivenBody(r)
  BY <1>7, CutFirst
<1> QED
  BY <1>8 DEF x

(* What has the length that was announced is what was wanted; and what is  *)
(* no longer is the beginning of it.                                       *)
LEMMA BodyIsWanted ==
  ASSUME NEW r, IsRequest(r), NEW data \in Tokens, NEW y \in Tokens,
         GivenBody(r) = WithoutTotals(data) \o y
  PROVE  /\ Len(data) = Len(Wanted(r)) => data = AnswerBody(r)
         /\ r.verb = "HEAD" => data = AnswerBody(r)
         /\ y = <<>> /\ r.verb # "HEAD" => Len(data) >= Len(Wanted(r))
         /\ Len(data) <= Len(Wanted(r)) => IsPrefix(data, AnswerBody(r))
<1> DEFINE x == WithoutTotals(data)
<1>1. x \in Tokens /\ Len(x) = Len(data) /\ Len(data) \in Nat /\ Len(y) \in Nat
  BY WithoutTypes DEF Tokens
<1>2. Len(x \o y) = Len(x) + Len(y)
  BY <1>1, Cat
<1>3. ASSUME r.verb = "HEAD" PROVE data = AnswerBody(r)
  <2>1. GivenBody(r) = <<>>
    BY <1>3, GivenIsAnswer
  <2>2. Len(data) = 0
    BY <1>1, <1>2, <2>1, EmptySeq
  <2>3. data = <<>>
    BY <2>2, EmptySeq DEF Tokens
  <2> QED
    BY <1>3, <2>3 DEF AnswerBody
<1>4. ASSUME r.verb # "HEAD"
      PROVE  \E z \in Tokens : Cut(GivenBody(r), Wanted(r), z) /\ Cut(GivenBody(r), x, y)
  <2>1. \E z \in Tokens : GivenBody(r) = Wanted(r) \o z
    BY <1>4, GivenIsAnswer
  <2>2. Wanted(r) \in Tokens
    BY WantedIs
  <2> QED
    BY <1>1, <2>1, <2>2 DEF Cut
<1>5. ASSUME Len(data) = Len(Wanted(r)) PROVE data = AnswerBody(r)
  <2>1. CASE r.verb = "HEAD"
    BY <1>3, <2>1
  <2>2. CASE r.verb # "HEAD"
    <3>1. PICK z \in Tokens : Cut(GivenBody(r), Wanted(r), z) /\ Cut(GivenBody(r), x, y)
      BY <1>4, <2>2
    <3> HIDE DEF x
    <3>2. x = Wanted(r)
      <4>1. Len(x) = Len(Wanted(r))
        BY <1>1, <1>5
      <4>2. First(Len(x), GivenBody(r)) = x /\ First(Len(Wanted(r)), GivenBody(r)) = Wanted(r)
        BY <3>1, CutAt
      <4> QED
        BY <4>1, <4>2
    <3>3. \A i \in 1..Len(data) : data[i][1] # "crange"
      <4>1. TAKE i \in 1..Len(data)
      <4>2. data[i] \in Token /\ x[i] = WithoutTotal(data[i])
        BY WithoutTypes DEF x
      <4>3. PICK n \in Nat : Wanted(r)[i] = Byte(n)
        BY <1>5, WantedIs
      <4>4. x[i][1] = data[i][1]
        BY <4>2, TotalsAre
      <4>5. x[i][1] = "byte"
        BY <3>2, <4>3 DEF Byte
      <4> QED
        BY <4>4, <4>5
    <3>4. x = data
      BY <3>3, WithoutNothing DEF x
    <3> QED
      BY <2>2, <3>2, <3>4 DEF AnswerBody
  <2> QED
    BY <2>1, <2>2
<1>6. ASSUME y = <<>>, r.verb # "HEAD" PROVE Len(data) >= Len(Wanted(r))
  <2>1. PICK z \in Tokens : Cut(GivenBody(r), Wanted(r), z)
    BY <1>4, <1>6
  <2>2. Len(Wanted(r)) \in Nat /\ Len(z) \in Nat /\ Len(GivenBody(r)) = Len(Wanted(r)) + Len(z)
    BY <2>1, Cat DEF Cut, Tokens
  <2>3. Len(y) = 0
    BY <1>6, EmptySeq
  <2> QED
    BY <1>1, <1>2, <2>2, <2>3
<1>7. ASSUME Len(data) <= Len(Wanted(r)) PROVE IsPrefix(data, AnswerBody(r))
  <2>1. CASE r.verb = "HEAD"
    <3>1. data = AnswerBody(r) /\ <<>> \in Tokens
      BY <1>3, <2>1, EmptySeq DEF Tokens
    <3>2. data \o <<>> = data
      BY CatNothing
    <3> QED
      BY <3>1, <3>2, BeginsIt
  <2>2. CASE r.verb # "HEAD"
    <3> DEFINE w == Wanted(r)
               v == Rest(Len(data), w)
    <3>1. PICK z \in Tokens : Cut(GivenBody(r), w, z) /\ Cut(GivenBody(r), x, y)
      BY <1>4, <2>2
    <3>2. w \in Tokens /\ Len(w) \in Nat /\ \A i \in 1..Len(w) : \E n \in Nat : w[i] = Byte(n)
      BY WantedIs
    <3> HIDE DEF x, w
    <3>3. Len(x) <= Len(w)
      BY <1>1, <1>7 DEF w
    <3>4. x = First(Len(x), w)
      BY <3>1, <3>3, CutTokens
    <3>5. v \in Tokens /\ x \o v = w
      <4>1. Rest(Len(data), w) \in Tokens /\ First(Len(data), w) \o Rest(Len(data), w) = w
        BY <1>1, <3>2, TokensOf
      <4>2. First(Len(data), w) = x
        BY <1>1, <3>4
      <4> QED
        BY <4>1, <4>2
    <3> HIDE DEF v
    <3>6. \A i \in 1..Len(data) : data[i][1] # "crange"
      <4>1. TAKE i \in 1..Len(data)
      <4>2. data[i] \in Token /\ x[i] = WithoutTotal(data[i])
        BY WithoutTypes DEF x
      <4>3. i \in 1..Len(w) /\ i \in 1..Len(x)
        BY <1>1, <3>2, <3>3
      <4>4. w[i] = x[i]
        <5>1. x \in Seq(Token) /\ v \in Seq(Token)
          BY <1>1, <3>5 DEF Tokens
        <5>2. (x \o v)[i] = x[i]
          BY <4>3, <5>1
        <5> QED
          BY <3>5, <5>2
      <4>5. PICK n \in Nat : w[i] = Byte(n)
        BY <3>2, <4>3
      <4>6. x[i][1] = data[i][1]
        BY <4>2, TotalsAre
      <4>7. x[i][1] = "byte"
        BY <4>4, <4>5 DEF Byte
      <4> QED
        BY <4>6, <4>7
    <3>7. x = data
      BY <3>6, WithoutNothing DEF x
    <3>8. IsPrefix(data, w)
      BY <3>5, <3>7, BeginsIt
    <3> QED
      BY <2>2, <3>8 DEF w, AnswerBody
  <2> QED
    BY <2>1, <2>2
<1> QED
  BY <1>3, <1>5, <1>6, <1>7

(* A turn of the loop takes what is buffered first, and then what there is *)
(* on the connection.                                                      *)
TurnTaken(n, lines, down, h, w, f, chunk, rest) ==
  /\ w \in Nat /\ h \in Tokens /\ f \in Tokens /\ rest \in Tokens /\ chunk \in Tokens
  /\ chunk \o rest = lines \o f
  /\ Len(chunk) \in Nat /\ Len(chunk) <= n
  /\ w > 0 => rest = <<>>
  /\ w > 0 /\ Len(chunk) = Len(h) => down = <<>>

LEMMA TakenParts ==
  ASSUME NEW lines \in Tokens, NEW down \in Tokens, NEW n \in Nat,
         NEW h, h = First(n, lines), NEW w, w = n - Len(h), NEW f, f = First(w, down),
         NEW chunk, chunk = h \o f, NEW rest, rest = Rest(n, lines)
  PROVE  TurnTaken(n, lines, down, h, w, f, chunk, rest)
<1>1. /\ h \in Tokens /\ Rest(n, lines) \in Tokens /\ h \o Rest(n, lines) = lines
      /\ Len(lines) \in Nat /\ Len(h) = Least(n, Len(lines)) /\ Len(down) \in Nat
  BY TokensOf
<1>2. Len(h) \in Nat /\ Len(h) <= n /\ w \in Nat
  BY <1>1 DEF Least
<1>3. f \in Tokens /\ Len(f) = Least(w, Len(down))
  BY <1>2, TokensOf
<1>4. Len(f) \in Nat /\ Len(f) <= w
  <2>1. Len(f) = Least(w, Len(down)) /\ w \in Nat /\ Len(down) \in Nat
    BY <1>1, <1>2, <1>3
  <2> QED
    BY <2>1, LeastIs
<1>5. chunk \in Tokens /\ Len(chunk) = Len(h) + Len(f)
  BY <1>1, <1>3, Cat
<1>6. Len(chunk) \in Nat /\ Len(chunk) <= n
  BY <1>2, <1>4, <1>5
<1>7. CASE n <= Len(lines)
  <2>1. w = 0
    BY <1>1, <1>2, <1>7 DEF Least
  <2>2. f = <<>>
    BY <2>1, FirstOfNone DEF Tokens
  <2>3. chunk = h /\ lines \o f = lines
    BY <1>1, <2>2, CatNothing
  <2>4. chunk \o rest = lines \o f
    BY <1>1, <2>3
  <2>5. ~(w > 0)
    BY <2>1
  <2>6. /\ w \in Nat /\ h \in Tokens /\ f \in Tokens /\ rest \in Tokens /\ chunk \in Tokens
        /\ Len(chunk) \in Nat /\ Len(chunk) <= n
    BY <1>1, <1>2, <1>3, <1>5, <1>6
  <2> QED
    BY <2>4, <2>5, <2>6, Zenon DEF TurnTaken
<1>8. CASE Len(lines) < n
  <2>1. h = lines /\ rest = <<>>
    BY <1>1, <1>8, FirstOfAll DEF Tokens
  <2>2. chunk \o rest = lines \o f
    BY <1>5, <2>1, CatNothing
  <2>3. ASSUME w > 0, Len(chunk) = Len(h) PROVE down = <<>>
    <3>1. Len(f) = 0
      BY <1>2, <1>4, <1>5, <2>3
    <3>2. Len(down) = 0
      BY <1>1, <1>2, <1>3, <2>3, <3>1 DEF Least
    <3> QED
      BY <3>2, EmptySeq DEF Tokens
  <2> QED
    BY <1>1, <1>2, <1>3, <1>5, <1>6, <2>1, <2>2, <2>3 DEF TurnTaken
<1> QED
  BY <1>1, <1>7, <1>8

MovesOver(h, d, l, f, c, r) == ((h \o d) \o l) \o f = (h \o (d \o c)) \o r

LEMMA MovedOver ==
  ASSUME NEW h \in Tokens, NEW d \in Tokens, NEW l \in Tokens, NEW f \in Tokens,
         NEW c \in Tokens, NEW r \in Tokens, NEW cr, cr = c \o r, cr = l \o f
  PROVE  MovesOver(h, d, l, f, c, r)
<1> DEFINE hd == h \o d
<1>1. hd \in Tokens
  BY Cat
<1>2. hd \o c = h \o (d \o c)
  <2>1. Assoc(h, d, c)
    BY CatAssoc
  <2> QED
    BY <2>1 DEF Assoc
<1> HIDE DEF hd
<1>3. (hd \o l) \o f = hd \o (l \o f)
  <2>1. Assoc(hd, l, f)
    BY <1>1, CatAssoc
  <2> QED
    BY <2>1 DEF Assoc
<1>4. (hd \o c) \o r = hd \o (c \o r)
  <2>1. Assoc(hd, c, r)
    BY <1>1, CatAssoc
  <2> QED
    BY <2>1 DEF Assoc
<1>5. (hd \o l) \o f = (hd \o c) \o r
  BY <1>3, <1>4
<1> QED
  BY <1>2, <1>5 DEF hd, MovesOver

LEMMA NothingLeft ==
  ASSUME NEW a \in Nat, NEW b \in Nat, NEW c, c = a - b, c = 0
  PROVE  a = b
  OBVIOUS

(* What the client has of the body after such a turn.                      *)
LEMMA BodyGrows ==
  ASSUME NEW r, IsRequest(r), NEW t, NEW c, NEW unsent, NEW rest \in Tokens,
         NEW data \in Tokens, NEW chunk \in Tokens, NEW more, more = data \o chunk,
         NEW left \in Nat, left = Len(Wanted(r)) - Len(data),
         Len(chunk) <= left, NEW now,
         Serves(t, c, <<r>>, unsent, (AnswerHeaders(r) \o more) \o rest),
         \/ now = left - Len(chunk)
         \/ now = 0 /\ rest = <<>> /\ c.reset = FALSE /\ c.down.end /\ c.down.data = <<>>
  PROVE  more \in Tokens
         /\ Eating(t.at, "RECV_BODY", more, now, TRUE, r, AnswerHeaders(r) \o more)
<1>1. more \in Tokens /\ Len(more) = Len(data) + Len(chunk)
  BY Cat
<1>2. Len(data) \in Nat /\ Len(chunk) \in Nat /\ Len(Wanted(r)) \in Nat /\ Len(more) \in Nat
  BY <1>1, WantedIs DEF Tokens
<1>3. CASE now = left - Len(chunk)
  <2>1. now \in Nat /\ now = Len(Wanted(r)) - Len(more)
    BY <1>1, <1>2, <1>3
  <2>2. ASSUME now = 0 PROVE more = AnswerBody(r)
    <3>1. Len(more) = Len(Wanted(r))
      BY <1>2, <2>1, <2>2, NothingLeft
    <3>2. PICK y \in Tokens : GivenBody(r) = WithoutTotals(more) \o y
      BY <1>1, BodyOfGiven
    <3> QED
      BY <1>1, <3>1, <3>2, BodyIsWanted
  <2> QED
    BY <1>1, <2>1, <2>2 DEF Eating
<1>4. CASE now = 0 /\ rest = <<>> /\ c.reset = FALSE /\ c.down.end /\ c.down.data = <<>>
  <2>1. ASSUME t.at # "failed" PROVE more = AnswerBody(r)
    <3> DEFINE got == AnswerHeaders(r) \o more
    <3>1. got \in Tokens
      BY <1>1, AnswerIs, Cat
    <3>2. got \o rest = got
      <4> HIDE DEF got
      <4> QED
        BY <1>4, <3>1, CatNothing
    <3>3. Serves(t, c, <<r>>, unsent, AnswerHeaders(r) \o more)
      BY <3>2
    <3>4. GivenBody(r) = WithoutTotals(more)
      BY <1>1, <1>4, <2>1, <3>3, BodyEnded
    <3>5. <<>> \in Tokens /\ GivenBody(r) = WithoutTotals(more) \o <<>>
      BY <1>1, <3>4, EmptySeq, WithoutTypes, CatNothing DEF Tokens
    <3>6. r.verb # "HEAD" => Len(more) = Len(Wanted(r))
      <4>1. r.verb # "HEAD" => Len(more) >= Len(Wanted(r))
        BY <1>1, <3>5, BodyIsWanted
      <4> QED
        BY <1>1, <1>2, <4>1
    <3> QED
      BY <1>1, <3>5, <3>6, BodyIsWanted
  <2>2. Len(more) <= Len(Wanted(r))
    BY <1>1, <1>2
  <2> QED
    BY <1>1, <1>4, <2>1, <2>2 DEF Eating
<1> QED
  BY <1>3, <1>4

LEMMA ReceiveDataKeeps ==
  ASSUME AskingNow, UNCHANGED <<task, peer>>, ReceiveData
  PROVE  AskingNow'
<1>1. /\ client.run /\ client.state = "RECV_BODY" /\ client \in Clients /\ client.left > 0
      /\ client.lines \in Tokens /\ client.headers \in Tokens /\ client.body \in Tokens
      /\ client.data \in Tokens /\ IsRequest(client.request)
  BY ClientIs DEF ReceiveData, In, AskingNow, TellsOn
<1> DEFINE r     == client.request
           lump  == Least(client.left, BodyBuffer)
           left  == First(lump, client.lines)
           wants == lump - Len(left)
           f     == First(wants, conn.down.data)
           chunk == left \o f
           rest  == Rest(lump, client.lines)
           now   == IF Len(chunk) = Len(left) /\ wants > 0 /\ conn.down.end
                    THEN 0 ELSE client.left - Len(chunk)
<1>2. \/ wants > 0 /\ conn.reset /\ Forgotten /\ UNCHANGED told
      \/ client' = Waits(client, "readable") /\ UNCHANGED <<conn, told>>
      \/ /\ ~(wants > 0 /\ conn.reset)
         /\ conn' = Taken("down", wants) /\ UNCHANGED told
         /\ client' = [client EXCEPT !.lines = Rest(lump, @), !.data = @ \o chunk,
              !.left = IF Len(chunk) = Len(left) /\ wants > 0 /\ conn.down.end
                       THEN 0 ELSE @ - Len(chunk)]
  BY DEF ReceiveData, ReadLeftovers
<1>3. CASE Forgotten /\ UNCHANGED told
  BY <1>1, <1>3, ForgottenKeeps
<1>4. CASE client' = Waits(client, "readable") /\ UNCHANGED <<conn, told>>
  BY <1>1, <1>4, WaitsKeeps
<1>5. CASE /\ ~(wants > 0 /\ conn.reset)
           /\ conn' = Taken("down", wants) /\ UNCHANGED told
           /\ client' = [client EXCEPT !.lines = Rest(lump, @), !.data = @ \o chunk,
                !.left = IF Len(chunk) = Len(left) /\ wants > 0 /\ conn.down.end
                         THEN 0 ELSE @ - Len(chunk)]
  <2>1. PICK eaten \in Tokens :
          /\ Eating(task.at, client.state, client.data, client.left, client.length, r, eaten)
          /\ Serves(task, conn, <<r>>, Unsent(client), eaten \o client.lines)
    BY DEF AskingNow, Asking
  <2>2. /\ eaten = AnswerHeaders(r) \o client.data /\ client.left \in Nat
        /\ client.left = Len(Wanted(r)) - Len(client.data)
    BY <1>1, <2>1 DEF Eating, Early
  <2>3. conn.down.data \in Tokens
    BY <2>1, EmptySeq DEF Serves, Lost, IsConn, Chan, Tokens
  <2>4. lump \in Nat /\ lump <= client.left
    <3>1. BodyBuffer \in Int /\ BodyBuffer >= 0 /\ client.left \in Nat
      BY <2>2, ConnectionAssumption DEF ConnectionAssumption
    <3>2. lump \in {client.left, BodyBuffer} /\ lump <= client.left
      BY <3>1, LeastIs
    <3> QED
      BY <3>1, <3>2
  <2> HIDE DEF lump
  <2>5. /\ wants \in Nat /\ left \in Tokens /\ f \in Tokens /\ rest \in Tokens
        /\ chunk \in Tokens /\ chunk \o rest = client.lines \o f
        /\ Len(chunk) \in Nat /\ Len(chunk) <= lump
        /\ wants > 0 => rest = <<>>
        /\ wants > 0 /\ Len(chunk) = Len(left) => conn.down.data = <<>>
    <3>1. /\ left = First(lump, client.lines) /\ wants = lump - Len(left)
          /\ f = First(wants, conn.down.data) /\ chunk = left \o f
          /\ rest = Rest(lump, client.lines)
      OBVIOUS
    <3> HIDE DEF left, wants, f, chunk, rest
    <3>2. client.lines \in Tokens /\ conn.down.data \in Tokens /\ lump \in Nat
      BY <1>1, <2>3, <2>4
    <3>3. TurnTaken(lump, client.lines, conn.down.data, left, wants, f, chunk, rest)
      BY <3>1, <3>2, TakenParts
    <3> QED
      BY <3>3 DEF TurnTaken
  <2>6. Serves(task', conn', <<r>>, Unsent(client), (eaten \o client.lines) \o f)
    <3>1. eaten \o client.lines \in Tokens
      BY <1>1, <2>1, Cat
    <3> QED
      BY <1>5, <2>1, <2>5, <3>1, ReceivingServes
  <2> DEFINE more == client.data \o chunk
             ends == Len(chunk) = Len(left) /\ wants > 0 /\ conn.down.end
             cr   == chunk \o rest
  <2>7. conn' = Taken("down", wants) /\ (ends => conn.down.data = <<>> /\ rest = <<>> /\ ~conn.reset)
    BY <1>5, <2>5
  <2>8. client' = [client EXCEPT !.lines = rest, !.data = more, !.left = now]
    BY <1>1, <1>5 DEF Clients
  <2>9. now = IF ends THEN 0 ELSE client.left - Len(chunk)
    OBVIOUS
  <2> HIDE DEF f, rest, left, wants, now
  <2>10. (eaten \o client.lines) \o f = (AnswerHeaders(r) \o more) \o rest
    <3>1. AnswerHeaders(r) \in Tokens
      BY <1>1, AnswerIs
    <3>2. cr = chunk \o rest /\ cr = client.lines \o f
      BY <2>5
    <3>3. chunk \in Tokens /\ rest \in Tokens /\ f \in Tokens
      BY <2>5
    <3> DEFINE h == AnswerHeaders(r)
               d == client.data
               l == client.lines
    <3>4. h \in Tokens /\ d \in Tokens /\ l \in Tokens /\ eaten = h \o d /\ cr = l \o f
      BY <1>1, <2>2, <3>1, <3>2
    <3> HIDE DEF chunk, cr, h, d, l
    <3>5. MovesOver(h, d, l, f, chunk, rest)
      BY <3>2, <3>3, <3>4, MovedOver
    <3> QED
      BY <3>4, <3>5, Zenon DEF h, d, l, MovesOver
  <2> HIDE DEF chunk
  <2>11. Serves(task', conn', <<r>>, Unsent(client), (AnswerHeaders(r) \o more) \o rest)
    BY <2>6, <2>10
  <2>12. ends => conn'.reset = FALSE /\ conn'.down.end /\ conn'.down.data = <<>>
    <3>1. ASSUME ends PROVE conn'.reset = FALSE /\ conn'.down.end /\ conn'.down.data = <<>>
      <4>1. IsConn(conn) /\ conn.down.data = <<>> /\ conn.down.end
        BY <2>1, <2>7, <3>1 DEF Serves, Lost
      <4>2. /\ IsConn(conn') /\ conn'.down.data = Rest(wants, conn.down.data)
            /\ conn'.down.end = conn.down.end /\ conn'.reset = conn.reset
        BY <2>5, <2>7, <4>1, TakenDown
      <4>3. Rest(wants, <<>>) = <<>>
        <5>1. <<>> \in Seq(Token) /\ Len(<<>>) <= wants
          BY <2>5, EmptySeq
        <5> QED
          BY <2>5, <5>1, FirstOfAll
      <4>4. conn.reset = FALSE
        BY <2>7, <3>1, <4>1 DEF IsConn
      <4> QED
        BY <4>1, <4>2, <4>3, <4>4
    <3> QED
      BY <3>1
  <2>13. more \in Tokens
         /\ Eating(task'.at, "RECV_BODY", more, now, TRUE, r, AnswerHeaders(r) \o more)
    <3>1. Len(chunk) <= client.left
      BY <2>2, <2>4, <2>5
    <3>2. \/ now = client.left - Len(chunk)
          \/ now = 0 /\ rest = <<>> /\ conn'.reset = FALSE /\ conn'.down.end
             /\ conn'.down.data = <<>>
      <4> HIDE DEF ends
      <4> QED
        BY <2>7, <2>9, <2>12
    <3> HIDE DEF ends
    <3> QED
      BY <1>1, <2>2, <2>5, <2>11, <3>1, <3>2, BodyGrows
  <2> HIDE DEF more, ends
  <2>14. now \in Int
    BY <2>13 DEF Eating, Early
  <2>15. /\ client' \in Clients /\ client'.request = r /\ client'.state = client.state
         /\ client'.headers = client.headers /\ client'.body = client.body
         /\ client'.lines = rest /\ client'.data = more /\ client'.left = now
         /\ client'.init = client.init /\ client'.callback = client.callback
         /\ client'.run = client.run /\ client'.wait = client.wait
    BY <1>1, <2>5, <2>8, <2>13, <2>14 DEF Clients
  <2>16. Unsent(client') = Unsent(client)
    BY <1>1, <2>15 DEF Unsent
  <2>17. AnswerHeaders(r) \o more \in Tokens
    BY <1>1, <2>13, AnswerIs, Cat
  <2>18. Eating(task'.at, client'.state, client'.data, client'.left, client'.length, r,
                AnswerHeaders(r) \o more)
    BY <1>1, <2>13, <2>15 DEF Eating, Early
  <2>19. Asking(client', task', conn')
    BY <2>11, <2>15, <2>16, <2>17, <2>18 DEF Asking
  <2>20. Telling(peer, client', told')
    BY <1>1, <1>5, <2>15, RunningTells DEF AskingNow
  <2> QED
    BY <1>1, <1>5, <2>15, <2>19, <2>20 DEF AskingNow, TellsOn
<1> QED
  BY <1>2, <1>3, <1>4, <1>5

LEMMA ClientNeedsLineKeeps ==
  ASSUME AskingNow, UNCHANGED <<task, peer>>, ClientNeedsLine
  PROVE  AskingNow'
<1>1. client.run /\ client.state \in {"WAITING", "RECV_HEADERS"}
  BY DEF ClientNeedsLine, In
<1>2. CASE Forgotten /\ OnDone("error")
  BY <1>1, <1>2, ForgottenKeeps
<1>3. CASE client' = Waits(client, "readable") /\ UNCHANGED <<conn, told>>
  BY <1>1, <1>3, WaitsKeeps
<1> QED
  BY <1>2, <1>3 DEF ClientNeedsLine, Fail

LEMMA FinishKeeps ==
  ASSUME AskingNow, UNCHANGED <<task, peer>>, Finish
  PROVE  AskingNow'
<1>1. client' \in Clients /\ told' \in Told /\ Telling(peer, client', told')
  BY FinishTells DEF AskingNow
<1>2. /\ SameAnswer(client, client') /\ client.state = "RECV_BODY" /\ client'.state = "IDLE"
      /\ conn' = Broken
  BY DEF AskingNow, TellsOn, Finish, In, Waits, Clients, SameAnswer
<1>3. client.lines \in Tokens /\ IsRequest(client.request)
  BY ClientIs DEF AskingNow, TellsOn
<1>4. Asking(client', task', Broken)
  BY <1>2, <1>3, AskingBreaks DEF AskingNow
<1> QED
  BY <1>1, <1>2, <1>3, <1>4 DEF AskingNow, TellsOn, SameAnswer

LEMMA GiveUpKeeps ==
  ASSUME AskingNow, UNCHANGED <<task, peer>>, GiveUp
  PROVE  AskingNow'
<1>1. client' \in Clients /\ told' \in Told /\ Telling(peer, client', told')
  BY GiveUpTells DEF AskingNow
<1>2. SameAnswer(client, client') /\ client'.state = client.state /\ conn' = Broken
  BY DEF AskingNow, TellsOn, GiveUp, Clients, SameAnswer
<1>3. client.lines \in Tokens /\ IsRequest(client.request)
  BY ClientIs DEF AskingNow, TellsOn
<1>4. Asking(client', task', Broken)
  BY <1>2, <1>3, AskingBreaks DEF AskingNow
<1> QED
  BY <1>1, <1>2, <1>3, <1>4 DEF AskingNow, TellsOn, SameAnswer

LEMMA FetchReturnsKeeps ==
  ASSUME AskingNow, peer = "fetcher", UNCHANGED <<task, peer>>, FetchReturns
  PROVE  AskingNow'
<1>1. /\ client' = client /\ conn' = conn
      /\ client' \in Clients /\ told' \in Told /\ Telling(peer, client', told')
  BY FetchReturnsTells DEF AskingNow
<1> QED
  BY <1>1 DEF AskingNow, TellsOn

LEMMA LosingKeeps ==
  ASSUME AskingNow, UNCHANGED <<task, peer, client, told>>, conn' = Broken
  PROVE  AskingNow'
<1>1. client.lines \in Tokens /\ IsRequest(client.request)
  BY ClientIs DEF AskingNow, TellsOn
<1>2. SameAnswer(client, client)
  BY DEF SameAnswer
<1>3. Asking(client, task, Broken)
  BY <1>1, <1>2, AskingBreaks DEF AskingNow
<1> QED
  BY <1>3 DEF AskingNow, TellsOn

LEMMA ServerStepKeeps ==
  ASSUME AskingNow, arrived \in Int, peer \in {"client", "fetcher"},
         UNCHANGED <<peer, client, told>>, ServerStep
  PROVE  AskingNow'
<1>1. /\ IsRequest(client.request) /\ client.lines \in Tokens
      /\ client.headers \in Tokens /\ client.body \in Tokens
  BY ClientIs DEF AskingNow, TellsOn
<1>2. Asking(client, task', conn')
  BY <1>1, PeersAre, AskingServed DEF AskingNow
<1> QED
  BY <1>2 DEF AskingNow, TellsOn

LEMMA ClientStepKeeps ==
  ASSUME AskingNow, peer \in {"client", "fetcher"}, UNCHANGED <<task, peer>>, ClientStep(peer)
  PROVE  AskingNow'
<1>1. CASE BeginConnect \/ NoAddress \/ InitConnects \/ Establish \/ Refuse \/ PollerRuns(peer)
             \/ CallbackRuns
  BY <1>1, ConnectingKeeps
<1>2. CASE RunConnects
  BY <1>2, RunConnectsKeeps
<1>3. CASE SendRequest
  BY <1>3, SendRequestKeeps
<1>4. CASE RequestSent
  BY <1>4, RequestSentKeeps
<1>5. CASE ClientNeedsLine
  BY <1>5, ClientNeedsLineKeeps
<1>6. CASE ReceiveLine
  BY <1>6, ReceiveLineKeeps
<1>7. CASE ReceiveData
  BY <1>7, ReceiveDataKeeps
<1>8. CASE Finish
  BY <1>8, FinishKeeps
<1>9. CASE peer = "fetcher" /\ FetchReturns
  BY <1>9, FetchReturnsKeeps
<1> QED
  BY <1>1, <1>2, <1>3, <1>4, <1>5, <1>6, <1>7, <1>8, <1>9 DEF ClientStep
-----------------------------------------------------------------------------
(* What the client has of the answer is what the server gave to its        *)
(* request, whatever happens to the connection.                            *)
ClientInv ==
  /\ arrived \in Int
  /\ IF peer \in {"client", "fetcher"}
     THEN AskingNow /\ raw.unsent = <<>> /\ raw.script = <<>>
     ELSE told.done = <<>>

LEMMA NewAsks ==
  ASSUME NEW r, IsRequest(r), client = NewClient(r), told = NothingTold, task = NewTask,
         conn = Unused
  PROVE  AskingNow
<1>1. <<>> \in Tokens
  BY EmptySeq DEF Tokens
<1>2. /\ client.request = r /\ client.state = "UNINITIALISED" /\ ~client.init /\ ~client.run
      /\ client.wait = "none" /\ client.lines = <<>> /\ client.data = <<>> /\ ~client.callback
      /\ client \in Clients
  BY <1>1 DEF NewClient, Clients, ClientStates, IsRequest
<1>3. told \in Told /\ told.rc = "none" /\ told.done = <<>> /\ told.fetched = "none"
  BY DEF NothingTold, Told
<1>4. TellsOn
  BY <1>2, <1>3 DEF TellsOn, Telling
<1>5. Eating(task.at, client.state, client.data, client.left, client.length, r, <<>>)
  BY <1>2 DEF Eating, Early
<1>6. Serves(task, conn, <<r>>, Unsent(client), <<>> \o client.lines)
  <2>1. Unsent(client) = AskedFrom(<<r>>, 0) /\ IsScript(<<r>>)
    BY <1>2, OneRequest DEF Unsent
  <2>2. <<>> \o client.lines = <<>>
    BY <1>1, <1>2, CatNothing
  <2>3. Serves(NewTask, Unused, <<r>>, Unsent(client), <<>>)
    BY <2>1, NewIs, NewServes
  <2> QED
    BY <2>2, <2>3
<1> QED
  BY <1>1, <1>2, <1>4, <1>5, <1>6 DEF AskingNow, Asking

LEMMA ClientBegins == SessionInit => ClientInv
<1> SUFFICES ASSUME SessionInit PROVE ClientInv
  OBVIOUS
<1>1. arrived \in Int /\ told = NothingTold /\ told.done = <<>>
  BY DEF SessionInit, NothingTold
<1>2. ASSUME peer \in {"client", "fetcher"}
      PROVE  AskingNow /\ raw.unsent = <<>> /\ raw.script = <<>>
  <2>1. peer \notin {"raw", Denied}
    BY <1>2, PeersAre
  <2>2. raw.script = <<>> /\ raw.unsent = <<>>
    <3>1. raw = [script |-> <<>>, got |-> <<>>,
                 unsent |-> FlattenSeq([i \in DOMAIN <<>> |-> RequestLines(<<>>[i])])]
      BY <2>1 DEF SessionInit
    <3>2. IsScript(<<>>)
      BY PeersAre
    <3>3. Len(<<>>) = 0
      BY EmptySeq
    <3>4. FlattenSeq([i \in DOMAIN <<>> |-> RequestLines(<<>>[i])]) = AskedFrom(<<>>, 0)
      BY <3>2, AskedAll
    <3>5. AskedFrom(<<>>, 0) = <<>>
      BY <3>2, <3>3, AskedNone
    <3> QED
      BY <3>1, <3>4, <3>5
  <2>3. PICK r \in Requests : client = NewClient(r)
    BY <1>2 DEF SessionInit
  <2>4. IsRequest(r)
    BY SessionAssumption DEF SessionAssumption
  <2>5. task = NewTask /\ conn = Unused
    BY <2>1 DEF SessionInit
  <2> QED
    BY <1>1, <2>2, <2>3, <2>4, <2>5, NewAsks
<1> QED
  BY <1>1, <1>2 DEF ClientInv

LEMMA ClientKeeps == ClientInv /\ [SessionNext]_sessionVars => ClientInv'
<1> SUFFICES ASSUME ClientInv, [SessionNext]_sessionVars PROVE ClientInv'
  OBVIOUS
<1>1. peer' = peer
  BY DEF SessionNext, sessionVars, Server, Client, FetcherGivesUp, Stream, RawSends, RawReceives,
         Reset
<1>2. arrived' \in Int
  BY ArrivedTypes DEF ClientInv, SessionNext, sessionVars, Server, Client, FetcherGivesUp, Stream,
                      RawSends, RawReceives, Reset
<1>3. ASSUME peer \notin {"client", "fetcher"} PROVE told' = told
  BY <1>3 DEF SessionNext, sessionVars, Server, Client, FetcherGivesUp, Stream, RawSends,
              RawReceives, Reset, clientVars
<1>4. ASSUME peer \in {"client", "fetcher"}
      PROVE  AskingNow' /\ raw'.unsent = <<>> /\ raw'.script = <<>>
  <2>1. AskingNow /\ raw.unsent = <<>> /\ raw.script = <<>> /\ arrived \in Int
    BY <1>4 DEF ClientInv
  <2>2. CASE Server
    BY <1>4, <2>1, <2>2, ServerStepKeeps DEF Server, clientVars
  <2>3. CASE Client
    BY <1>4, <2>1, <2>3, ClientStepKeeps DEF Client
  <2>4. CASE FetcherGivesUp
    BY <2>1, <2>4, GiveUpKeeps DEF FetcherGivesUp
  <2>5. ~Stream
    BY <1>4 DEF Stream
  <2>6. ~RawSends
    <3> SUFFICES ASSUME RawSends PROVE FALSE
      OBVIOUS
    <3>1. PICK n \in 1..Least(Room("up"), Len(raw.unsent)) : ~conn.reset
      BY DEF RawSends
    <3>2. IsConn(conn)
      BY <2>1, <3>1 DEF AskingNow, Asking, Serves, Lost
    <3>3. Room("up") \in Int
      BY <3>2, ConnIs, ConnectionAssumption DEF Room, ConnectionAssumption, Tokens
    <3>4. Len(raw.unsent) = 0
      BY <2>1, EmptySeq
    <3>5. Least(Room("up"), Len(raw.unsent)) <= 0
      BY <3>3, <3>4, LeastIs
    <3> QED
      BY <3>1, <3>3, <3>4, <3>5, LeastIs
  <2>7. ~RawReceives
    BY <2>1 DEF RawReceives
  <2>8. CASE Reset
    BY <2>1, <2>8, LosingKeeps DEF Reset, clientVars
  <2>9. CASE UNCHANGED sessionVars
    BY <2>1, <2>9 DEF sessionVars, AskingNow, TellsOn
  <2> QED
    BY <2>2, <2>3, <2>4, <2>5, <2>6, <2>7, <2>8, <2>9 DEF SessionNext
<1> QED
  BY <1>1, <1>2, <1>3, <1>4 DEF ClientInv

LEMMA ClientIsTold ==
  ASSUME ClientInv
  PROVE  OutcomeIsTrue
<1>1. /\ <<>> # <<"ok">> /\ <<>> # <<"error">>
      /\ Len(<<>>) = 0 /\ Len(<<"ok">>) = 1 /\ Len(<<"error">>) = 1
  BY EmptySeq
<1>2. CASE peer \notin {"client", "fetcher"}
  BY <1>1, <1>2 DEF ClientInv, OutcomeIsTrue
<1>3. CASE peer \in {"client", "fetcher"}
  <2>1. /\ told \in Told /\ Telling(peer, client, told) /\ client \in Clients
        /\ IsRequest(client.request) /\ Asking(client, task, conn)
    BY <1>3 DEF ClientInv, AskingNow, TellsOn
  <2> DEFINE r    == client.request
             data == client.data
  <2>1a. PICK eaten \in Tokens :
           /\ Eating(task.at, client.state, data, client.left, client.length, r, eaten)
           /\ Serves(task, conn, <<r>>, Unsent(client), eaten \o client.lines)
    BY <2>1 DEF Asking
  <2>2. Len(told.done) <= 1
    <3>1. told.done \in {<<>>, <<"ok">>, <<"error">>}
      BY <2>1 DEF Told
    <3>2. \A d \in {<<>>, <<"ok">>, <<"error">>} : Len(d) \in {0, 1}
      <4>1. ASSUME NEW d, d = <<>> PROVE Len(d) = 0
        BY <1>1, <4>1
      <4>2. ASSUME NEW d, NEW x \in {"ok", "error"}, d = <<x>> PROVE Len(d) = 1
        BY <4>2
      <4> QED
        BY <4>1, <4>2, Zenon
    <3>3. Len(told.done) \in {0, 1}
      BY <3>1, <3>2, Zenon
    <3>4. \A n \in {0, 1} : n <= 1
      OBVIOUS
    <3> QED
      BY <3>3, <3>4, Zenon
  <2>3. peer = "fetcher" /\ (told.rc = "error" \/ told.fetched = "timeout") => told.done = <<>>
    BY <2>1 DEF Telling
  <2>4. ASSUME told.done = <<"ok">>
        PROVE  \/ data = AnswerBody(r)
               \/ task.at = "failed" /\ IsPrefix(data, AnswerBody(r))
    <3>1. client.state = "IDLE" /\ client.left = 0
      BY <2>1, <2>4 DEF Telling
    <3>2. /\ eaten = AnswerHeaders(r) \o data
          /\ \/ data = AnswerBody(r)
             \/ task.at = "failed" /\ Len(data) <= Len(Wanted(r))
      BY <2>1a, <3>1 DEF Eating, Early
    <3>3. client.lines \in Tokens /\ data \in Tokens
      BY <2>1, ClientIs
    <3>3a. Serves(task, conn, <<r>>, Unsent(client), (AnswerHeaders(r) \o data) \o client.lines)
      BY <2>1a, <3>2
    <3>3b. IsRequest(r)
      BY <2>1
    <3> HIDE DEF r, data
    <3>4. PICK y \in Tokens : GivenBody(r) = WithoutTotals(data) \o y
      BY <3>3, <3>3a, <3>3b, BodyOfGiven
    <3>5. Len(data) <= Len(Wanted(r)) => IsPrefix(data, AnswerBody(r))
      BY <3>3, <3>3b, <3>4, BodyIsWanted
    <3> QED
      BY <3>2, <3>5
  <2>5. ASSUME told.done = <<"error">> PROVE data = <<>>
    <3>1. client.state \in Early \cup {"RECV_HEADERS"}
      BY <2>1, <2>5, ClientIs DEF Telling, ClientStates, Early
    <3> QED
      BY <2>1a, <3>1 DEF Eating, Early
  <2> QED
    BY <2>2, <2>3, <2>4, <2>5 DEF OutcomeIsTrue
<1> QED
  BY <1>2, <1>3

(* Whoever asks by means of the client or a Fetcher is told once at most   *)
(* how it went, and not after it has given up; of success only when it has *)
(* all that was wanted of the answer, however that was cut up on the way   *)
(* and wherever the connection broke, or, when the server could not read   *)
(* on and ended the connection in the middle of the body, the beginning of *)
(* it; and of an error only when it has been given nothing.                *)
THEOREM OutcomeIsAlwaysTrue == SessionSpec => []OutcomeIsTrue
<1>1. SessionInit => ClientInv
  BY ClientBegins
<1>2. ClientInv /\ [SessionNext]_sessionVars => ClientInv'
  BY ClientKeeps
<1>3. ClientInv => OutcomeIsTrue
  BY ClientIsTold
<1> QED
  BY <1>1, <1>2, <1>3, PTL DEF SessionSpec
=============================================================================
