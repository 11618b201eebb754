------------------------------ MODULE MergedDb ------------------------------
(***************************************************************************)
(* db::merge::Database (libdbmerge/db.cpp): the databases of a server seen *)
(* as one.  The database in slot s has its ids tagged with s in the top    *)
(* eight bits; the roots are merged into one; every other query goes to    *)
(* the database in slot 0, whichever that is (ContentDirectory says what   *)
(* comes of it).                                                           *)
(*                                                                         *)
(* The databases are the local one, which a scan fills and changes while   *)
(* clients read (LibraryScan has the details), and that of a Receiver      *)
(* server, which is found and added at any time (choraled/main.cpp:72).    *)
(* Nothing ever calls RemoveDatabase, so a slot stays what it is.          *)
(***************************************************************************)
EXTENDS Integers, Sequences, FiniteSets, SequencesExt

CONSTANTS
  Catalogue,  (* for each database, what its items are: a record of type,  *)
              (* codec, artist, album, genre, kids (of a container) and    *)
              (* high (the better encoding, or 0)                          *)
  RootKids,   (* for each database, what its root holds at first           *)
  Hidden,     (* items of the local database in no list: better encodings  *)
  Assembled,  (* what the slots may hold when the client comes             *)
  MaxTroubles (* how often databases change, and what else is counted      *)

Databases == DOMAIN Catalogue

ASSUME MergeAssumption ==
  /\ Databases = {"local", "receiver"}
  /\ MaxTroubles \in Nat
  /\ Assembled \subseteq {<<>>, <<"local">>, <<"receiver">>, <<"local", "receiver">>}
  /\ \A d \in Databases : Range(RootKids[d]) \subseteq DOMAIN Catalogue[d]

VARIABLES
  slots,   (* m_databases                                                  *)
  scanned, (* the databases that have a root                               *)
  kids,    (* for each database, the children of its root                  *)
  title,   (* for each database, the titles of the items that exist: how   *)
           (* often they were changed                                      *)
  troubles (* how often anything has                                       *)

serverVars == <<slots, scanned, kids, title, troubles>>

(* An id: the slot and the number inside that database; 0 is the root,     *)
(* which is the same in all of them (BROWSE_ROOT).                         *)
Tag(s, i) == <<s, i>>
Root == <<0, 0>>

Untitled(d) == [i \in Range(RootKids[d]) \cup (IF d = "local" THEN Hidden ELSE
                  UNION {Range(r.kids) : r \in Range(Catalogue[d])}) |-> 0]

(* A server may run without a local database, or before its first scan.    *)
ServerInit ==
  /\ slots \in Assembled
  /\ scanned \in {{"receiver"}, Databases}
  /\ kids = [d \in Databases |-> IF d \in scanned THEN RootKids[d] ELSE <<>>]
  /\ title = [d \in Databases |-> IF d \in scanned THEN Untitled(d) ELSE <<>>]
  /\ troubles = 0
-----------------------------------------------------------------------------
(***************************************************************************)
(* Queries                                                                 *)
(***************************************************************************)

Missing == [type |-> "none", kids |-> <<>>]
Found(rec) == rec.type # "none"

RootRecord(d) == [type |-> "DIR", codec |-> "NONE", artist |-> 0, album |-> 0, genre |-> 0,
                  title |-> 0, kids |-> kids[d], high |-> 0]

(* The record of one database. *)
Stored(d, i) ==
  IF i = 0 THEN IF d \in scanned THEN RootRecord(d) ELSE Missing
  ELSE IF i \in DOMAIN title[d] THEN Catalogue[d][i] @@ [title |-> title[d][i]] ELSE Missing

TagAll(s, items) == [j \in DOMAIN items |-> Tag(s, items[j])]

(* WrapRecordset: ids on their way out are tagged. *)
Wrap(s, rec) == [rec EXCEPT !.kids = TagAll(s, @),
                            !.high = IF @ = 0 THEN Root ELSE Tag(s, @)]

(* Execute, for ID == n.  A root in slot 0 that does not exist yet hides   *)
(* the others.                                                             *)
ById(id) ==
  IF id[1] >= Len(slots) THEN Missing
  ELSE LET rec == Stored(slots[id[1] + 1], id[2])
       IN  IF Found(rec) THEN Wrap(id[1], rec) ELSE Missing

(* RootRecordset: the children of all roots. *)
MergedKids ==
  FlattenSeq([s \in DOMAIN slots |->
                IF slots[s] \in scanned THEN TagAll(s - 1, kids[slots[s]]) ELSE <<>>])

Children(id) == IF id = Root /\ Found(ById(id)) THEN MergedKids ELSE ById(id).kids

(* Execute, for any other query, asks slot 0: what that has, in its order. *)
ReceiverComesFirst == slots # <<>> /\ slots[1] = "receiver"

FirstRows ==
  IF slots = <<>> THEN <<>>
  ELSE LET d == slots[1]
           ids == SelectSeq([n \in 1..(Cardinality(DOMAIN Catalogue[d]) + 1) |-> n - 1],
                            LAMBDA i : Found(Stored(d, i)))
       IN  TagAll(0, ids)
-----------------------------------------------------------------------------
(***************************************************************************)
(* Changes under way while clients read                                    *)
(***************************************************************************)

Counted == troubles < MaxTroubles /\ troubles' = troubles + 1

(* The first scan of the local database comes to an end. *)
Scan ==
  /\ Counted
  /\ "local" \notin scanned
  /\ scanned' = Databases
  /\ kids' = [kids EXCEPT !["local"] = RootKids["local"]]
  /\ title' = [title EXCEPT !["local"] = Untitled("local")]
  /\ UNCHANGED slots

(* A file appears: its record, and then its place in the list. *)
Appear(i) ==
  /\ Counted
  /\ "local" \in scanned
  /\ i \notin DOMAIN title["local"]
  /\ title' = [title EXCEPT !["local"] = @ @@ (i :> 0)]
  /\ kids' = [kids EXCEPT !["local"] = Append(@, i)]
  /\ UNCHANGED <<slots, scanned>>

(* A file is gone from the list, and its record after that. *)
Unlist(i) ==
  /\ Counted
  /\ i \in Range(kids["local"])
  /\ kids' = [kids EXCEPT !["local"] = SelectSeq(@, LAMBDA j : j # i)]
  /\ UNCHANGED <<slots, scanned, title>>

Drop(i) ==
  /\ Counted
  /\ i \in DOMAIN title["local"] \ (Range(kids["local"]) \cup Hidden)
  /\ title' = [title EXCEPT !["local"] = [j \in DOMAIN @ \ {i} |-> @[j]]]
  /\ UNCHANGED <<slots, scanned, kids>>

(* Somebody edits a tag. *)
Retitle(i) ==
  /\ Counted
  /\ i \in DOMAIN title["local"]
  /\ title' = [title EXCEPT !["local"][i] = @ + 1]
  /\ UNCHANGED <<slots, scanned, kids>>

(* AddDatabase, for the one Receiver server that is assimilated. *)
Assimilate ==
  /\ Counted
  /\ "receiver" \notin Range(slots)
  /\ slots' = Append(slots, "receiver")
  /\ UNCHANGED <<scanned, kids, title>>

Grows == Scan \/ Assimilate \/ \E i \in DOMAIN Catalogue["local"] : Appear(i)
Shrinks == \E i \in DOMAIN Catalogue["local"] : Unlist(i) \/ Drop(i)
=============================================================================
