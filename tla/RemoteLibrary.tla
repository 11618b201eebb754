--------------------------- MODULE RemoteLibrary ---------------------------
(***************************************************************************)
(* A server's library as the client sees it (libdbupnp): the connection    *)
(* with its maps between the server's object ids and the numbers that the  *)
(* rest of the program knows objects by, and the record sets, which ask    *)
(* the server for metadata, children and search results as they are read.  *)
(*                                                                         *)
(* Readers are the threads of the program: the user interface's walks the  *)
(* media tree (libmediatree), the player's asks for the URL of the next    *)
(* track (liboutput/queue.cpp:508).  Every call of the server is a step    *)
(* that may fail; in between the databases may change, and the connection  *)
(* may be initialised again when the server is announced anew              *)
(* (libchoralecd/db_widget.cpp:145).                                       *)
(***************************************************************************)
EXTENDS ContentDirectory

CONSTANTS
  Readers,     (* threads                                                  *)
  Wants,       (* what each of them reads: of an object its "title", "url" *)
               (* or "children", or "search" and "collate" results         *)
  Queries,     (* the expressions that are searched for                    *)
  LUMP,        (* how much is asked for at a time (32)                     *)
  MaxReads,    (* how many record sets are opened                          *)
  Nobody

ASSUME LibraryAssumption ==
  /\ LUMP \in Nat \ {0} /\ MaxReads \in Nat
  /\ Nobody \notin Readers
  /\ \A r \in Readers : Wants[r] \subseteq {"title", "url", "children", "search", "collate"}

VARIABLES
  phase,     (* how far the initialisation is                              *)
  inits,     (* how often it has begun                                     *)
  names,     (* m_idmap, m_revidmap and m_nextid                           *)
  infomap,   (* m_infomap: type and title of what was listed last          *)
  caps,      (* m_search_caps                                              *)
  lock,      (* who holds the connection's lock over a call                *)
  rs,        (* each reader's record set                                   *)
  opened,    (* how many have been opened                                 *)
  undefined  (* somebody read an item that is not there                    *)

clientVars == <<phase, inits, names, infomap, caps, lock, rs, opened, undefined>>
vars == <<serverVars, clientVars>>

(* Numbers: RootNumber is 0x100, the others count from FirstNumber, 0x110. *)
RootNumber == 0
FirstNumber == 1

NoRecord == [type |-> "none", title |-> 0, artist |-> 0, album |-> 0, url |-> NoURL]

Fresh == [at |-> "idle", want |-> "title", id |-> 0, query |-> 0, basic |-> FALSE,
          rec |-> NoRecord, children |-> <<>>, start |-> 0, index |-> 0,
          returned |-> 0, total |-> 0,
          items |-> <<>>, before |-> <<>>, calm |-> TRUE, whole |-> TRUE, failed |-> FALSE]

Init ==
  /\ ServerInit
  /\ phase = "down"
  /\ inits = 0
  /\ names = [object |-> <<>>, number |-> <<>>, next |-> FirstNumber]
  /\ infomap = <<>>
  /\ caps = {}
  /\ lock = Nobody
  /\ rs = [r \in Readers |-> Fresh]
  /\ opened = 0
  /\ undefined = FALSE
-----------------------------------------------------------------------------
(***************************************************************************)
(* Object ids and numbers                                                  *)
(***************************************************************************)

Put(f, x, y) == [z \in DOMAIN f \cup {x} |-> IF z = x THEN y ELSE f[z]]

(* What a server makes of the object id: an unknown number becomes the     *)
(* empty string, which is the root to it.                                  *)
ObjectIdForId(k) == IF k \in DOMAIN names.object THEN names.object[k] ELSE Root

\* Mutation: one number for all.
Naming_SameAgain(maps, o) ==
  IF o \in DOMAIN maps.number THEN maps
  ELSE [maps EXCEPT !.object = Put(@, maps.next, o), !.number = Put(@, o, maps.next)]

(* The maps with one more object id in them. *)
Naming(maps, o) ==
  IF o \in DOMAIN maps.number THEN maps
  ELSE [object |-> Put(maps.object, maps.next, o),
        number |-> Put(maps.number, o, maps.next),
        next   |-> maps.next + 1]

(* Failing calls count among the troubles, and so does initialising again. *)
MayFail == Counted /\ UNCHANGED <<slots, scanned, kids, title>>
Unlocked(r) == lock \in {Nobody, r}
-----------------------------------------------------------------------------
(***************************************************************************)
(* Initialisation.  What comes before the content directory (description,  *)
(* registrar) touches nothing that is read here.                           *)
(***************************************************************************)

InitConnection ==
  /\ phase \in {"down", "up"}
  /\ IF inits = 0 THEN UNCHANGED serverVars ELSE MayFail
  /\ inits' = inits + 1
  /\ phase' = "connecting"
  /\ UNCHANGED <<names, infomap, caps, lock, rs, opened, undefined>>

InitFails ==
  /\ phase = "connecting"
  /\ MayFail
  /\ phase' = "down"
  /\ UNCHANGED <<inits, names, infomap, caps, lock, rs, opened, undefined>>

(* OnCDSInitialised: the root is entered, and numbers are given out from   *)
(* the first one on, whatever the maps hold from an earlier time.          *)
OnCDSInitialised ==
  /\ phase = "connecting"
  /\ lock = Nobody
  /\ names' = [object |-> Put(names.object, RootNumber, Root),
               number |-> Put(names.number, Root, RootNumber),
               next   |-> FirstNumber]
  /\ phase' = "caps"
  /\ UNCHANGED <<serverVars, inits, infomap, caps, lock, rs, opened, undefined>>

GetSearchCapabilities ==
  /\ phase = "caps"
  /\ \/ MayFail /\ phase' = "up"
     \/ UNCHANGED serverVars /\ phase' = "classes"
  /\ UNCHANGED <<inits, names, infomap, caps, lock, rs, opened, undefined>>

(* The root's search classes, if there is a root. *)
GetSearchClasses ==
  /\ phase = "classes"
  /\ \/ MayFail /\ UNCHANGED caps
     \/ /\ UNCHANGED serverVars
        /\ caps' = IF Found(ById(Root)) THEN DOMAIN FieldName ELSE caps
  /\ phase' = "up"
  /\ UNCHANGED <<inits, names, infomap, lock, rs, opened, undefined>>
-----------------------------------------------------------------------------
(***************************************************************************)
(* RecordsetOne: one object                                                *)
(***************************************************************************)

Starts(r, want) == /\ rs[r].at = "idle"
                   /\ want \in Wants[r]
                   /\ names.object # <<>>
                   /\ opened < MaxReads /\ opened' = opened + 1

Becomes(r, new) == rs' = [rs EXCEPT ![r] = new]

(* The constructor takes what the last listing told of the object. *)
OpenOne(r, want, k) ==
  /\ Starts(r, want) /\ Unlocked(r)
  /\ Becomes(r, [Fresh EXCEPT
       !.want = want, !.id = k,
       !.at = "one",
       !.basic = k \in DOMAIN infomap,
       !.rec = IF k \in DOMAIN infomap
               THEN [NoRecord EXCEPT !.type = infomap[k].type, !.title = infomap[k].title]
               ELSE NoRecord])
  /\ UNCHANGED <<serverVars, phase, inits, names, infomap, caps, lock, undefined>>

(* Type and title are at hand after a listing; all else is asked for.      *)
HasEnough(s) == s.basic /\ s.want # "url"

AfterTags(want) == IF want = "children" THEN "typed" ELSE "done"

ReadsBasic(r) ==
  /\ rs[r].at = "one" /\ HasEnough(rs[r])
  /\ Becomes(r, [rs[r] EXCEPT !.at = AfterTags(rs[r].want)])
  /\ UNCHANGED <<serverVars, phase, inits, names, infomap, caps, lock, opened, undefined>>

(* GetTags: whatever comes of the call, the record set has its tags now. *)
GetTags(r) ==
  /\ rs[r].at = "one" /\ ~HasEnough(rs[r]) /\ Unlocked(r)
  /\ LET s == [rs[r] EXCEPT !.at = AfterTags(rs[r].want), !.basic = TRUE]
     IN  \/ MayFail /\ Becomes(r, [s EXCEPT !.failed = TRUE])
         \/ /\ UNCHANGED serverVars
            /\ \E didl \in {BrowseMetadata(ObjectIdForId(rs[r].id))} :
                 Becomes(r, IF didl = <<>> THEN [s EXCEPT !.failed = TRUE]
                            ELSE [s EXCEPT !.rec = ToRecord(Head(didl))])
  /\ UNCHANGED <<phase, inits, names, infomap, caps, lock, opened, undefined>>

(* GetChildren: of a container, under the lock until the list is complete. *)
StartChildren(r) ==
  /\ rs[r].at = "typed"
  /\ IF IsContainer(rs[r].rec.type)
     THEN /\ lock = Nobody
          /\ lock' = r
          /\ infomap' = <<>>
          /\ Becomes(r, [rs[r] EXCEPT !.at = "ask", !.start = 0, !.calm = TRUE, !.whole = TRUE,
               !.before = ChildrenDidl(Children(ObjectIdForId(rs[r].id)))])
     ELSE /\ Becomes(r, [rs[r] EXCEPT !.at = "done"])
          /\ UNCHANGED <<lock, infomap>>
  /\ UNCHANGED <<serverVars, phase, inits, names, caps, opened, undefined>>

\* Mutation: the lock is kept.
GivesUp_Locked(r) ==
  /\ Becomes(r, [rs[r] EXCEPT !.at = "done", !.failed = TRUE])
  /\ UNCHANGED lock

(* When no answer comes in time, what there is of the list is all of it.   *)
GivesUp(r) ==
  /\ Becomes(r, [rs[r] EXCEPT !.at = "done", !.failed = TRUE])
  /\ lock' = Nobody

(* A call that is answered with an error, or whose connection is lost, is  *)
(* done, and so a success (SoapAction returns 0): it has no result, and    *)
(* the two numbers, which nobody has set, may end the list or not.         *)
Unanswered(r) ==
  \E more \in {0, 1} :
    /\ Becomes(r, [rs[r] EXCEPT !.at = "list", !.items = <<>>, !.failed = TRUE,
                                !.returned = 0, !.total = rs[r].start + more])
    /\ UNCHANGED lock

(* A page is asked for, and the server reads the list. *)
AskChildren(r) ==
  /\ rs[r].at = "ask"
  /\ LET o == ObjectIdForId(rs[r].id)
     IN  \/ MayFail /\ (GivesUp(r) \/ Unanswered(r))
         \/ /\ UNCHANGED serverVars
            /\ IF BrowseFails(o, rs[r].start) THEN Unanswered(r)
               ELSE \E page \in {ChildrenPage(o, rs[r].start, LUMP)} :
                        /\ Becomes(r, [rs[r] EXCEPT !.at = "page", !.items = page.ids,
                                                    !.returned = Len(page.ids), !.total = page.total])
                        /\ UNCHANGED lock
  /\ UNCHANGED <<phase, inits, names, infomap, caps, opened, undefined>>

\* Mutation: pages overlap.
NextStart_Overlaps(start) == start + LUMP - 1

(* Where the next page starts.  (Bound: past every list all are alike.)    *)
PastEvery(start) == \A d \in Databases : start > Len(Catalogue[d]) + Cardinality(Databases)
NextStart(start) == IF PastEvery(start) THEN start ELSE start + LUMP

IsLastPage(start, returned, total) == start + returned = total

(* The server reads the records of the page. *)
ReadChildren(r) ==
  /\ rs[r].at = "page"
  /\ Becomes(r, [rs[r] EXCEPT !.at = "list", !.items = ChildrenDidl(@)])
  /\ UNCHANGED <<serverVars, phase, inits, names, infomap, caps, lock, opened, undefined>>

(* The client gives a child its number, and notes what it was told of it.  *)
TakeChild(r) ==
  /\ rs[r].at = "list" /\ rs[r].items # <<>>
  /\ LET child == Head(rs[r].items)
     IN  /\ names' = Naming(names, child.id)
         /\ infomap' = Put(infomap, names'.number[child.id],
                          [type |-> ToRecord(child).type, title |-> child.title])
         /\ Becomes(r, [rs[r] EXCEPT !.children = Append(@, names'.number[child.id]),
                                     !.items = Tail(@)])
  /\ UNCHANGED <<serverVars, phase, inits, caps, lock, opened, undefined>>

EndPage(r) ==
  /\ rs[r].at = "list" /\ rs[r].items = <<>>
  /\ IF IsLastPage(rs[r].start, rs[r].returned, rs[r].total)
     THEN /\ Becomes(r, [rs[r] EXCEPT !.at = "done"])
          /\ lock' = Nobody
     ELSE /\ Becomes(r, [rs[r] EXCEPT !.at = "ask", !.start = NextStart(@)])
          /\ UNCHANGED lock
  /\ UNCHANGED <<serverVars, phase, inits, names, infomap, caps, opened, undefined>>
-----------------------------------------------------------------------------
(***************************************************************************)
(* SearchRecordset and CollateRecordset: a walk over results               *)
(***************************************************************************)

(* The criterion a walk sends. *)
Criterion(s) ==
  IF s.want = "search" THEN QueryElement(Queries[s.query])
  ELSE Relation("upnp:class", "=",
         CHOOSE class \in DOMAIN CollationOf : CollationOf[class] = s.query)

OpenSearch(r, q) ==
  /\ Starts(r, "search")
  /\ Becomes(r, [Fresh EXCEPT !.at = "fetch", !.want = "search", !.query = q])
  /\ UNCHANGED <<serverVars, phase, inits, names, infomap, caps, lock, undefined>>

(* CollateBy is refused for a field the server has not offered. *)
OpenCollate(r, field) ==
  /\ Starts(r, "collate")
  /\ field \in caps
  /\ Becomes(r, [Fresh EXCEPT !.at = "fetch", !.want = "collate", !.query = field])
  /\ UNCHANGED <<serverVars, phase, inits, names, infomap, caps, lock, undefined>>

IsEOF(s) == s.start + s.index = s.total

(* What a page makes of the record set. *)
WithPage(s, page) ==
  [s EXCEPT !.items = page.items,
            !.total = IF page.items = <<>> \/ page.total = 0 THEN s.start ELSE page.total]

(* GetSome: the walk moves on to the next page.  When no answer comes in   *)
(* time it is left without items, and with the old total; an error in the  *)
(* answer, or a lost connection, ends it here.                             *)
GetSome(r) ==
  /\ rs[r].at = "fetch"
  /\ LET s == [rs[r] EXCEPT !.at = "select", !.start = @ + rs[r].index, !.index = 0,
                            !.items = <<>>]
         c == Criterion(s)
     IN  \/ /\ MayFail
            /\ \/ Becomes(r, [s EXCEPT !.failed = TRUE])
               \/ Becomes(r, [s EXCEPT !.failed = TRUE, !.total = s.start])
         \/ /\ UNCHANGED serverVars
            /\ IF SearchFails(c) THEN Becomes(r, [s EXCEPT !.total = s.start])
               ELSE \E page \in {SearchPage(c, s.start, LUMP)} : Becomes(r, WithPage(s, page))
  /\ UNCHANGED <<phase, inits, names, infomap, caps, lock, opened, undefined>>

HasItem(s) == ~IsEOF(s) /\ s.index < Len(s.items)

(* SelectThisItem, or for a collation the reader's GetString.  There is no *)
(* item where the last page did not arrive.                                *)
SelectThisItem(r) ==
  /\ rs[r].at = "select"
  /\ LET s == rs[r]
     IN  IF IsEOF(s)
         THEN /\ Becomes(r, [s EXCEPT !.at = "done"])
              /\ UNCHANGED <<names, undefined>>
         ELSE IF ~HasItem(s)
         THEN /\ undefined' = TRUE
              /\ UNCHANGED <<names, rs>>
         ELSE LET item == s.items[s.index + 1]
                  named == IF s.want = "search" THEN Naming(names, item) ELSE names
              IN  /\ s.want = "search" => Unlocked(r)
                  /\ names' = named
                  /\ Becomes(r, [s EXCEPT !.at = "item",
                       !.children = Append(@, IF s.want = "search" THEN named.number[item]
                                              ELSE item)])
                  /\ UNCHANGED undefined
  /\ UNCHANGED <<serverVars, phase, inits, infomap, caps, lock, opened>>

(* MoveNext. *)
MoveNext(r) ==
  /\ rs[r].at = "item"
  /\ LET s == [rs[r] EXCEPT !.index = @ + 1]
     IN  Becomes(r, [s EXCEPT !.at = IF s.index = Len(s.items) /\ ~IsEOF(s)
                                     THEN "fetch" ELSE "select"])
  /\ UNCHANGED <<serverVars, phase, inits, names, infomap, caps, lock, opened, undefined>>
-----------------------------------------------------------------------------
Close(r) ==
  /\ rs[r].at = "done"
  /\ Becomes(r, Fresh)
  /\ UNCHANGED <<serverVars, phase, inits, names, infomap, caps, lock, opened, undefined>>

Reads(r) ==
  \/ ReadsBasic(r) \/ GetTags(r)
  \/ StartChildren(r) \/ AskChildren(r) \/ ReadChildren(r)
  \/ TakeChild(r) \/ EndPage(r)
  \/ GetSome(r) \/ SelectThisItem(r) \/ MoveNext(r)

Opens(r) ==
  \/ \E want \in {"title", "url", "children"}, k \in DOMAIN names.object : OpenOne(r, want, k)
  \/ \E q \in DOMAIN Queries : OpenSearch(r, q)
  \/ \E field \in DOMAIN FieldName : OpenCollate(r, field)

(* The databases change: readers remember whether anything did since they  *)
(* began, and whether anything went away.                                  *)
Change ==
  /\ \/ /\ Grows \/ \E i \in DOMAIN Catalogue["local"] : Retitle(i)
        /\ rs' = [r \in Readers |-> IF rs[r].at = "idle" THEN rs[r]
                                    ELSE [rs[r] EXCEPT !.calm = FALSE]]
     \/ /\ Shrinks
        /\ rs' = [r \in Readers |-> IF rs[r].at = "idle" THEN rs[r]
                                    ELSE [rs[r] EXCEPT !.calm = FALSE, !.whole = FALSE]]
  /\ UNCHANGED <<phase, inits, names, infomap, caps, lock, opened, undefined>>

Connects == InitConnection \/ InitFails \/ OnCDSInitialised
              \/ GetSearchCapabilities \/ GetSearchClasses

(* After undefined behaviour nothing more is said. *)
Next ==
  /\ ~undefined
  /\ \/ Connects
     \/ \E r \in Readers : Opens(r) \/ Reads(r) \/ Close(r)
     \/ Change

(* A reader that can go on goes on: weak fairness of Reads(r), spelled out *)
(* because its ENABLED, which is Ready(r), would be slow to evaluate.      *)
(* Calls of the server come to an end, with an error after a time.         *)
Ready(r) ==
  /\ ~undefined
  /\ CASE rs[r].at \in {"idle", "done"} -> FALSE
       [] rs[r].at = "one"    -> HasEnough(rs[r]) \/ Unlocked(r)
       [] rs[r].at = "typed"  -> IsContainer(rs[r].rec.type) => lock = Nobody
       [] rs[r].at = "select" -> rs[r].want = "search" /\ HasItem(rs[r]) => Unlocked(r)
       [] OTHER               -> TRUE

Fairness == \A r \in Readers : []<>~Ready(r) \/ []<><<Reads(r)>>_vars

Spec == Init /\ [][Next]_vars /\ Fairness
-----------------------------------------------------------------------------
(***************************************************************************)
(* Properties                                                              *)
(***************************************************************************)

TypeOK ==
  /\ phase \in {"down", "connecting", "caps", "classes", "up"}
  /\ DOMAIN names.object \subseteq 0..(Cardinality(DOMAIN names.number) - 1)
  /\ caps \subseteq DOMAIN FieldName
  /\ lock \in Readers \cup {Nobody} /\ undefined \in BOOLEAN
  /\ \A r \in Readers :
       /\ rs[r].at \in {"idle", "one", "typed", "ask", "page", "list", "fetch", "select", "item", "done"}
       /\ rs[r].at \in {"ask", "page", "list"} <=> lock = r
       /\ rs[r].index \in 0..LUMP

(* Numbers and object ids are still inverse: no number was given out       *)
(* twice.                                                                  *)
Unaliased == \A o \in DOMAIN names.number : names.object[names.number[o]] = o

(* "clients are entitled to believe that a mediadb::ID ... is enough to    *)
(* uniquely identify a record, so we keep them indefinitely"               *)
(* (connection.h): an object keeps its number whatever else is listed and  *)
(* searched for, by whom and how often the connection is made; and a       *)
(* number keeps its object if the connection is made once.  (When it is    *)
(* made again numbers are given out again from the first one on.)          *)
NamesAreForever ==
  [][/\ \A o \in DOMAIN names.number : o \in DOMAIN names'.number /\ names'.number[o] = names.number[o]
     /\ inits < 2 => \A k \in DOMAIN names.object : names'.object[k] = names.object[k]]_vars

Finished(r, want) == rs[r].at = "done" /\ rs[r].want = want /\ ~rs[r].failed /\ Unaliased

ObjectsOf(numbers) == [j \in DOMAIN numbers |-> names.object[numbers[j]]]
ObjectIds(didl) == [j \in DOMAIN didl |-> didl[j].id]

(* A list that was read while nothing changed has the children that the    *)
(* server has, in their order, each once, in whatever slot their database  *)
(* is; and if nothing went away meanwhile it misses none of them.          *)
ListingIsRight(r) ==
  Finished(r, "children") =>
    /\ rs[r].calm  => ObjectsOf(rs[r].children) = ObjectIds(rs[r].before)
    /\ rs[r].whole => Range(ObjectIds(rs[r].before)) \subseteq Range(ObjectsOf(rs[r].children))

(* The type under which a client knows a record. *)
Seen(type) == CASE type \in {"SPOKEN", "TUNEHIGH"} -> "TUNE" [] OTHER -> type

Preference(codec) == SelectInSeq(CodecPreference, LAMBDA c : c = CodecOfMime(codec))

(* What was read of an object is true of it: its type, a title that it has *)
(* or had, and with nothing changed meanwhile the URL of its best encoding *)
(* in the client's order.                                                  *)
LookIsRight(r) ==
  LET o == names.object[rs[r].id]
      got == rs[r].rec
      encodings == {o} \cup ({ById(o).high} \ {Root})
  IN  /\ Finished(r, "title") /\ Found(ById(o)) =>
           got.type = Seen(ById(o).type) /\ got.title <= ById(o).title
      /\ Finished(r, "url") /\ rs[r].calm =>
           /\ got.title = ById(o).title
           /\ IF IsContainer(ById(o).type) THEN got.url = NoURL
              ELSE /\ got.url \in encodings
                   /\ \A e \in encodings : Preference(ById(got.url).codec) <= Preference(ById(e).codec)

(* What a search over the wire finds is what the expression means here, in *)
(* the order of the first database; what cannot be asked finds nothing.    *)
(* A collation gives each value of the tunes once, in order.  Where the    *)
(* first database is that of a Receiver server, a comparison for equality  *)
(* finds its tunes; all other searches find nothing that there is, and a   *)
(* collation has no values.                                                *)
WalkIsRight(r) ==
  /\ Finished(r, "search") /\ rs[r].calm =>
       LET e == Queries[rs[r].query]
           found == ObjectsOf(rs[r].children)
       IN  IF ~Askable(e) THEN found = <<>>
           ELSE IF ~ReceiverComesFirst THEN found = Fitting(e)
           ELSE IF IsEquality(e) THEN found = Fitting(AmongTunes(e))
           ELSE \A o \in Range(found) : ~Found(ById(o))
  /\ Finished(r, "collate") /\ rs[r].calm =>
       rs[r].children = IF ReceiverComesFirst THEN <<>>
                        ELSE FittingValues(Restriction("type", "EQ", "TUNE"), rs[r].query)

(* Listings, looks and walks give what there is, and everything has its    *)
(* type.  A walk reads past the end of a page only after a call that was   *)
(* not answered in time.                                                   *)
ReadsAreRight ==
  /\ TypeOK
  /\ undefined => \E r \in Readers : rs[r].failed
  /\ \A r \in Readers : ListingIsRight(r) /\ LookIsRight(r) /\ WalkIsRight(r)

(* A listing that goes on after a call that failed may never see its total *)
(* and keeps the lock.  Every other one comes to its end and lets the      *)
(* others go on, and everyone else comes to theirs unless they wait for a  *)
(* listing.                                                                *)
Endless == \E r \in Readers : rs[r].failed /\ rs[r].at \in {"ask", "page", "list"}

EveryReadEnds ==
  /\ lock # Nobody ~> lock = Nobody \/ undefined \/ Endless
  /\ \A r \in Readers :
       rs[r].at \notin {"idle", "done"} ~> rs[r].at = "done" \/ lock # Nobody \/ undefined
=============================================================================
