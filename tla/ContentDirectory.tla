-------------------------- MODULE ContentDirectory --------------------------
(***************************************************************************)
(* The server's content directory (libupnpd/content_directory.cpp): Browse *)
(* and Search over the merged database, a page at a time, and DIDL-Lite,   *)
(* in which the records travel (libmediadb/didl.cpp).                      *)
(*                                                                         *)
(* A query crosses the wire as a UPnP search criterion: the client writes  *)
(* its expression (db::upnp::Query, libdbupnp/query.cpp), the server       *)
(* parses that and builds an expression of its own database from it        *)
(* (upnpd::ApplySearchCriteria, libupnpd/search.cpp).  A criterion is its  *)
(* parse tree: a relation "field op literal", or two criteria in           *)
(* parentheses with "and" or "or" between them.  Values are numbers that   *)
(* stand for strings in their order; 0 is the empty string.                *)
(*                                                                         *)
(* An object id is the id in decimal, and "0" is the root.  A page of      *)
(* DIDL-Lite is a sequence of elements: object id, title, class and, when  *)
(* they are asked for, artist, album and the resources, from which the     *)
(* client picks the encoding that it likes best.                           *)
(***************************************************************************)
EXTENDS MergedDb

CONSTANTS
  Unquotable, (* values whose quoted form cannot be read back: they end in *)
              (* a backslash                                               *)
  Within      (* pairs <<u, v>>: the text of u occurs in that of v         *)

(* An expression of db::Query: Restrict, And and Or. *)
Restriction(which, rt, val) == [which |-> which, rt |-> rt, val |-> val]
Relate(anditive, a, b) == [anditive |-> anditive, a |-> a, b |-> b]
And(a, b) == Relate(TRUE, a, b)
Or(a, b)  == Relate(FALSE, a, b)
IsRelation(e) == "anditive" \in DOMAIN e

(* No expression: Subexpression(), and as a criterion the empty text. *)
Nothing == [nothing |-> TRUE]
IsNothing(e) == "nothing" \in DOMAIN e
-----------------------------------------------------------------------------
(***************************************************************************)
(* The client's criteria                                                   *)
(***************************************************************************)

FieldName == [artist |-> "upnp:artist", album |-> "upnp:album", genre |-> "upnp:genre"]

Operator == [EQ |-> "=", NE |-> "!=", GT |-> ">", GE |-> ">=",
             LT |-> "<", LE |-> "<=", LIKE |-> "contains"]

Relation(field, op, literal) == [field |-> field, op |-> op, literal |-> literal]

(* The text of an expression.  A field that cannot be searched for leaves  *)
(* a hole in it.                                                           *)
RECURSIVE QueryElement(_)
QueryElement(e) ==
  IF IsNothing(e) THEN Nothing
  ELSE IF IsRelation(e) THEN Relate(e.anditive, QueryElement(e.a), QueryElement(e.b))
  ELSE IF e.which \notin DOMAIN FieldName THEN Nothing
  ELSE Relation(FieldName[e.which], Operator[e.rt], e.val)
-----------------------------------------------------------------------------
(***************************************************************************)
(* The server's expressions                                                *)
(***************************************************************************)

(* The grammar takes the whole text. *)
RECURSIVE Parses(_)
Parses(c) ==
  IF IsNothing(c) THEN FALSE
  ELSE IF IsRelation(c) THEN Parses(c.a) /\ Parses(c.b)
  ELSE c.field = "upnp:class" \/ c.literal \notin Unquotable

FieldOf(name) ==
  CASE name = "upnp:class"  -> "type"
    [] name = "upnp:artist" -> "artist"
    [] name = "upnp:album"  -> "album"
    [] name = "upnp:genre"  -> "genre"
    [] name = "dc:title"    -> "title"
    [] OTHER                -> "none"

(* "exists" becomes a comparison with the empty string, and stays EQ       *)
(* whether it says true or false: op is changed there, not rt.             *)
RestrictionType(op) ==
  CASE op \in {"=", "derivedfrom", "exists"} -> "EQ"
    [] op = "!="       -> "NE"
    [] op = "<"        -> "LT"
    [] op = ">"        -> "GT"
    [] op = "<="       -> "LE"
    [] op = ">="       -> "GE"
    [] op = "contains" -> "LIKE"
    [] OTHER           -> "none"

(* The classes that ask for a collation, and the types of the others.      *)
CollationOf == [musicArtist |-> "artist", musicGenre |-> "genre", musicAlbum |-> "album"]
TypeNamed == [playlistContainer |-> "PLAYLIST", storageFolder |-> "DIR",
              musicTrack |-> "TUNE", audioItem |-> "TUNE",
              audioBroadcast |-> "RADIO", photo |-> "IMAGE"]

TranslateRelation(c) ==
  LET which == FieldOf(c.field)
      rt == RestrictionType(c.op)
  IN  IF "none" \in {which, rt} THEN Nothing
      ELSE IF c.op = "exists" THEN Restriction(which, rt, 0)
      ELSE IF which # "type" THEN Restriction(which, rt, c.literal)
      ELSE IF c.literal \in DOMAIN CollationOf THEN Restriction("type", "EQ", "TUNE")
      ELSE IF c.literal \in DOMAIN TypeNamed THEN Restriction("type", rt, TypeNamed[c.literal])
      ELSE Nothing

(* What cannot be translated restricts nothing. *)
RECURSIVE Translate(_)
Translate(c) ==
  IF ~IsRelation(c) THEN TranslateRelation(c)
  ELSE LET lhs == Translate(c.a)
           rhs == Translate(c.b)
       IN  IF IsNothing(lhs) THEN rhs
           ELSE IF IsNothing(rhs) THEN lhs
           ELSE Relate(c.anditive, lhs, rhs)

(* The field the criterion collates by, if any. *)
RECURSIVE Collates(_)
Collates(c) ==
  IF IsRelation(c) THEN Collates(c.a) \cup Collates(c.b)
  ELSE IF c.field = "upnp:class" /\ c.literal \in DOMAIN CollationOf
       THEN {CollationOf[c.literal]} ELSE {}
-----------------------------------------------------------------------------
Compare(rt, v, val) ==
  CASE rt = "EQ"   -> v = val
    [] rt = "NE"   -> v # val
    [] rt = "LT"   -> v < val
    [] rt = "GT"   -> v > val
    [] rt = "LE"   -> v <= val
    [] rt = "GE"   -> v >= val
    [] rt = "LIKE" -> <<val, v>> \in Within

(* Whether a record satisfies an expression (a server's LIKE is ".*v.*").  *)
RECURSIVE Matches(_, _)
Matches(e, rec) ==
  IF IsNothing(e) THEN TRUE
  ELSE IF IsRelation(e)
       THEN IF e.anditive THEN Matches(e.a, rec) /\ Matches(e.b, rec)
                          ELSE Matches(e.a, rec) \/ Matches(e.b, rec)
       ELSE Compare(e.rt, rec[e.which], e.val)

(* The expressions that can be asked over the wire. *)
RECURSIVE Askable(_)
Askable(e) ==
  IF IsNothing(e) THEN FALSE
  ELSE IF IsRelation(e) THEN Askable(e.a) /\ Askable(e.b)
  ELSE e.which \in DOMAIN FieldName /\ e.val \notin Unquotable
-----------------------------------------------------------------------------
(***************************************************************************)
(* DIDL-Lite                                                               *)
(***************************************************************************)

(* Types that have a class of their own; all others are music tracks. *)
ClassOf(type) ==
  CASE type = "DIR"      -> "storageFolder"
    [] type = "PLAYLIST" -> "playlistContainer"
    [] type = "RADIO"    -> "audioBroadcast"
    [] type = "IMAGE"    -> "photo"
    [] type = "TV"       -> "videoBroadcast"
    [] type = "VIDEO"    -> "videoItem"
    [] type = "FILE"     -> "item"
    [] OTHER             -> "musicTrack"

TypeOfClass ==
  [audioBroadcast |-> "RADIO", musicTrack |-> "TUNE", videoBroadcast |-> "TV",
   photo |-> "IMAGE", videoItem |-> "VIDEO", playlistContainer |-> "PLAYLIST",
   storageFolder |-> "DIR", item |-> "FILE",
   musicArtist |-> "DIR", musicAlbum |-> "DIR", musicGenre |-> "DIR"]

(* What becomes of an encoding that is named by its MIME type. *)
CodecOfMime(codec) ==
  CASE codec \in {"MP2", "MP3"} -> "MP3"
    [] codec \in {"FLAC", "VORBIS", "PCM", "WAV"} -> codec
    [] OTHER -> "NONE"

CodecPreference == <<"FLAC", "WAV", "PCM", "MP3", "VORBIS", "NONE">>

IsContainer(type) == type \in {"DIR", "PLAYLIST"}

(* ResItem, for the record and for its better encoding if that exists. *)
Resources(id, rec) ==
  <<[codec |-> CodecOfMime(rec.codec), url |-> id]>>
    \o (IF rec.high # Root /\ Found(ById(rec.high))
        THEN <<[codec |-> CodecOfMime(ById(rec.high).codec), url |-> rec.high]>> ELSE <<>>)

(* FromRecord, with the filter "*" or without any. *)
FromRecord(id, everything) ==
  LET rec == ById(id)
      track == everything /\ ~IsContainer(rec.type)
  IN  [id |-> id, title |-> rec.title, class |-> ClassOf(rec.type),
       artist |-> IF track THEN rec.artist ELSE 0,
       album |-> IF track THEN rec.album ELSE 0,
       res |-> IF track THEN Resources(id, rec) ELSE <<>>]

(* The URL of the preferred encoding; of several with one codec, the last. *)
PreferredURL(res) ==
  LET of(codec) == {i \in DOMAIN res : res[i].codec = codec}
      best == CHOOSE n \in DOMAIN CodecPreference :
                /\ of(CodecPreference[n]) # {}
                /\ \A m \in 1..(n - 1) : of(CodecPreference[m]) = {}
  IN  res[CHOOSE i \in of(CodecPreference[best]) :
            \A j \in of(CodecPreference[best]) : j <= i].url

NoURL == <<>>

ToRecord(didl) == [type |-> TypeOfClass[didl.class], title |-> didl.title,
                   artist |-> didl.artist, album |-> didl.album,
                   url |-> IF didl.res = <<>> THEN NoURL ELSE PreferredURL(didl.res)]
-----------------------------------------------------------------------------
(***************************************************************************)
(* Browse and Search                                                       *)
(***************************************************************************)

(* BrowseMetadata: the element of the object, or ENOENT. *)
BrowseMetadata(o) == IF Found(ById(o)) THEN <<FromRecord(o, TRUE)>> ELSE <<>>

Clipped(s, from, count) == SubSeq(s, from + 1, IF from + count > Len(s) THEN Len(s) ELSE from + count)

(* BrowseDirectChildren, the first half: which children make up the page.  *)
BrowseFails(o, start) == ~Found(ById(o)) \/ start > Len(Children(o))
ChildrenPage(o, start, count) == [ids |-> Clipped(Children(o), start, count),
                                  total |-> Len(Children(o))]

(* The second half: their records are read one by one, and those that are  *)
(* gone by then are left out, though number_returned counts them.          *)
ChildrenDidl(ids) == LET there == SelectSeq(ids, LAMBDA id : Found(ById(id)))
                     IN  [j \in DOMAIN there |-> FromRecord(there[j], FALSE)]

(* What there is in slot 0 of what an expression means, and the values of  *)
(* a field in that, each once, in their order.                             *)
Fitting(e) == SelectSeq(FirstRows, LAMBDA id : \E q \in {e}, rec \in {ById(id)} : Matches(q, rec))
FittingValues(e, field) ==
  SetToSortSeq({ById(id)[field] : id \in Range(Fitting(e))}, LAMBDA v, w : v < w)

(* The Receiver protocol (libdbreceiver/query.cpp) knows one restriction   *)
(* alone, and its server only tests of a text for equality, among tunes.   *)
(* Anything else that it is asked gets the page that says that there is    *)
(* nothing, which is long enough for three records: their ids, made of its *)
(* letters, are in slots that do not exist.                                *)
Simple(e) == ~IsNothing(e) /\ ~IsRelation(e)
IsEquality(e) == Simple(e) /\ e.rt = "EQ" /\ e.which \in DOMAIN FieldName \cup {"title"}
AmongTunes(e) == And(e, Restriction("type", "EQ", "TUNE"))
Rubbish == <<Tag(52, 1), Tag(116, 1), Tag(32, 1)>>

ReceiverFinds(e) ==
  IF IsEquality(e) THEN Fitting(AmongTunes(e)) ELSE IF Simple(e) THEN Rubbish ELSE <<>>

Selected(e) == IF ReceiverComesFirst THEN ReceiverFinds(e) ELSE Fitting(e)

(* A collation always has a restriction to tunes, which to a Receiver      *)
(* server is the field to collate by, and unknown: its page has no values. *)
Collated(e, field) == IF ReceiverComesFirst THEN <<>> ELSE FittingValues(e, field)

(* Search: rows from start on, and how many there are in all. *)
SearchFails(c) == ~Parses(c)
Rows(c) == IF Collates(c) = {} THEN Selected(Translate(c))
           ELSE Collated(Translate(c), CHOOSE f \in Collates(c) : TRUE)
SearchPage(c, start, count) ==
  [items |-> IF start > Len(Rows(c)) THEN <<>> ELSE Clipped(Rows(c), start, count),
   total |-> Len(Rows(c))]
=============================================================================
