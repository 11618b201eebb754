-------------------------- MODULE ReceiverLibrary --------------------------
(***************************************************************************)
(* A library read through the protocol of the Rio Receivers: what the      *)
(* server makes of a request (libreceiverd/content_factory.cpp) and what a *)
(* client's record set makes of the answer (libdbreceiver).  A record set  *)
(* asks when it is first read, with one request for the tags and one for   *)
(* the children, and keeps what it got; between the two the library may    *)
(* change, and a request may fail.                                         *)
(*                                                                         *)
(* Answers are sequences of bytes, a word that both ends know (a type, a   *)
(* codec, the beginning of a line) being one symbol above them.            *)
(***************************************************************************)
EXTENDS Integers, FiniteSetsExt, SequencesExt

CONSTANTS
  Shelf,       \* the records of the library at first: a function of their ids
  Editions,    \* <<id, record>>: what a record may be changed into
  Collating,   \* the values of text fields, in the order of the database
  Requests,    \* the queries that are tried
  MaxMishaps   \* changes of the library and lost requests

VARIABLES
  shelf,    \* the server's library
  service,  \* "none", "announced" or, once its tags are known, "open"
  set,      \* the client's record set
  seen,     \* what the answers were made from, if they came
  mishaps

receiverVars == <<shelf, service, set, seen, mishaps>>

ListTypes  == {"DIR", "PLAYLIST"}
TuneTypes  == {"TUNE", "SPOKEN", "RADIO"}
TextFields == {"TITLE", "ARTIST", "ALBUM"}  \* the others go the same way

NoSet == [kind |-> "closed", id |-> 0, at |-> "idle", want |-> "tags", got |-> {},
           fields |-> <<>>, children |-> <<>>, content |-> <<>>,
           counts |-> 0, recno |-> 0, eof |-> TRUE]
Unseen == [of |-> 0, tags |-> <<>>, kids |-> <<>>, found |-> <<>>]

ReceiverInit ==
  /\ service \in {"none", "announced"}
  /\ shelf = IF service = "none" THEN <<>> ELSE Shelf
  /\ set = NoSet /\ seen = Unseen
  /\ mishaps = 0
-----------------------------------------------------------------------------
(***************************************************************************)
(* What is on the wire                                                     *)
(***************************************************************************)

Byte == 256
Little(n) == <<n % Byte, (n \div Byte) % Byte, (n \div Byte^2) % Byte, n \div Byte^3>>
LittleAt(bytes, i) == bytes[i] + bytes[i + 1] * Byte + bytes[i + 2] * Byte^2 + bytes[i + 3] * Byte^3
Zeros == <<0, 0, 0, 0>>

Words == <<"tune", "playlist", "image", "video", "unknown", "mp3", "flac", "wave", "vs", "matches=", "1,0,0">>
Word(w) == <<Byte + CHOOSE i \in DOMAIN Words : Words[i] = w>>
LineEnd == 10
Colon   == 58

Decimal[n \in Nat] == IF n < 10 THEN <<48 + n>> ELSE Append(Decimal[n \div 10], 48 + (n % 10))

\* strtoul: as far as there are digits.
Numeral(text) ==
  FoldLeft(LAMBDA acc, c : IF acc.on /\ c \in 48..57 THEN [acc EXCEPT !.n = 10 * @ + c - 48]
                                                     ELSE [acc EXCEPT !.on = FALSE],
           [n |-> 0, on |-> TRUE], text).n

\* The page that is sent for want of a stream; the client never looks at the
\* status line.  All that matters is that it begins with "<" and a letter.
NotFoundPage == [i \in 1..36 |-> IF i = 1 THEN 60 ELSE 105]

(* The numbers of the tags, and the list that tells a client.              *)
Tags == <<"FID", "TITLE", "ARTIST", "SOURCE", "TRACKNR", "GENRE", "YEAR", "DURATION", "CODEC", "LENGTH",
          "BITRATE", "SAMPLERATE", "TYPE", "MOOD", "ORIGINALARTIST", "REMIXED", "CONDUCTOR", "COMPOSER",
          "ENSEMBLE", "LYRICIST">>
TagNumber(t) == (CHOOSE i \in DOMAIN Tags : Tags[i] = t) - 1

tagstring == <<"fid", "title", "artist", "source", "tracknr", "genre", "year", "duration", "codec", "length",
               "bitrate", "samplerate", "type", "mood", "originalartist", "remixed", "conductor", "composer",
               "ensemble", "lyricist">>
-----------------------------------------------------------------------------
(***************************************************************************)
(* The server                                                              *)
(***************************************************************************)

AddString(tag, s) == IF s = <<>> THEN <<>> ELSE <<TagNumber(tag), Len(s) % Byte>> \o s
AddInt(tag, n)    == IF n = 0 THEN <<>> ELSE AddString(tag, Decimal[n])

TypeWord(type) ==
  CASE type \in ListTypes -> "playlist" [] type = "IMAGE" -> "image" [] type = "VIDEO" -> "video"
    [] type = "FILE" -> "unknown" [] OTHER -> "tune"
CodecWord(codec) == CASE codec = "FLAC" -> "flac" [] codec = "WAV" -> "wave" [] OTHER -> "mp3"

TagsStream(id) ==
  IF id \notin DOMAIN shelf THEN NotFoundPage ELSE
  LET r == shelf[id]
  IN AddInt("FID", id) \o AddString("TITLE", r.text["TITLE"]) \o AddString("TYPE", Word(TypeWord(r.type)))
     \o (IF r.type \in ListTypes THEN <<>>
         ELSE AddString("CODEC", Word(CodecWord(r.codec))) \o AddInt("LENGTH", r.size)
              \o AddString("BITRATE", Word("vs") \o Decimal[r.rate]) \o AddString("ARTIST", r.text["ARTIST"])
              \o AddString("SOURCE", r.text["ALBUM"]))
     \o <<Byte - 1>>

(* The members of a list that are offered: to a client that takes UTF-8    *)
(* every tune, by the number of its better encoding; else those in MP3.    *)
Offered(k, utf8) ==
  /\ k \in DOMAIN shelf
  /\ \/ shelf[k].type \in ListTypes
     \/ shelf[k].type \in TuneTypes /\ (utf8 \/ shelf[k].codec = "MP3")
Upgraded(k, utf8) == IF utf8 /\ shelf[k].high # 0 THEN shelf[k].high ELSE k

\* As lines, which real Receivers ask for, and as the pairs this client asks for.
ContentLines(list, utf8) ==
  LET offered == SelectSeq(shelf[list].kids, LAMBDA k : Offered(k, utf8))
  IN [i \in DOMAIN offered |-> [id |-> Upgraded(offered[i], utf8), list |-> shelf[offered[i]].type \in ListTypes]]
ContentStream(id) ==
  IF id \notin DOMAIN shelf THEN NotFoundPage ELSE
  <<Byte - 1, 2, 0, 0>> \o FlattenSeq([i \in DOMAIN ContentLines(id, FALSE) |->
                                         Little(ContentLines(id, FALSE)[i].id) \o Zeros])

(* All tunes at and below an item, as Receivers ask for them to play them; *)
(* a better encoding is only sent if it is there.                          *)
RECURSIVE Flatten(_, _)
Flatten(id, upgrade) ==
  IF id \notin DOMAIN shelf THEN <<>>
  ELSE IF shelf[id].type \in ListTypes
       THEN FlattenSeq([i \in DOMAIN shelf[id].kids |-> Flatten(shelf[id].kids[i], upgrade)])
       ELSE IF shelf[id].type \notin TuneTypes THEN <<>>
            ELSE IF Upgraded(id, upgrade) \in DOMAIN shelf THEN <<Upgraded(id, upgrade)>> ELSE <<id>>
ListStream(id, utf8) ==
  LET tunes == Flatten(id, utf8)
  IN [i \in 1..Min({999, Len(tunes)}) |-> [fid |-> tunes[i], length |-> shelf[tunes[i]].size]]

(* The fields that can be asked about, and how a request is read: up to    *)
(* the first "=", so that any other comparison spoils the name.            *)
Restrictable == [title |-> "TITLE", artist |-> "ARTIST", source |-> "ALBUM"]
Understood(pair) == pair.op = "EQ" /\ pair.name \in DOMAIN Restrictable

Matching(field, value, whole) ==
  SetToSortSeq({k \in DOMAIN shelf : shelf[k].type = "TUNE" /\ IsPrefix(value, shelf[k].text[field])
                                       /\ (whole => value = shelf[k].text[field])}, <)

ResultsStream(pair) ==
  IF ~Understood(pair) THEN NotFoundPage ELSE
  LET ids == Matching(Restrictable[pair.name], pair.value, TRUE)
  IN FlattenSeq([i \in DOMAIN ids |-> Little(ids[i]) \o Little(shelf[ids[i]].size) \o Zeros])

\* Each value of the field that begins with what was sent, once.
QueryStream(pairs) ==
  IF ~Understood(pairs[1]) THEN NotFoundPage ELSE
  LET field  == Restrictable[pairs[1].name]
      ids    == Matching(field, pairs[1].value, FALSE)
      values == SelectSeq(Collating, LAMBDA v : \E i \in DOMAIN ids : shelf[ids[i]].text[field] = v)
  IN Word("matches=") \o <<LineEnd>>
       \o FlattenSeq([i \in DOMAIN values |-> Word("1,0,0") \o <<Colon>> \o values[i] \o <<LineEnd>>])
-----------------------------------------------------------------------------
(***************************************************************************)
(* The client                                                              *)
(***************************************************************************)

tagmap == [fid |-> "ID", tracknr |-> "TRACKNUMBER", length |-> "SIZEBYTES", duration |-> "DURATIONMS",
           samplerate |-> "SAMPLERATE", type |-> "TYPE", title |-> "TITLE", artist |-> "ARTIST", year |-> "YEAR",
           genre |-> "GENRE", source |-> "ALBUM", codec |-> "AUDIOCODEC", mood |-> "MOOD", bitrate |-> "BITSPERSEC"]
GetFieldName(field) ==
  IF \E n \in DOMAIN tagmap : tagmap[n] = field THEN CHOOSE n \in DOMAIN tagmap : tagmap[n] = field ELSE ""

\* What a tag is by its place in the server's list; "ID" is 0, as is a tag
\* that is not there.
MediaField(tag) ==
  IF tag + 1 \in DOMAIN tagstring /\ tagstring[tag + 1] \in DOMAIN tagmap THEN tagmap[tagstring[tag + 1]] ELSE "ID"

Store(fields, field, text) ==
  CASE text = <<>> \/ field = "ID" -> fields
    [] field = "TYPE" -> (field :> CASE text = Word("tune") -> "TUNE" [] text = Word("playlist") -> "PLAYLIST"
                                     [] OTHER -> "FILE") @@ fields
    [] field = "AUDIOCODEC" -> IF text = Word("mp3") THEN (field :> "MP3") @@ fields
                               ELSE IF text = Word("flac") THEN (field :> "FLAC") @@ fields ELSE fields
    [] OTHER -> (field :> text) @@ fields

\* The fields of an answer, from byte i on.
Parsed(bytes) ==
  LET from[i \in Nat] ==
        IF i >= Len(bytes) \/ bytes[i + 1] > Len(bytes) - i + 3 THEN <<>>
        ELSE <<[field |-> MediaField(bytes[i]), text |-> SubSeq(bytes, i + 2, Min({i + 1 + bytes[i + 1], Len(bytes)}))]>>
               \o from[i + 2 + bytes[i + 1]]
  IN FoldLeft(LAMBDA acc, f : Store(acc, f.field, f.text), <<>>, from[1])

\* Mutation: the mark of the new playlists is taken for the first of them.
ChildVector_KeepsMark(content) == [i \in 1..(Len(content) \div 8) |-> LittleAt(content, 8 * i - 7)]
ChildVector(content) ==
  IF Len(content) > 4 /\ content[1] = Byte - 1 /\ content[2] = 2
  THEN [i \in 1..((Len(content) - 4) \div 8) |-> LittleAt(content, 8 * i - 3)]
  ELSE [i \in 1..(Len(content) \div 4) |-> LittleAt(content, 4 * i - 3)]

\* boost::tokenizer leaves out the empty ones.
Tokens(text) ==
  LET cut == FoldLeft(LAMBDA acc, c : IF c \in {Colon, LineEnd} THEN Append(acc, <<>>)
                                      ELSE [acc EXCEPT ![Len(acc)] = Append(@, c)], <<<<>>>>, text)
  IN SelectSeq(cut, LAMBDA t : t # <<>>)
Collation(text) ==
  FoldLeft(LAMBDA acc, t : IF acc.value THEN [acc EXCEPT !.values = Append(@, t), !.value = FALSE]
                           ELSE IF t = Word("1,0,0") THEN [acc EXCEPT !.counts = @ + 1, !.value = TRUE] ELSE acc,
           [counts |-> 0, values |-> <<>>, value |-> FALSE], Tokens(text))
-----------------------------------------------------------------------------
(***************************************************************************)
(* Steps                                                                   *)
(***************************************************************************)

\* An answer comes, or nothing does; which of the two is never looked at.
Comes(answer, body) ==
  \/ answer = body /\ UNCHANGED mishaps
  \/ answer # body /\ mishaps < MaxMishaps /\ mishaps' = mishaps + 1
Answers(body) == {body, <<>>}

LearnTags ==
  /\ service = "announced"
  /\ \/ service' = "open" /\ UNCHANGED mishaps
     \/ mishaps < MaxMishaps /\ mishaps' = mishaps + 1 /\ UNCHANGED service
  /\ UNCHANGED <<shelf, set, seen>>

Pair(r) == [name |-> GetFieldName(r.field), op |-> r.op, value |-> r.value]
TunesWith(field, value) ==
  SetToSortSeq({k \in DOMAIN shelf : shelf[k].type = "TUNE" /\ shelf[k].text[field] = value}, <)
ValuesOfTunes(field) ==
  SelectSeq(Collating, LAMBDA v : \E k \in DOMAIN shelf : shelf[k].type = "TUNE" /\ shelf[k].text[field] = v)

RecordsetOne(id) ==
  /\ set' = [NoSet EXCEPT !.kind = "one", !.id = id, !.eof = id = 0]
  /\ seen' = Unseen
  /\ UNCHANGED mishaps

RestrictionRecordset(r) ==
  \E answer \in Answers(ResultsStream(Pair(r))) :
    /\ Comes(answer, ResultsStream(Pair(r)))
    /\ set' = [NoSet EXCEPT !.kind = "restriction", !.content = answer, !.eof = answer = <<>>,
                             !.id = IF answer = <<>> THEN 0 ELSE LittleAt(answer, 1)]
    /\ seen' = [Unseen EXCEPT !.found = IF Understood(Pair(r)) /\ answer = ResultsStream(Pair(r))
                                        THEN <<TunesWith(r.field, r.value)>> ELSE <<>>]

CollateRecordset(where, field) ==
  LET pairs == Append([i \in DOMAIN where |-> Pair(where[i])], [name |-> GetFieldName(field), op |-> "EQ", value |-> <<>>])
  IN \E answer \in Answers(QueryStream(pairs)) :
       /\ Comes(answer, QueryStream(pairs))
       /\ LET c == Collation(answer)
          IN set' = [NoSet EXCEPT !.kind = "collate", !.content = c.values, !.counts = c.counts, !.eof = c.counts = 0]
       /\ seen' = [Unseen EXCEPT !.found = IF where = <<>> /\ answer # <<>> THEN <<ValuesOfTunes(field)>> ELSE <<>>]

\* Query::Execute; of anything else there is no record set.
Execute(q) ==
  /\ service = "open" /\ set.kind = "closed"
  /\ LET byId == Len(q.where) = 1 /\ q.where[1].field = "ID" /\ q.where[1].op = "EQ"
     IN \/ byId /\ RecordsetOne(q.where[1].value)
        \/ ~byId /\ q.collate # <<>> /\ CollateRecordset(q.where, q.collate[1])
        \/ ~byId /\ q.collate = <<>> /\ Len(q.where) = 1 /\ RestrictionRecordset(q.where[1])
  /\ UNCHANGED <<shelf, service>>

\* GetString or GetInteger of what is not there yet: the tags come first.
Get(want) ==
  /\ set.kind \in {"one", "restriction"} /\ set.at = "idle" /\ ~set.eof
  /\ want \notin set.got
  /\ set' = [set EXCEPT !.want = want, !.at = IF "tags" \in set.got THEN "children" ELSE "tags"]
  /\ UNCHANGED <<shelf, service, seen, mishaps>>

FetchTags ==
  /\ set.at = "tags"
  /\ \E answer \in Answers(TagsStream(set.id)) :
       /\ Comes(answer, TagsStream(set.id))
       /\ set' = [set EXCEPT !.fields = Parsed(answer), !.got = @ \cup {"tags"},
                             !.at = IF set.want = "tags" THEN "idle" ELSE "children"]
       /\ seen' = [seen EXCEPT !.of = set.id,
                     !.tags = IF answer # <<>> /\ set.id \in DOMAIN shelf THEN <<shelf[set.id]>> ELSE <<>>]
  /\ UNCHANGED <<shelf, service>>

IsList == "TYPE" \in DOMAIN set.fields /\ set.fields["TYPE"] \in ListTypes
GotContent(children) ==
  set' = [set EXCEPT !.children = children, !.got = @ \cup {"children"}, !.at = "idle"]
FetchContent ==
  /\ set.at = "children"
  /\ IF ~IsList THEN GotContent(<<>>) /\ UNCHANGED <<seen, mishaps>>
     ELSE \E answer \in Answers(ContentStream(set.id)) :
            /\ Comes(answer, ContentStream(set.id))
            /\ GotContent(ChildVector(answer))
            /\ seen' = [seen EXCEPT !.kids =
                          IF answer = <<>> \/ set.id \notin DOMAIN shelf THEN <<>>
                          ELSE <<SelectSeq(shelf[set.id].kids, LAMBDA k :
                                   k \in DOMAIN shelf /\ (shelf[k].type \in TuneTypes => shelf[k].codec = "MP3")
                                     /\ shelf[k].type \in ListTypes \cup TuneTypes)>>]
  /\ UNCHANGED <<shelf, service>>

NextResult(s) == LittleAt(s.content, 12 * s.recno + 13)

\* What was got stays, except in a set of one.
MoveOn ==
  /\ set.kind # "closed" /\ set.at = "idle" /\ ~set.eof
  /\ set' =
       CASE set.kind = "one" -> [NoSet EXCEPT !.kind = "one"]
         [] set.kind = "restriction" /\ set.recno + 1 < Len(set.content) \div 12 ->
              [set EXCEPT !.recno = @ + 1, !.id = NextResult(set)]
         [] set.kind = "collate" /\ set.recno + 1 < set.counts -> [set EXCEPT !.recno = @ + 1]
         [] OTHER -> [set EXCEPT !.recno = @ + 1, !.eof = TRUE]
  /\ UNCHANGED <<shelf, service, seen, mishaps>>

CloseSet ==
  /\ set.kind # "closed" /\ set.at = "idle"
  /\ set' = NoSet /\ seen' = Unseen
  /\ UNCHANGED <<shelf, service, mishaps>>

\* Somebody else changes the library, or the scan finds a file gone.
ChangeShelf ==
  /\ mishaps < MaxMishaps
  /\ mishaps' = mishaps + 1
  /\ \/ \E e \in Editions : e[1] \in DOMAIN shelf /\ shelf' = [shelf EXCEPT ![e[1]] = e[2]]
     \/ \E k \in DOMAIN shelf : shelf' = [j \in DOMAIN shelf \ {k} |-> shelf[j]]
  /\ UNCHANGED <<service, set, seen>>

ReceiverNext ==
  \/ LearnTags \/ FetchTags \/ FetchContent \/ MoveOn \/ CloseSet \/ ChangeShelf
  \/ \E i \in DOMAIN Requests : Execute(Requests[i])
  \/ \E want \in {"tags", "children"} : Get(want)
-----------------------------------------------------------------------------
(***************************************************************************)
(* What the two ends come to                                               *)
(***************************************************************************)

(* What a record is to the client: stated without the bytes in between.    *)
Meant(r) ==
  LET list  == r.type \in ListTypes
      texts == {f \in TextFields : r.text[f] # <<>> /\ (list => f = "TITLE")}
      rest  == IF list THEN {}
               ELSE {"BITSPERSEC"} \cup {f \in {"SIZEBYTES"} : r.size > 0} \cup {f \in {"AUDIOCODEC"} : r.codec # "WAV"}
  IN [f \in texts \cup rest \cup {"TYPE"} |->
        CASE f \in texts -> r.text[f]
          [] f = "TYPE" -> IF list THEN "PLAYLIST" ELSE IF r.type \in {"IMAGE", "VIDEO", "FILE"} THEN "FILE" ELSE "TUNE"
          [] f = "AUDIOCODEC" -> IF r.codec = "FLAC" THEN "FLAC" ELSE "MP3"
          [] f = "SIZEBYTES" -> r.size
          [] OTHER -> 0]  \* "vs" and a number is not a number
Fits(r) == \A f \in TextFields : Len(r.text[f]) < Byte
Read(fields) == [f \in DOMAIN fields |-> IF f \in {"SIZEBYTES", "BITSPERSEC"} THEN Numeral(fields[f]) ELSE fields[f]]

\* What was got is what one record was when it was asked for, that of the number
\* it was asked for by, or nothing if that was gone or nothing came.
TagsAreRight ==
  "tags" \in set.got =>
    /\ seen.tags = <<>> => set.fields = <<>>
    /\ seen.tags # <<>> /\ Fits(seen.tags[1]) => Read(set.fields) = Meant(seen.tags[1])
    /\ set.recno = 0 => seen.of = set.id

\* The children are the list's, in order, as far as old Receivers play them;
\* a list that has none is read as one that has the mark of the format.
ChildrenAreRight ==
  "children" \in set.got /\ seen.kids # <<>> =>
    set.children = IF seen.kids[1] = <<>> THEN <<LittleAt(<<Byte - 1, 2, 0, 0>>, 1)>> ELSE seen.kids[1]

\* The set goes through the tunes that have the value, to the end.
ResultsAreRight ==
  set.kind = "restriction" /\ seen.found # <<>> =>
    IF set.eof THEN set.recno = Len(seen.found[1]) ELSE set.id = seen.found[1][set.recno + 1]

\* A collation names each value, if there is none that is empty or has a colon.
ValuesAreRight ==
  set.kind = "collate" /\ seen.found # <<>> =>
    LET plain == \A i \in DOMAIN seen.found[1] : seen.found[1][i] # <<>> /\ ~Contains(seen.found[1][i], Colon)
    IN plain => set.content = seen.found[1] /\ set.counts = Len(set.content)

\* A list of tunes is played as it is shown: the same tunes, in the same encoding.
\* (A Receiver that is shown MP3 only is played the others as well.)
PlayedAsShown ==
  \A l \in DOMAIN shelf, utf8 \in BOOLEAN :
    LET kids == SelectSeq(shelf[l].kids, LAMBDA k : Offered(k, utf8))
    IN /\ shelf[l].type \in ListTypes
       /\ \A i \in DOMAIN kids : shelf[kids[i]].type \in TuneTypes /\ Upgraded(kids[i], utf8) \in DOMAIN shelf
       => [i \in DOMAIN kids |-> ContentLines(l, utf8)[i].id]
            = LET played == [i \in DOMAIN ListStream(l, utf8) |-> ListStream(l, utf8)[i].fid]
              IN SelectSeq(played, LAMBDA k : utf8 \/ shelf[k].codec = "MP3")

\* What is read of another machine's library, however the two ends cut it up, is
\* what that library was when it was asked.
ReceiverReadsAreRight ==
  TagsAreRight /\ ChildrenAreRight /\ ResultsAreRight /\ ValuesAreRight /\ PlayedAsShown
=============================================================================
