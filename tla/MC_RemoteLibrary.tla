-------------------------- MODULE MC_RemoteLibrary --------------------------
(* A library of four local items, one of them a better encoding of another *)
(* and in no list, one that appears later, and two items of a Receiver     *)
(* server.  The user interface's thread browses and searches, the player's *)
(* asks for URLs.  Or, instead, XML is read: what a call is answered with, *)
(* what an element of a list says, the database file and playlists.  Or a  *)
(* library is read by the protocol of the Rio Receivers: two lists, one of *)
(* them empty at first, below another; tunes in MP3, FLAC and WAV, one of  *)
(* them with a better encoding, one with a name too long for the protocol. *)
EXTENDS RemoteLibrary, SaxParser, ReceiverLibrary

Item(type, codec, artist, children, better) ==
  [type |-> type, codec |-> codec, artist |-> artist, album |-> 1, genre |-> 1,
   kids |-> children, high |-> better]

MC_Catalogue ==
  [local |-> <<Item("TUNE", "MP3", 1, <<>>, 3), Item("SPOKEN", "VORBIS", 3, <<>>, 0),
               Item("TUNEHIGH", "FLAC", 1, <<>>, 0), Item("RADIO", "MP3", 0, <<>>, 0)>>,
   receiver |-> <<Item("DIR", "NONE", 0, <<2>>, 0), Item("TUNE", "WAV", 3, <<>>, 0)>>]
MC_RootKids == [local |-> <<1, 2>>, receiver |-> <<1>>]
MC_Hidden == {3}
MC_Assembled == {<<>>, <<"local", "receiver">>}

Artist(rt, val) == Restriction("artist", rt, val)
MC_Queries ==
  <<Artist("GE", 1),
    And(Artist("NE", 0), Or(Restriction("album", "EQ", 2), Artist("LT", 3))),
    And(Artist("EQ", 1), Restriction("title", "EQ", 0)),
    Artist("EQ", 2),
    Artist("EQ", 3)>>
MC_Unquotable == {2}
MC_Within == {<<v, v>> : v \in 0..3}

MC_Wants == [ui |-> {"title", "children", "search", "collate"}, audio |-> {"url"}]
-----------------------------------------------------------------------------
MC_ParamTypes == [Result |-> "string", Count |-> "number", Mute |-> "bool"]

DbRecord(id, type, name, children) == [id |-> id, type |-> type, title |-> name, children |-> children]
Awkward == <<"a", "&", "bell", "<">>
InAsx(ref) == Open("asx", <<>>) \o Open("entry", <<>>) \o ref \o <<"<", "/", "entry", "\n", ">">> \o Shut("asx")
InTitle(text) == Open("db", <<>>) \o Element("record", Element("title", text)) \o Shut("db")
Titled(text) == <<[id |-> <<>>, title |-> text, type |-> <<>>, children |-> <<>>]>>

\* What this code writes; a path that does not fit; what other writers are fond of.
MC_Documents ==
  <<Document("database", <<DbRecord("7", "tune", <<>>, <<>>), DbRecord("100", "dir", Awkward, <<"7", "101">>),
                           DbRecord("100", "dir", <<"b">>, <<>>), DbRecord("102", "radio", <<>>, <<>>)>>),
    Document("database", <<DbRecord("100", "dir", <<>>, <<"7">>), DbRecord("101", "tune", <<"\"", ">">>, <<>>)>>),
    Document("wpl", <<<<"&", "bell", "a">>, <<"b">>>>),
    Document("asx", <<<<"b">>, <<">", "\n">>>>),
    [Document("wpl", <<<<"a", "b", "a", "b", "a", "b", "a">>>>) EXCEPT !.fits = FALSE],
    Document("soap", <<<<"Count", <<"2">>>>, <<"Result", Awkward>>, <<"Mute", <<"1">>>>>>),
    Document("soap", <<<<"Mute", <<"0">>>>, <<"Result", <<>>>>>>),
    Document("didl", <<[id |-> "1", title |-> <<"<">>], [id |-> "2", title |-> <<"a", " ", "b">>]>>),
    Foreign("asx", InAsx(<<"<", "ref", " ", "href", " ", "=", "\n", "\"", "a", "\"", " ", "/", ">">>), <<<<"a">>>>),
    Foreign("asx", InAsx(<<"<", "ref", " ", "x", " ", "href", "=", "a", "/", ">">>), <<<<"a">>>>),
    Foreign("asx", InAsx(Open("x", <<" ", "href">>) \o Shut("x") \o Open("ref", <<"\n", "href", "/">>)), <<<<>>>>),
    Foreign("database", InTitle(<<"<", "!", "[CDATA[", "a", "]", "&", "]", "]", ">">>), Titled(<<"a", "]", "&">>)),
    Foreign("database", InTitle(<<"a", "&", " ", "b">>), Titled(<<"a", "&", " ", "b">>)),
    [Foreign("database", InTitle(<<"a", "&", " ", "b", "a", "b", "a", "b">>), Titled(<<>>))
       EXCEPT !.fits = FALSE, !.sound = FALSE]>>

-----------------------------------------------------------------------------
Record(type, name, by, on, codec, children, better) ==
  [type |-> type, text |-> [TITLE |-> name, ARTIST |-> by, ALBUM |-> on], codec |-> codec,
   size |-> 70000, rate |-> 128, kids |-> children, high |-> better]
LongName == [i \in 1..(Byte + 2) |-> 97]

MC_Shelf ==
  256 :> Record("DIR", <<82>>, <<>>, <<>>, "NONE", <<258, 257, 303, 302>>, 0) @@
  257 :> Record("PLAYLIST", <<>>, <<>>, <<>>, "NONE", <<>>, 0) @@
  258 :> Record("DIR", <<68, 68>>, <<>>, <<>>, "NONE", <<300, 301, 304>>, 0) @@
  300 :> Record("TUNE", <<84>>, <<65>>, <<70>>, "MP3", <<>>, 305) @@
  301 :> Record("TUNE", <<85>>, <<65, 66>>, <<>>, "FLAC", <<>>, 0) @@
  302 :> Record("RADIO", <<87>>, <<67>>, <<>>, "MP3", <<>>, 0) @@
  303 :> Record("VIDEO", <<88>>, <<>>, <<>>, "NONE", <<>>, 0) @@
  304 :> Record("TUNE", LongName, <<67>>, <<70, Colon, 71>>, "WAV", <<>>, 0) @@
  305 :> Record("TUNEHIGH", <<84>>, <<65>>, <<70>>, "FLAC", <<>>, 0)
MC_Editions ==
  {<<300, Record("TUNE", <<84>>, <<67>>, <<70>>, "MP3", <<>>, 305)>>,
   <<257, Record("PLAYLIST", <<80>>, <<>>, <<>>, "NONE", <<300, 256>>, 0)>>}
MC_Collating == <<<<>>, <<65>>, <<65, 66>>, <<67>>, <<70>>, <<70, Colon, 71>>>>

Where(field, op, value) == [field |-> field, op |-> op, value |-> value]
Ask(where, collate) == [where |-> where, collate |-> collate]
MC_Requests ==
  [i \in 1..5 |-> Ask(<<Where("ID", "EQ", <<256, 257, 258, 300, 304>>[i])>>, <<>>)]
    \o <<Ask(<<Where("ARTIST", "EQ", <<65>>)>>, <<>>), Ask(<<Where("ARTIST", "EQ", <<67>>)>>, <<>>),
         Ask(<<Where("ARTIST", "NE", <<65>>)>>, <<>>), Ask(<<>>, <<"ARTIST">>), Ask(<<>>, <<"ALBUM">>),
         Ask(<<Where("ARTIST", "EQ", <<65>>)>>, <<"ALBUM">>)>>
-----------------------------------------------------------------------------
\* One of the three: where no text is read and there is no Receiver server, the
\* library is.  A server without its local database has no scans of it either.
LibraryInit ==
  /\ Init /\ SaxInit /\ ReceiverInit
  /\ at = "idle" => document = Documents[1] /\ ~pushed
  /\ slots = <<>> => scanned = {"receiver"}
  /\ (at # "idle" \/ service # "none") => slots = <<>>
  /\ at = "idle" \/ service = "none"

LibraryNext ==
  \/ at = "idle" /\ service = "none" /\ Next /\ UNCHANGED <<saxVars, receiverVars>>
  \/ at # "idle" /\ SaxNext /\ UNCHANGED <<vars, receiverVars>>
  \/ service # "none" /\ ReceiverNext /\ UNCHANGED <<vars, saxVars>>

LibrarySpec ==
  LibraryInit /\ [][LibraryNext]_<<vars, saxVars, receiverVars>> /\ Fairness /\ WF_saxVars(SaxNext)
=============================================================================
