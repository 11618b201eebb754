---------------------------- MODULE XmlDocuments ----------------------------
(***************************************************************************)
(* What this code writes and reads as XML: the library's database          *)
(* (libmediadb/xml.cpp), playlists (libimport), SOAP calls (libupnp) and   *)
(* DIDL-Lite (libmediadb/didl.cpp).  Each has a writer, and an observer    *)
(* that is told of tags, attributes and content as the parser meets them.  *)
(*                                                                         *)
(* A text is a sequence of characters; a name that the code never looks    *)
(* inside of is taken as one character, so that it, too, may be cut off    *)
(* from what follows.                                                      *)
(***************************************************************************)
EXTENDS SequencesExt

CONSTANTS
  SpecialIds,  \* ids below 0x100
  Controls,    \* control characters other than the end of a line
  ParamTypes   \* of the results of a SOAP action: "string", "number" or "bool"

Text(c) == <<c>>

Entity == [c \in {"&", "\"", "<", ">"} |->
             CASE c = "&" -> "amp" [] c = "\"" -> "quot" [] c = "<" -> "lt" [] c = ">" -> "gt"]
Unentity(name) == SelectSeq(<<"&", "\"", "<", ">">>, LAMBDA c : Entity[c] = name)

XmlEscape(s) ==
  FlattenSeq([i \in DOMAIN s |->
    IF s[i] \in DOMAIN Entity THEN <<"&", Entity[s[i]], ";">>
    ELSE IF s[i] \in Controls THEN <<>> ELSE Text(s[i])])

\* An entity that is none of these is left out; what has no end is no entity.
XmlUnEscape(s) ==
  LET semi(i) == SelectInSubSeq(s, i, Len(s), LAMBDA c : c = ";")
      from[i \in 1..(Len(s) + 1)] ==
        IF i > Len(s) THEN <<>>
        ELSE IF s[i] # "&" \/ semi(i) = 0 THEN Text(s[i]) \o from[i + 1]
        ELSE (IF semi(i) = i + 2 THEN Unentity(s[i + 1]) ELSE <<>>) \o from[semi(i) + 1]
  IN  from[1]

\* What is left of a text that has been written and read.
Kept(s) == SelectSeq(s, LAMBDA c : c \notin Controls)
-----------------------------------------------------------------------------
(***************************************************************************)
(* Writers                                                                 *)
(***************************************************************************)

Attribute(name, value) == <<" ", name, "=", "\"">> \o value \o Text("\"")
Open(tag, attrs)       == <<"<", tag>> \o attrs \o Text(">")
Shut(tag)              == <<"<", "/", tag, ">">>
Element(tag, text)     == Open(tag, <<>>) \o text \o Shut(tag)
IfPresent(tag, value)  == IF value = <<>> THEN <<>> ELSE Element(tag, XmlEscape(value))
Declaration(tag)       == Open(tag, Attribute("version", Text("1")) \o Text("?")) \o Text("\n")

(* Records with special ids and radio stations are not written. *)
IsWritten(rec) == rec.id \notin SpecialIds /\ rec.type # "radio"
ChildrenWritten(rec) == SelectSeq(rec.children, LAMBDA id : id \notin SpecialIds)

WriteRecord(rec) ==
  Element("record",
    Text("\n") \o Element("id", Text(rec.id)) \o IfPresent("title", rec.title)
    \o Element("type", Text(rec.type))
    \o IF rec.children = <<>> THEN <<>>
       ELSE Element("children", Text("\n") \o FlattenSeq([i \in DOMAIN ChildrenWritten(rec) |->
                                    Element("child", Text(ChildrenWritten(rec)[i]))])))

WriteXML(records) ==
  LET written == SelectSeq(records, IsWritten)
  IN  Declaration("?xml") \o Open("db", Attribute("schema", Text("1")))
      \o FlattenSeq([i \in DOMAIN written |-> WriteRecord(written[i])]) \o Shut("db")

(* Playlists: each entry is an attribute, in tags that differ with the format. *)
PlaylistTable == [wpl |-> <<"smil", "body", "seq", "media">>, asx |-> <<"asx", "entry", "ref">>]
Href          == [wpl |-> "src", asx |-> "href"]

SaveWPL(paths) ==
  Declaration("?wpl") \o Open("smil", <<>>) \o Open("body", <<>>) \o Open("seq", <<>>)
  \o FlattenSeq([i \in DOMAIN paths |->
       Open("media", Attribute("src", XmlEscape(paths[i])) \o Text("/")) \o Text("\n")])
  \o Shut("seq") \o Shut("body") \o Shut("smil")

SaveASX(paths) ==
  Open("asx", Attribute("version", Text("3"))) \o Text("\n")
  \o FlattenSeq([i \in DOMAIN paths |->
       Element("entry", Open("ref", Attribute("href", XmlEscape(paths[i])) \o Text("/")))])
  \o Shut("asx")

(* CreateBody; params is a sequence of names and their values. *)
CreateBody(params) ==
  Declaration("?xml") \o Open("s:Envelope", <<>>) \o Open("s:Body", <<>>)
  \o FlattenSeq([i \in DOMAIN params |-> Text(" ") \o
       Element(params[i][1], IF ParamTypes[params[i][1]] = "string" THEN XmlEscape(params[i][2])
                             ELSE params[i][2])])
  \o Shut("s:Body") \o Shut("s:Envelope")

(* FromRecord between header and footer, for items of an id and a title. *)
WriteDidl(items) ==
  Open("DIDL-Lite", <<>>)
  \o FlattenSeq([i \in DOMAIN items |->
       Open("item", Attribute("id", Text(items[i].id)) \o Attribute("restricted", Text("true")))
       \o Element("dc:title", XmlEscape(items[i].title))
       \o Open("res", Attribute("size", Text("1"))) \o Text("url") \o Shut("res")
       \o Shut("item")])
  \o Shut("DIDL-Lite")
-----------------------------------------------------------------------------
(***************************************************************************)
(* MediaDBParser                                                           *)
(***************************************************************************)

FieldTags == {"id", "title", "type", "children"}
NoFields  == [f \in FieldTags |-> <<>>]

MediaDBParser == [field |-> "none", inChild |-> FALSE, value |-> <<>>, fields |-> NoFields,
                  children |-> <<>>, ids |-> {}, result |-> <<>>]

MediaBegin(o, tag) ==
  LET p == [o EXCEPT !.field = "none", !.inChild = FALSE, !.value = <<>>]
  IN  CASE tag = "record"      -> [p EXCEPT !.fields = NoFields, !.children = <<>>]
        [] tag = "child"       -> [p EXCEPT !.inChild = TRUE]
        [] tag \in FieldTags   -> [p EXCEPT !.field = tag]
        [] OTHER               -> p

AddsRecord(o) ==
  IF o.fields["id"] \in o.ids THEN o
  ELSE [o EXCEPT !.ids = @ \cup {o.fields["id"]},
                 !.result = Append(@, [id |-> o.fields["id"], title |-> o.fields["title"],
                                       type |-> o.fields["type"], children |-> o.children])]

MediaEnd(o, tag) ==
  LET p == [o EXCEPT !.field = "none", !.inChild = FALSE,
                     !.fields = IF o.field # "none" THEN [@ EXCEPT ![o.field] = o.value] ELSE @,
                     !.children = IF o.field = "none" /\ o.inChild THEN Append(@, o.value) ELSE @]
  IN  IF tag = "record" THEN AddsRecord(p) ELSE p

MediaContent(o, text) ==
  IF o.field # "none" \/ o.inChild THEN [o EXCEPT !.value = @ \o text] ELSE o
-----------------------------------------------------------------------------
(***************************************************************************)
(* TableDrivenParser, for the tables of the playlists: a chain of tags and *)
(* an attribute of the last.                                               *)
(***************************************************************************)

TableDrivenParser == [depth |-> 0, ignore |-> 0, result |-> <<>>]

TableBegin(o, tag, table) ==
  IF tag \in {"?xml", "?wpl"} THEN o
  ELSE IF o.ignore = 0 /\ o.depth < Len(table) /\ table[o.depth + 1] = tag
  THEN [o EXCEPT !.depth = @ + 1]
  ELSE [o EXCEPT !.ignore = @ + 1]

TableAttribute(o, name, value, table, href) ==
  IF o.ignore = 0 /\ o.depth = Len(table) /\ name = href
  THEN [o EXCEPT !.result = Append(@, value)] ELSE o

TableEnd(o) ==
  IF o.ignore # 0 THEN [o EXCEPT !.ignore = @ - 1]
  ELSE IF o.depth = 0 THEN o ELSE [o EXCEPT !.depth = @ - 1]
-----------------------------------------------------------------------------
(***************************************************************************)
(* soap::Parser                                                            *)
(***************************************************************************)

NotSet    == <<"not set">>
NoParam   == "none"
Prefixed  == {"s:Envelope", "s:Body"}
ParseBool(text) == IF text \in {<<"1">>, <<"true">>, <<"yes">>} THEN <<"1">> ELSE <<"0">>

SoapParser == [param |-> NoParam, value |-> <<>>, result |-> [p \in DOMAIN ParamTypes |-> NotSet]]

SoapBegin(o, tag) ==
  [o EXCEPT !.value = <<>>,
            !.param = IF tag \in Prefixed THEN @
                      ELSE IF tag \in DOMAIN ParamTypes THEN tag ELSE NoParam]

SoapContent(o, text) == IF o.param # NoParam THEN [o EXCEPT !.value = @ \o text] ELSE o

SoapEnd(o) ==
  IF o.param = NoParam THEN o
  ELSE [o EXCEPT !.param = NoParam, !.value = <<>>,
          !.result = [@ EXCEPT ![o.param] =
            IF ParamTypes[o.param] = "bool" THEN ParseBool(o.value) ELSE o.value]]
-----------------------------------------------------------------------------
(***************************************************************************)
(* didl::ParserObserver                                                    *)
(***************************************************************************)

NoTag   == "none"
NoField == [tag |-> NoTag, content |-> <<>>, attributes |-> {}]
DidlParser == [inItem |-> FALSE, item |-> <<>>, field |-> NoField, result |-> <<>>]

DidlBegin(o, tag) ==
  IF tag \in {"item", "container"}
  THEN [o EXCEPT !.item = <<>>, !.field.tag = NoTag, !.inItem = TRUE]
  ELSE IF o.inItem THEN [o EXCEPT !.field.tag = tag] ELSE o

DidlEnd(o, tag) ==
  IF tag \in {"item", "container"}
  THEN [o EXCEPT !.result = Append(@, o.item), !.inItem = FALSE]
  ELSE IF o.inItem THEN [o EXCEPT !.item = Append(@, o.field), !.field = NoField] ELSE o

DidlAttribute(o, name, value) ==
  IF o.field.tag # NoTag THEN [o EXCEPT !.field.attributes = @ \cup {<<name, value>>}]
  ELSE IF name = "id"
  THEN [o EXCEPT !.item = Append(@, [o.field EXCEPT !.tag = name, !.content = value]),
                 !.field.content = <<>>]
  ELSE o

DidlContent(o, text) == [o EXCEPT !.field.content = @ \o text]
-----------------------------------------------------------------------------
(***************************************************************************)
(* Any of them                                                             *)
(***************************************************************************)

Observer(kind) ==
  CASE kind = "database" -> MediaDBParser
    [] kind = "soap"     -> SoapParser
    [] kind = "didl"     -> DidlParser
    [] OTHER             -> TableDrivenParser

OnBegin(kind, o, tag) ==
  CASE kind = "database" -> MediaBegin(o, tag)
    [] kind = "soap"     -> SoapBegin(o, tag)
    [] kind = "didl"     -> DidlBegin(o, tag)
    [] OTHER             -> TableBegin(o, tag, PlaylistTable[kind])

OnEnd(kind, o, tag) ==
  CASE kind = "database" -> MediaEnd(o, tag)
    [] kind = "soap"     -> SoapEnd(o)
    [] kind = "didl"     -> DidlEnd(o, tag)
    [] OTHER             -> TableEnd(o)

OnAttribute(kind, o, name, value) ==
  CASE kind = "didl"           -> DidlAttribute(o, name, value)
    [] kind \in {"wpl", "asx"} -> TableAttribute(o, name, value, PlaylistTable[kind], Href[kind])
    [] OTHER                   -> o

OnContent(kind, o, text) ==
  CASE kind = "database" -> MediaContent(o, text)
    [] kind = "soap"     -> SoapContent(o, text)
    [] kind = "didl"     -> DidlContent(o, text)
    [] OTHER             -> o
-----------------------------------------------------------------------------
(***************************************************************************)
(* What was written, in the terms of the reader.                           *)
(***************************************************************************)

(* A record set of a database has one record of an id, the first.          *)
RecordsMeant(records) ==
  LET written == SelectSeq(records, IsWritten)
      firsts  == {i \in DOMAIN written : \A j \in 1..(i - 1) : written[j].id # written[i].id}
      meant(rec) == [id |-> Text(rec.id), title |-> Kept(rec.title), type |-> Text(rec.type),
                     children |-> [j \in DOMAIN ChildrenWritten(rec) |-> Text(ChildrenWritten(rec)[j])]]
  IN  FlattenSeq([i \in DOMAIN written |-> IF i \in firsts THEN <<meant(written[i])>> ELSE <<>>])

PathsMeant(paths) == [i \in DOMAIN paths |-> Kept(paths[i])]

ParamsMeant(params) ==
  [p \in DOMAIN ParamTypes |->
     IF \E i \in DOMAIN params : params[i][1] = p
     THEN Kept(params[CHOOSE i \in DOMAIN params : params[i][1] = p][2]) ELSE NotSet]

ItemsMeant(items) ==
  [i \in DOMAIN items |->
    <<[NoField EXCEPT !.tag = "id", !.content = Text(items[i].id)],
      [NoField EXCEPT !.tag = "dc:title", !.content = Kept(items[i].title)],
      [tag |-> "res", content |-> Text("url"), attributes |-> {<<"size", Text("1")>>}]>>]

Document(kind, source) ==
  LET of(text, means) == [kind |-> kind, text |-> text, means |-> means, fits |-> TRUE, sound |-> TRUE]
  IN  CASE kind = "database" -> of(WriteXML(source),   RecordsMeant(source))
        [] kind = "wpl"      -> of(SaveWPL(source),    PathsMeant(source))
        [] kind = "asx"      -> of(SaveASX(source),    PathsMeant(source))
        [] kind = "soap"     -> of(CreateBody(source), ParamsMeant(source))
        [] kind = "didl"     -> of(WriteDidl(source),  ItemsMeant(source))

(* What others write. *)
Foreign(kind, text, means) == [kind |-> kind, text |-> text, means |-> means, fits |-> TRUE, sound |-> TRUE]
=============================================================================
