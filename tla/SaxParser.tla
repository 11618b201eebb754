----------------------------- MODULE SaxParser -----------------------------
(***************************************************************************)
(* The reader of XML (src/libutil/xml.cpp): a small machine over a buffer  *)
(* that is filled with whatever has come.  It either reads a stream until  *)
(* its end (Parse) or is given the text in pieces (WriteAll), and tells    *)
(* its observer of what it meets.  However the text falls into pieces, the *)
(* observer should come to know what was written.                          *)
(***************************************************************************)
EXTENDS XmlDocuments

CONSTANTS
  Documents,  \* what is read: a sequence of texts
  BUFSIZE     \* the size of the buffer (1024)

ASSUME SaxAssumption == BUFSIZE \in Nat /\ BUFSIZE >= 3

VARIABLES
  document,  \* the one that is read
  pushed,    \* in pieces that are given to WriteAll
  cut,       \* the stream has ended before the text did
  input,     \* what has not come yet
  buffer,    \* m_buffer, as far as m_buffered
  eof,       \* m_eof
  state,     \* m_state
  tagname, attrname,
  at,        \* "read", "parse"; how it ended; "idle" if nothing is read
  observer   \* what the observer knows

saxVars == <<document, pushed, cut, input, buffer, eof, state, tagname, attrname, at, observer>>
reading == <<document, pushed, cut, input, eof>>

Ended == at \in {"done", "failed", "undefined"}

SaxInit ==
  /\ \E i \in DOMAIN Documents : document = Documents[i]
  /\ pushed \in BOOLEAN /\ cut = FALSE
  /\ input = document.text /\ buffer = <<>> /\ eof = FALSE
  /\ state = "CONTENT" /\ tagname = "" /\ attrname = ""
  /\ at \in {"read", "idle"} /\ observer = Observer(document.kind)
-----------------------------------------------------------------------------
(***************************************************************************)
(* Filling the buffer                                                      *)
(***************************************************************************)

Full == Len(buffer) = BUFSIZE
Rest(s, n) == SubSeq(s, n + 1, Len(s))

Goes(to) == at' = to /\ UNCHANGED <<state, tagname, attrname, observer>>

ReadsSome ==
  /\ at = "read" /\ ~Full /\ ~eof
  /\ \E n \in 1..(BUFSIZE - Len(buffer)) :
       /\ n <= Len(input)
       /\ buffer' = buffer \o SubSeq(input, 1, n)
       /\ input' = Rest(input, n)
  /\ Goes("parse") /\ UNCHANGED <<document, pushed, cut, eof>>

(* Nothing came: that is the end, of the text or of the connection.        *)
ReadsEnd ==
  /\ at = "read" /\ ~pushed /\ ~Full /\ ~eof
  /\ eof' = TRUE /\ cut' = (input # <<>>)
  /\ Goes(IF buffer = <<>> THEN "done" ELSE "parse")
  /\ UNCHANGED <<document, pushed, input, buffer>>

ReadFails == /\ at = "read" /\ ~pushed /\ ~Full /\ ~eof /\ Goes("failed") /\ cut' = TRUE
             /\ UNCHANGED <<document, pushed, input, buffer, eof>>

ReadsNoMore == /\ at = "read" /\ (eof \/ Full)
               /\ Goes(IF buffer = <<>> THEN "done" ELSE "parse")
               /\ UNCHANGED <<reading, buffer>>

(* The last piece has been given, or nobody gives another.                 *)
WritesNoMore == /\ at = "read" /\ pushed /\ Goes("done") /\ cut' = (input # <<>>)
                /\ UNCHANGED <<document, pushed, input, buffer, eof>>
-----------------------------------------------------------------------------
(***************************************************************************)
(* SaxParser::Parse: a turn of its loop for each state                     *)
(***************************************************************************)

Space    == {" ", "\n"}
TagEnds  == Space \cup {"/", ">"}
AttrEnds == TagEnds \cup {"="}

In(s) == at = "parse" /\ state = s /\ UNCHANGED reading

FirstOf(S) == SelectInSeq(buffer, LAMBDA c : c \in S)
LastOf(c)  == SelectLastInSeq(buffer, LAMBDA d : d = c)
Before(n) == SubSeq(buffer, 1, n - 1)
Name(s)   == IF Len(s) = 1 THEN s[1] ELSE "other"

\* Characters of the buffer that are not in S, after the first k.
Span(S, k) == LET ends == {i \in DOMAIN buffer : i > k /\ buffer[i] \in S}
              IN  IF ends = {} THEN Len(buffer) ELSE Min(ends) - 1
Blanks     == Span({c \in Range(buffer) : c \notin Space}, 0)

Consumes(n, next) ==
  /\ buffer' = Rest(buffer, n) /\ state' = next
  /\ at' = IF n = Len(buffer) THEN "read" ELSE "parse"

Waits == Goes("read") /\ UNCHANGED buffer

(* What reaches to the end of the buffer may go on behind it.              *)
NeedsMore_Always(n) == n = Len(buffer)
NeedsMore(n) == n = Len(buffer) /\ ~eof /\ ~Full

(* A name that the end of the text or of the buffer cuts off is taken for  *)
(* one, and m_buffered goes below zero.                                    *)
TakesName(n, next) ==
  IF n = Len(buffer) THEN at' = "undefined" /\ UNCHANGED <<buffer, state>>
  ELSE Consumes(n + 1, next)

Begun(o, tag)     == OnBegin(document.kind, o, tag)
Closed(o, tag)    == OnEnd(document.kind, o, tag)
Given(o, name, v) == OnAttribute(document.kind, o, name, v)
Told(o, text)     == OnContent(document.kind, o, text)
Tells(o) == observer' = o /\ UNCHANGED <<tagname, attrname>>

(* "Take care not to split up an entity &qu .... ot;"                      *)
SplitsEntity_Never == FALSE
SplitsEntity == LastOf(";") < LastOf("&")

Content ==
  /\ In("CONTENT")
  /\ \/ /\ FirstOf({"<"}) # 0
        /\ Tells(Told(observer, XmlUnEscape(Before(FirstOf({"<"})))))
        /\ Consumes(FirstOf({"<"}), "TAG")
     \/ /\ FirstOf({"<"}) = 0 /\ SplitsEntity
        /\ Tells(Told(observer, XmlUnEscape(Before(LastOf("&")))))
        /\ buffer' = Rest(buffer, LastOf("&") - 1)
        /\ at' = (IF eof THEN "parse" ELSE "read") /\ UNCHANGED state
     \/ /\ FirstOf({"<"}) = 0 /\ ~SplitsEntity
        /\ Tells(Told(observer, XmlUnEscape(buffer)))
        /\ Consumes(Len(buffer), "CONTENT")

CData ==
  /\ In("CDATA")
  /\ LET ket == FirstOf({"]"})
     IN  \/ /\ ket # 1
            /\ LET n == IF ket = 0 THEN Len(buffer) ELSE ket - 1
               IN  Tells(Told(observer, SubSeq(buffer, 1, n))) /\ Consumes(n, "CDATA")
         \/ ket = 1 /\ Len(buffer) < 3 /\ Waits
         \/ /\ ket = 1 /\ IsPrefix(<<"]", "]", ">">>, buffer)
            /\ Tells(observer) /\ Consumes(3, "CONTENT")
         \/ /\ ket = 1 /\ Len(buffer) >= 3 /\ ~IsPrefix(<<"]", "]", ">">>, buffer)
            /\ Tells(Told(observer, Text("]"))) /\ Consumes(1, "CDATA")

CDataStart == <<"!", "[CDATA[">>

StartsCData ==
  /\ In("TAG")
  /\ \/ IsStrictPrefix(buffer, CDataStart) /\ Waits
     \/ IsPrefix(CDataStart, buffer) /\ Tells(observer) /\ Consumes(2, "CDATA")

BeginsOrEnds ==
  /\ In("TAG") /\ ~IsPrefix(buffer, CDataStart) /\ ~IsPrefix(CDataStart, buffer)
  /\ LET skip == IF Head(buffer) = "/" THEN 1 ELSE 0
         n    == Span(TagEnds, skip)
         tag  == Name(SubSeq(buffer, skip + 1, n))
         c    == IF n = Len(buffer) THEN "none" ELSE buffer[n + 1]
     IN  \/ NeedsMore(n) /\ Waits
         \/ /\ ~NeedsMore(n) /\ skip = 1
            /\ Tells(Closed(observer, tag))
            /\ TakesName(n, IF c = ">" THEN "CONTENT" ELSE "SEEK_GT")
         \/ /\ ~NeedsMore(n) /\ skip = 0
            /\ tagname' = tag /\ UNCHANGED attrname
            /\ observer' = IF c = "/" THEN Closed(Begun(observer, tag), tag)
                           ELSE Begun(observer, tag)
            /\ TakesName(n, CASE c = "/" -> "SEEK_GT" [] c = ">" -> "CONTENT" [] OTHER -> "IN_TAG")

SeekGt ==
  /\ In("SEEK_GT")
  /\ LET gt == FirstOf({">"})
     IN  \/ gt = 0 /\ NeedsMore(Len(buffer)) /\ Waits
         \/ gt = 0 /\ ~NeedsMore(Len(buffer)) /\ Tells(observer) /\ Consumes(Len(buffer), "SEEK_GT")
         \/ gt # 0 /\ Tells(observer) /\ Consumes(gt, "CONTENT")

(* White space, in three of the states, and what comes after it.           *)
InBlank == state \in {"IN_TAG", "ATTR_SEEKEQ", "ATTR_SEEKVALUE"}
SkipsBlank == /\ at = "parse" /\ InBlank /\ Blanks = Len(buffer)
              /\ Tells(observer) /\ Consumes(Blanks, state) /\ UNCHANGED reading
After(s, c) == In(s) /\ Blanks < Len(buffer) /\ (buffer[Blanks + 1] = c)
AfterElse(s, cs) == In(s) /\ Blanks < Len(buffer) /\ buffer[Blanks + 1] \notin cs

InTag ==
  \/ After("IN_TAG", ">") /\ Tells(observer) /\ Consumes(Blanks, "SEEK_GT")
  \/ After("IN_TAG", "/") /\ Tells(Closed(observer, tagname)) /\ Consumes(Blanks + 1, "IN_TAG")
  \/ AfterElse("IN_TAG", {">", "/"}) /\ Tells(observer) /\ Consumes(Blanks, "IN_ATTR")

InAttr ==
  /\ In("IN_ATTR")
  /\ LET n    == Span(AttrEnds, 0)
         name == Name(SubSeq(buffer, 1, n))
         c    == IF n = Len(buffer) THEN "none" ELSE buffer[n + 1]
     IN  \/ NeedsMore(n) /\ Waits
         \/ /\ ~NeedsMore(n)
            /\ attrname' = name /\ UNCHANGED tagname
            /\ observer' = CASE c = ">" -> Given(observer, name, <<>>)
                             [] c = "/" -> Closed(Given(observer, name, <<>>), tagname)
                             [] OTHER   -> observer
            /\ TakesName(n, CASE c = "=" -> "ATTR_SEEKVALUE" [] c = ">" -> "CONTENT"
                              [] c = "/" -> "SEEK_GT"        [] OTHER   -> "ATTR_SEEKEQ")

SeekEq ==
  \/ After("ATTR_SEEKEQ", "=") /\ Tells(observer) /\ Consumes(Blanks + 1, "ATTR_SEEKVALUE")
  \/ /\ AfterElse("ATTR_SEEKEQ", {"="})
     /\ Tells(Given(observer, attrname, <<>>)) /\ Consumes(Blanks, "IN_TAG")

SeekValue ==
  \/ After("ATTR_SEEKVALUE", "\"") /\ Tells(observer) /\ Consumes(Blanks + 1, "IN_QUOTEDVALUE")
  \/ AfterElse("ATTR_SEEKVALUE", {"\""}) /\ Tells(observer) /\ Consumes(Blanks, "IN_VALUE")

(* A value that does not fit is thrown away, all but its end.              *)
QuotedValue ==
  /\ In("IN_QUOTEDVALUE")
  /\ LET quote == FirstOf({"\""})
     IN  \/ quote = 0 /\ NeedsMore(Len(buffer)) /\ Waits
         \/ /\ quote = 0 /\ ~NeedsMore(Len(buffer))
            /\ Tells(observer) /\ Consumes(Len(buffer), "IN_QUOTEDVALUE")
         \/ /\ quote # 0
            /\ Tells(Given(observer, attrname, XmlUnEscape(Before(quote))))
            /\ Consumes(quote, "IN_TAG")

Value ==
  /\ In("IN_VALUE")
  /\ LET n == Span(TagEnds, 0)
     IN  \/ NeedsMore(n) /\ Waits
         \/ /\ ~NeedsMore(n)
            /\ Tells(Given(observer, attrname, XmlUnEscape(SubSeq(buffer, 1, n))))
            /\ Consumes(n, "IN_TAG")
-----------------------------------------------------------------------------
ParseStep == \/ Content \/ CData \/ StartsCData \/ BeginsOrEnds \/ SeekGt \/ SkipsBlank \/ InTag
           \/ InAttr \/ SeekEq \/ SeekValue \/ QuotedValue \/ Value

SaxNext == ReadsSome \/ ReadsEnd \/ ReadFails \/ ReadsNoMore \/ WritesNoMore \/ ParseStep

SaxSpec == SaxInit /\ [][SaxNext]_saxVars /\ WF_saxVars(SaxNext)
-----------------------------------------------------------------------------
(* However the text falls into pieces, the reader's user learns what its   *)
(* writer said: never anything else, and all of it when the reading ends,  *)
(* unless the text was cut short.  Attribute values are those that fit     *)
(* into the buffer; only a text that is cut may end in the middle of a     *)
(* name.                                                                   *)
Agrees(told, meant) ==
  IF document.kind = "soap" THEN \A p \in DOMAIN meant : told[p] \in {NotSet, meant[p]}
  ELSE IsPrefix(told, meant)

ReadsWhatWasWritten ==
  document.fits =>
    /\ at = "undefined" => cut
    /\ Agrees(observer.result, document.means)
    /\ at = "done" /\ ~cut => observer.result = document.means

(* A reading ends, whatever comes.  The one way not to: an ampersand       *)
(* without an end, or the half of a mark, is all there is when the text    *)
(* ends, or fills the buffer; it is looked at again and again.             *)
Stuck ==
  /\ eof \/ Full
  /\ \/ state = "CONTENT" /\ SplitsEntity /\ FirstOf({"<"}) = 0 /\ LastOf("&") = 1
     \/ state = "TAG" /\ IsStrictPrefix(buffer, CDataStart)
     \/ state = "CDATA" /\ Head(buffer) = "]" /\ Len(buffer) < 3

ReadingEnds == at \in {"read", "parse"} ~> Ended \/ (Stuck /\ (cut \/ ~document.sound))
=============================================================================
