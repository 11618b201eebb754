-------------------------- MODULE MC_HttpSession --------------------------
(***************************************************************************)
(* A file of four bytes, an empty one, and a live stream of two, on        *)
(* connections that hold four tokens.                                      *)
(***************************************************************************)
EXTENDS HttpSession, TLC

SizeDef == "file" :> 4 @@ "empty" :> 0 @@ "live" :> 2

Rq(verb, path, range, body, close) ==
  [verb |-> verb, path |-> path, range |-> range, body |-> body, close |-> close]
Span(a, b) == <<<<"range", a, b>>>>

Firsts  == {Rq("GET", "file", r, 0, FALSE) : r \in {<<>>, Span(1, 2), Span(0, Forever)}}
           \cup {Rq("HEAD", "file", Span(2, 3), 0, FALSE), Rq("POST", "control", <<>>, 3, FALSE),
                 Rq("POST", "file", <<>>, 2, FALSE), Rq("GET", "live", <<>>, 0, FALSE)}
Seconds == {Rq("GET", "file", r, 0, c) : r \in {<<>>, Span(3, Forever), Span(4, 9)},
                                         c \in BOOLEAN}
           \cup {Rq("POST", "control", <<>>, 2, TRUE), Rq("GET", "none", Span(0, 1), 0, FALSE),
                 Rq("OPTIONS", "none", <<>>, 0, FALSE), Rq("GET", "empty", <<>>, 0, FALSE)}
Thirds  == {<<>>, <<Rq("GET", "file", Span(1, 2), 0, FALSE)>>,
            <<Rq("POST", "control", <<>>, 3, TRUE)>>}
ScriptsDef  == {s \in {<<a, b>> \o c : a \in Firsts, b \in Seconds, c \in Thirds} :
                  /\ \A i \in DOMAIN s : s[i].close => i = Len(s)
                  /\ Len(s) = 3 => s[2].range = <<>>}
               \cup {<<Rq("GET", "file", Span(0, 1), 0, FALSE), Rq("GET", "file", <<>>, 0, FALSE)>>}
RequestsDef == {Rq("GET", "file", Span(1, 2), 0, TRUE), Rq("GET", "file", Span(0, 1), 0, TRUE),
                Rq("POST", "control", <<>>, 3, TRUE),
                Rq("GET", "none", <<>>, 0, TRUE)}
=============================================================================
