--------------------------- MODULE MC_LocalDatabase ---------------------------
(***************************************************************************)
(* The local database, seen from its two sides: the engine that keeps the  *)
(* records and is walked while it changes (SteamWalk), and the editor and  *)
(* the tasks that take changes to the files (TagEditor).  The one has a    *)
(* record as values and indexes, the other as a text for each tag; they    *)
(* share no state here, and each behaviour shows one of them at work.      *)
(***************************************************************************)
EXTENDS SteamWalk, TagEditor, TLC

CONSTANTS w1, w2

VARIABLE side

\* An integer field and a string field, both indexed; one word that is no number.
MC_Num == [s \in {"0", "1", "x"} |-> IF s = "1" THEN 1 ELSE 0]
MC_Dec == [n \in {0, 1} |-> IF n = 1 THEN "1" ELSE "0"]
MC_Rank == [s \in {"0", "1", "x"} |-> CASE s = "0" -> 0 [] s = "1" -> 1 [] s = "x" -> 2]

\* Three tunes; the third has no title of its own.
MC_Ids == 1..3
MC_TextRank(t) == CASE t = "" -> 0 [] t = "a" -> 1 [] t = "b" -> 2
MC_Title == <<"a", "b", "">>
MC_Files == {[id \in MC_Ids |-> [f \in {"title", "artist"} |->
               IF f = "title" THEN MC_Title[id] ELSE "b"]]}

\* The threads of the pool are alike.
Symmetry == Permutations({w1, w2})
-----------------------------------------------------------------------------

LocalInit ==
  /\ side \in {"engine", "editor"}
  /\ Init /\ EditorInit
  /\ side = "engine" => record = file /\ sortBy = NoColumn

LocalNext ==
  /\ UNCHANGED side
  /\ \/ side = "engine" /\ Next /\ UNCHANGED editorVars
     \/ side = "editor" /\ EditorNext /\ UNCHANGED vars

LocalSpec == LocalInit /\ [][LocalNext]_<<vars, editorVars, side>>
=============================================================================
