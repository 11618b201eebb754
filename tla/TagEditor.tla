------------------------------ MODULE TagEditor ------------------------------
(***************************************************************************)
(* The table of tags in tageditor and choralecd (src/libchoralecd/): a row *)
(* for each tune, sorted by one of the columns.  A text that the user has  *)
(* typed into one cell goes into every selected one; then the records of   *)
(* the rows that were noted are set, all columns of them, and committed.   *)
(* The table sorts itself again whenever a text in its column changes.     *)
(***************************************************************************)
EXTENDS TagSerialiser, Integers

CONSTANTS
  TagsAtFirst,  \* the tags the files may have at first
  Names,        \* the titles that the names of the files make
  NoColumn,     \* the table is not sorted
  TextRank(_),  \* of a text
  MaxEdits      \* bound: edits of the user

VARIABLES
  shown,     \* the texts in the table
  order,     \* the ids from the top row to the last
  sortBy,    \* the column the table is sorted by
  edit,      \* where commitData is
  edits,     \* how many there were
  mislaid    \* ids of rows that were noted, and then moved

tableVars  == <<shown, order, sortBy, edit, edits, mislaid>>
editorVars == <<tagVars, tableVars>>

RowOf(id, o) == CHOOSE r \in DOMAIN o : o[r] = id
Orders       == {o \in [1..Cardinality(Ids) -> Ids] : \A id \in Ids : \E r \in DOMAIN o : o[r] = id}
InOrder(o, texts) ==
  sortBy # NoColumn => \A r, s \in DOMAIN o :
    r < s => TextRank(texts[o[r]][sortBy]) <= TextRank(texts[o[s]][sortBy])

(* Qt moves the row of the text that changed, and no other past another.   *)
Resorted(id, f, texts) ==
  IF f # sortBy THEN {order}
  ELSE {o \in Orders : /\ InOrder(o, texts)
                       /\ \A a, b \in Ids \ {id} :
                            RowOf(a, order) < RowOf(b, order) => RowOf(a, o) < RowOf(b, o)}

NoEdit == [at |-> "none", text |-> Blank, cells |-> {}, rows |-> {}, left |-> {}]

EditorTypeOK ==
  /\ shown \in [Ids -> Tags] /\ order \in Orders /\ sortBy \in TagFields \cup {NoColumn}
  /\ edit \in [at : {"none", "cells", "row"}, text : Words, cells : SUBSET (Ids \X TagFields),
               rows : SUBSET DOMAIN order, left : SUBSET TagFields]
  /\ mislaid \in SUBSET Ids

(* SetNode fills in the rows in the order of the children, and sorts them. *)
EditorInit ==
  /\ TagInit /\ file \in TagsAtFirst
  /\ \A id \in Ids, f \in TagFields : record[id][f] \in Names \cup {file[id][f]}
  /\ shown = record /\ sortBy \in TagFields \cup {NoColumn}
  /\ order \in Orders /\ InOrder(order, shown)
  /\ \A r, s \in DOMAIN order :
       r < s /\ (sortBy # NoColumn => shown[order[r]][sortBy] = shown[order[s]][sortBy])
         => order[r] < order[s]
  /\ edit = NoEdit /\ edits = 0 /\ mislaid = {}
-----------------------------------------------------------------------------
(* setText of a cell, and the row it is in afterwards is noted.            *)
NotedRow_Before(id, o) == RowOf(id, order)
NotedRow(id, o) == RowOf(id, o)

SetsText(id, f, t, cells) ==
  /\ shown' = [shown EXCEPT ![id][f] = t]
  /\ order' \in Resorted(id, f, shown')
  /\ edit' = [edit EXCEPT !.at = "cells", !.text = t, !.cells = cells,
                          !.rows = @ \cup {NotedRow(id, order')}]
  /\ mislaid' = mislaid \cup {order[r] : r \in {q \in edit.rows : order'[q] # order[q]}}
  /\ UNCHANGED <<tagVars, sortBy>>

(* commitData, when what was typed is not what was there.                  *)
CommitData(id, f, t, cells) ==
  /\ edit.at = "none" /\ edits < MaxEdits /\ shown[id][f] # t
  /\ edits' = edits + 1
  /\ SetsText(id, f, t, cells \ {<<id, f>>})

SetsSelected(id, f) ==
  /\ edit.at = "cells" /\ <<id, f>> \in edit.cells /\ shown[id][f] # edit.text
  /\ SetsText(id, f, edit.text, edit.cells \ {<<id, f>>})
  /\ UNCHANGED edits

SameAlready(c) == shown[c[1]][c[2]] = edit.text

CellsDone ==
  /\ edit.at = "cells" /\ \A c \in edit.cells : SameAlready(c)
  /\ edit' = [edit EXCEPT !.at = "row", !.cells = {}, !.left = TagFields]
  /\ UNCHANGED <<tagVars, shown, order, sortBy, edits, mislaid>>

(* The rows from the top; in each all the columns.                         *)
IsNext(r) == edit.at = "row" /\ r \in edit.rows /\ \A s \in edit.rows : r <= s

SetsField(r, f) ==
  /\ IsNext(r) /\ edit.left # {} /\ f = CHOOSE g \in edit.left : TRUE
  /\ SetText(order[r], f, shown[order[r]][f])
  /\ edit' = [edit EXCEPT !.left = @ \ {f}]
  /\ UNCHANGED <<shown, order, sortBy, edits, mislaid>>

CommitsRow(r) ==
  /\ IsNext(r) /\ edit.left = {}
  /\ Commit(order[r])
  /\ edit' = IF edit.rows = {r} THEN NoEdit
             ELSE [edit EXCEPT !.rows = @ \ {r}, !.left = TagFields]
  /\ mislaid' = mislaid \ {order[r]}
  /\ UNCHANGED <<shown, order, sortBy, edits>>
-----------------------------------------------------------------------------
Types == \E id \in Ids, f \in TagFields, t \in Texts, selected \in SUBSET Ids :
           CommitData(id, f, t, selected \X {f})

Editor == \/ Types \/ CellsDone
          \/ \E id \in Ids, f \in TagFields : SetsSelected(id, f)
          \/ \E r \in DOMAIN order : CommitsRow(r) \/ \E f \in TagFields : SetsField(r, f)

EditorNext == Editor \/ \E w \in Workers : Run(w) /\ UNCHANGED tableVars

EditorSpec == EditorInit /\ [][EditorNext]_editorVars
-----------------------------------------------------------------------------
(* What the table shows is in the database when an edit is over.  The one  *)
(* way for a row to be left out is that it moved after it was noted.       *)
TableIsSaved ==
  edit.at = "none" => \A id \in Ids \ mislaid : record[id] = shown[id]
=============================================================================
