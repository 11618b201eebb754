------------------------------ MODULE SteamWalk ------------------------------
(***************************************************************************)
(* A recordset's walk through a database that others change: the four      *)
(* kinds of recordset that Query::Execute makes.                           *)
(*                                                                         *)
(*   simple   every record that matches, by number                         *)
(*   indexed  the records with one value of an indexed field               *)
(*   ordered  every record that has a value of an indexed field, by value  *)
(*   collate  the values of an indexed field, each once                    *)
(*                                                                         *)
(* Each operation of the walk holds the mutex; between any two of them the *)
(* others add, change and delete, and so does the walker itself: its       *)
(* Delete is a Delete of its record and then a MoveNext.                   *)
(***************************************************************************)
EXTENDS SteamDb, Sequences, SequencesExt

CONSTANTS
  StringRank,  \* the order of the strings
  MaxChanges,  \* bound: changes made while the walk lasts
  MaxFilled    \* bound: changes made before it

ASSUME SteamWalkAssumption ==
  /\ StringRank \in [Strings -> Nat]
  /\ \A s, t \in Strings : StringRank[s] = StringRank[t] => s = t

VARIABLES
  walk,     \* the recordset: its kind and field, m_intval or m_stringval,
            \* m_record, m_subrecno, m_eof; for a simple one, the value it wants not
  visited,  \* history: what it stood at, each with its rank
  steady,   \* history: the records that nobody changed since it was made
  calm,     \* history: the records with the value it stood at were left alone
  changes   \* counter of the bounds

vars == <<dbVars, walk, visited, steady, calm, changes>>

Rank(f, k) == IF f \in IntFields THEN k ELSE StringRank[k]
Least(f, keys) == CHOOSE k \in keys : \A j \in keys : Rank(f, k) <= Rank(f, j)
LeastRec(recs) == CHOOSE r \in recs : \A s \in recs : r <= s
Nth(recs, n) == CHOOSE r \in recs : Cardinality({s \in recs : s < r}) = n

Closed == [kind |-> "closed"]
Open == walk.kind # "closed"

Init ==
  /\ DbInit
  /\ walk = Closed /\ visited = <<>> /\ steady = {} /\ calm = TRUE /\ changes = 0

-----------------------------------------------------------------------------
(* Where a recordset goes from a record number, or from a value *)

Value(r, f) == data[r][f].i
Matches(w, r) == ~w.wants \/ Value(r, w.field) # w.key

AtEof(w) == [w EXCEPT !.eof = TRUE]

SimpleNext(w) ==
  LET after == {r \in live : r > w.rec /\ Matches(w, r)}
  IN IF after = {} THEN AtEof(w) ELSE [w EXCEPT !.rec = LeastRec(after)]

\* IndexedRecordset::MoveNext counts on in the set of its value.
IndexedNext(w) ==
  LET recs == idx[w.field][w.key]
  IN IF w.key \notin present[w.field] \/ w.sub + 1 >= Cardinality(recs) THEN AtEof(w)
     ELSE [w EXCEPT !.sub = @ + 1, !.rec = Nth(recs, w.sub + 1)]

KeysFrom(f, rank) == {k \in present[f] : Rank(f, k) >= rank}

\* OrderedRecordset::MoveNext counts on in the set of its value, then takes the
\* first record of the next value.
NextKey(w) ==
  LET keys == KeysFrom(w.field, Rank(w.field, w.key) + 1)
  IN IF keys = {} THEN AtEof(w)
     ELSE LET k == Least(w.field, keys)
          IN [w EXCEPT !.key = k, !.sub = 0, !.rec = LeastRec(idx[w.field][k])]

OrderedNext_Lost(w) ==
  IF w.key \notin present[w.field] THEN AtEof(w)
  ELSE IF w.sub + 1 < Cardinality(idx[w.field][w.key])
  THEN [w EXCEPT !.sub = @ + 1, !.rec = Nth(idx[w.field][w.key], w.sub + 1)]
  ELSE NextKey(w)
OrderedNext(w) ==
  IF w.key \in present[w.field] /\ w.sub + 1 < Cardinality(idx[w.field][w.key])
  THEN [w EXCEPT !.sub = @ + 1, !.rec = Nth(idx[w.field][w.key], w.sub + 1)]
  ELSE NextKey(w)

\* CollateRecordset::MoveNext: an integer is looked for from above, a string by
\* itself, which ends the walk when its last record has gone.
CollateNext(w) ==
  IF w.field \notin IntFields /\ w.key \notin present[w.field] THEN AtEof(w) ELSE NextKey(w)

Step(w) == CASE w.kind = "simple" -> SimpleNext(w)
             [] w.kind = "indexed" -> IndexedNext(w)
             [] w.kind = "ordered" -> OrderedNext(w)
             [] w.kind = "collate" -> CollateNext(w)

-----------------------------------------------------------------------------
Stands(w) == IF w.kind = "simple" THEN <<0, w.rec>>
             ELSE IF w.kind = "collate" THEN <<Rank(w.field, w.key), 0>>
             ELSE <<Rank(w.field, w.key), w.rec>>

Arrive(w) ==
  /\ walk' = w
  /\ visited' = IF w.eof THEN visited ELSE Append(visited, Stands(w))
  /\ UNCHANGED dbVars

\* The constructors.  That of a simple recordset lets the mutex go between
\* the first record and the first that matches: here it is one step.
Fresh(kind, f, k, wants) ==
  [kind |-> kind, field |-> f, key |-> k, wants |-> wants, rec |-> 0, sub |-> 0, eof |-> FALSE]

Begin(w) == Arrive(w) /\ steady' = live /\ calm' = TRUE /\ changes' = 0

OpenSimple(f, k, wants) ==
  LET w == Fresh("simple", f, k, wants)
      all == {r \in live : Matches(w, r)}
  IN Begin(IF all = {} THEN AtEof(w) ELSE [w EXCEPT !.rec = LeastRec(all)])

OpenIndexed(f, k) ==
  LET w == Fresh("indexed", f, k, FALSE)
  IN Begin(IF k \notin present[f] THEN AtEof(w) ELSE [w EXCEPT !.rec = LeastRec(idx[f][k])])

OpenOrdered(kind, f) ==
  IF present[f] = {} THEN \E k \in KeysOf(f) : Begin(AtEof(Fresh(kind, f, k, FALSE)))
  ELSE LET k == Least(f, present[f])
       IN Begin([Fresh(kind, f, k, FALSE) EXCEPT !.rec = LeastRec(idx[f][k])])

Opens ==
  /\ ~Open
  /\ \/ \E f \in IntFields, k \in Ints, wants \in BOOLEAN : OpenSimple(f, k, wants)
     \/ \E f \in IndexedFields : \E k \in KeysOf(f) : OpenIndexed(f, k)
     \/ \E f \in IndexedFields, kind \in {"ordered", "collate"} : OpenOrdered(kind, f)

MoveNext ==
  /\ Open /\ ~walk.eof
  /\ Arrive(Step(walk))
  /\ UNCHANGED <<steady, calm, changes>>

\* Somebody changes the database.
LeftAlone ==
  \/ ~Open \/ walk.kind = "simple"
  \/ walk.kind = "collate" /\ (walk.field \in IntFields \/ walk.key \in present'[walk.field])
  \/ walk.kind \in {"indexed", "ordered"} /\ idx'[walk.field][walk.key] = idx[walk.field][walk.key]
  \/ walk.kind = "ordered" /\ walk.key \notin present'[walk.field]

Change(r) ==
  /\ changes < IF Open THEN MaxChanges ELSE MaxFilled
  /\ changes' = changes + 1
  /\ steady' = steady \ {r}
  /\ calm' = (calm /\ LeftAlone)
  /\ UNCHANGED <<walk, visited>>

\* Before the walk the records come one by one, each with its values; while it
\* lasts anything may happen to any of them.
Fills ==
  /\ ~Open
  /\ \/ AddRecord /\ Change(next)
     \/ \E f \in Fields :
          /\ next > 0
          /\ \/ \E str \in Strings : SetString(next - 1, f, str)
             \/ \E n \in Ints : SetInteger(next - 1, f, n)
          /\ Change(next - 1)

Interferes ==
  /\ Open /\ ~walk.eof
  /\ \/ AddRecord /\ Change(next)
     \/ \E r \in live :
          \/ Delete(r) /\ Change(r)
          \/ \E f \in Fields :
               /\ \/ GetInteger(r, f)
                  \/ \E str \in Strings : SetString(r, f, str)
                  \/ \E n \in Ints : SetInteger(r, f, n)
               /\ Change(r)

Next == Opens \/ MoveNext \/ Fills \/ Interferes

Spec == Init /\ [][Next]_vars
-----------------------------------------------------------------------------
\* Values the variables can have.
TypeOK ==
  /\ DbTypeOK
  /\ Open => /\ walk.field \in Fields /\ walk.key \in KeysOf(walk.field)
             /\ walk.rec \in Recnos \union {0} /\ walk.sub \in 0..MaxRecords /\ walk.eof \in BOOLEAN

Before(a, b) == a[1] < b[1] \/ (a[1] = b[1] /\ a[2] < b[2])

\* A walk goes up: by number, or by value and then by number, and stands nowhere
\* twice.  A simple walk and one of values do so whatever the others do; one
\* that counts in the set of its value does if that set is left alone.
GoesUp ==
  calm \/ walk.kind = "collate" => \A i \in 1..(Len(visited) - 1) : Before(visited[i], visited[i + 1])

Qualifies(r) ==
  CASE walk.kind = "simple" -> Matches(walk, r)
    [] walk.kind = "indexed" -> r \in idx[walk.field][walk.key]
    [] OTHER -> IndexKeys(walk.field, data[r][walk.field]) # {}

WasAt(r) ==
  \E i \in DOMAIN visited :
    CASE walk.kind = "collate" -> \E k \in IndexKeys(walk.field, data[r][walk.field]) : visited[i][1] = Rank(walk.field, k)
      [] OTHER -> visited[i][2] = r

\* A walk goes up; and one that has come to its end has been at every record
\* that qualifies and that nobody touched, whatever was added, changed and
\* deleted around it; one that counts in a set, if nobody changed the set it
\* stood in.
WalkIsComplete ==
  /\ TypeOK /\ GoesUp
  /\ Open /\ calm => (walk.eof => \A r \in steady : Qualifies(r) => WasAt(r))
=============================================================================
