------------------------------- MODULE SteamDb -------------------------------
(***************************************************************************)
(* The database engine, libdbsteam: records of fields kept in containers   *)
(* of the standard library, and an index for each field that has one.  A   *)
(* field is of type string or integer, but callers may write and read      *)
(* either: a value is converted when it is asked for, and the result is    *)
(* kept beside it.  Every operation holds the database's mutex from its    *)
(* start to its end, so each is one step.                                  *)
(***************************************************************************)
EXTENDS Integers, FiniteSets

CONSTANTS
  Fields,
  IntFields, IndexedFields,  \* the fields' flags
  Ints, Strings,             \* the values used
  Num,                       \* strtoul
  Dec,                       \* printf
  MaxRecords                 \* bound: record numbers used

Recnos == 0..(MaxRecords - 1)

ASSUME SteamDbAssumption ==
  /\ IntFields \subseteq Fields /\ IndexedFields \subseteq Fields
  /\ Ints \subseteq Nat /\ 0 \in Ints
  /\ Num \in [Strings -> Ints] /\ Dec \in [Ints -> Strings]
  /\ \A n \in Ints : Num[Dec[n]] = n
  /\ MaxRecords \in Nat

VARIABLES
  live,     \* m_data's keys
  data,     \* m_data's values: for each record and field a string and an integer,
            \* and whether each of them is valid
  idx,      \* m_stringindexes, m_intindexes: for each key the records that have it
  present,  \* the keys that are in the index of each field
  next      \* m_next_recno

dbVars == <<live, data, idx, present, next>>

KeysOf(f) == IF f \in IntFields THEN Ints ELSE Strings
FieldValues == [s : Strings, i : Ints, svalid : BOOLEAN, ivalid : BOOLEAN]
Nothing == [s |-> Dec[0], i |-> 0, svalid |-> FALSE, ivalid |-> FALSE]

DbInit ==
  /\ live = {} /\ next = 0
  /\ data = [r \in Recnos |-> [f \in Fields |-> Nothing]]
  /\ idx = [f \in Fields |-> [k \in KeysOf(f) |-> {}]]
  /\ present = [f \in Fields |-> {}]

-----------------------------------------------------------------------------
\* The key under which a value is in its field's index, if it is.
IndexKeys(f, v) ==
  IF f \notin IndexedFields THEN {}
  ELSE IF f \in IntFields THEN {k \in Ints : v.ivalid /\ k = v.i}
  ELSE {k \in Strings : v.svalid /\ k = v.s}

\* A record's number is moved from the old keys to the new; a key that is left
\* with no record is erased.
Without(f, k, r, old) == idx[f][k] \ (IF k \in old THEN {r} ELSE {})
Moved(f, r, old, new) ==
  [k \in KeysOf(f) |-> Without(f, k, r, old) \union (IF k \in new THEN {r} ELSE {})]
KeysLeft_All(f, r, old, new) == present[f] \union new
KeysLeft(f, r, old, new) ==
  {k \in present[f] : k \notin old \/ Without(f, k, r, old) # {}} \union new

\* The value v of a field is replaced by w.
Put(r, f, w) ==
  LET old == IndexKeys(f, data[r][f])
      new == IndexKeys(f, w)
  IN /\ data' = [data EXCEPT ![r][f] = w]
     /\ idx' = [idx EXCEPT ![f] = Moved(f, r, old, new)]
     /\ present' = [present EXCEPT ![f] = KeysLeft(f, r, old, new)]
     /\ UNCHANGED <<live, next>>

AsString_IntKept(f, v, str) ==
  IF f \in IntFields THEN [s |-> Dec[Num[str]], i |-> Num[str], svalid |-> TRUE, ivalid |-> TRUE]
                     ELSE [v EXCEPT !.s = str, !.svalid = TRUE]
AsString(f, v, str) ==
  IF f \in IntFields THEN [s |-> Dec[Num[str]], i |-> Num[str], svalid |-> TRUE, ivalid |-> TRUE]
                     ELSE [s |-> str, i |-> v.i, svalid |-> TRUE, ivalid |-> FALSE]

\* Recordset::SetString.  An integer field throws away what is not a number.
SetString(r, f, str) ==
  /\ r \in live
  /\ IF data[r][f].svalid /\ data[r][f].s = str THEN UNCHANGED dbVars
     ELSE Put(r, f, AsString(f, data[r][f], str))

AsInteger(f, v, n) ==
  IF f \in IndexedFields \ IntFields
  THEN [s |-> Dec[n], i |-> n, svalid |-> TRUE, ivalid |-> TRUE]
  ELSE [s |-> v.s, i |-> n, svalid |-> FALSE, ivalid |-> TRUE]

\* Recordset::SetInteger.
SetInteger(r, f, n) == r \in live /\ Put(r, f, AsInteger(f, data[r][f], n))

\* Recordset::GetInteger, a const member, keeps what it has converted.
GetInteger(r, f) ==
  /\ r \in live
  /\ LET v == data[r][f]
     IN IF v.svalid /\ ~v.ivalid
        THEN data' = [data EXCEPT ![r][f] = [v EXCEPT !.i = Num[v.s], !.ivalid = TRUE]]
        ELSE UNCHANGED data
  /\ UNCHANGED <<live, idx, present, next>>

AddRecord ==
  /\ next < MaxRecords
  /\ live' = live \union {next} /\ next' = next + 1
  /\ data' = [data EXCEPT ![next] = [f \in Fields |-> Nothing]]
  /\ UNCHANGED <<idx, present>>

\* Recordset::Delete, but for its MoveNext: the record leaves every index.
Delete(r) ==
  /\ r \in live
  /\ live' = live \ {r}
  /\ idx' = [f \in Fields |-> Moved(f, r, IndexKeys(f, data[r][f]), {})]
  /\ present' = [f \in Fields |-> KeysLeft(f, r, IndexKeys(f, data[r][f]), {})]
  /\ UNCHANGED <<data, next>>

DbNext ==
  \/ AddRecord
  \/ \E r \in Recnos :
       \/ Delete(r)
       \/ \E f \in Fields :
            \/ GetInteger(r, f)
            \/ \E str \in Strings : SetString(r, f, str)
            \/ \E n \in Ints : SetInteger(r, f, n)

DbSpec == DbInit /\ [][DbNext]_dbVars
-----------------------------------------------------------------------------
\* Values the variables can have.
DbTypeOK ==
  /\ live \in SUBSET Recnos /\ next \in 0..MaxRecords /\ \A r \in live : r < next
  /\ data \in [Recnos -> [Fields -> FieldValues]]
  /\ DOMAIN idx = Fields /\ \A f \in Fields : idx[f] \in [KeysOf(f) -> SUBSET Recnos]
  /\ DOMAIN present = Fields /\ \A f \in Fields : present[f] \in SUBSET KeysOf(f)

\* An index says of each key exactly the live records whose value it is, and it
\* has no key without a record: the walks take the first record of a key they
\* find without asking whether there is one.
IndexMatchesData ==
  \A f \in Fields : \A k \in KeysOf(f) :
    /\ idx[f][k] = {r \in live : k \in IndexKeys(f, data[r][f])}
    /\ k \in present[f] <=> idx[f][k] # {}

\* What is kept beside a value is never the conversion of an earlier value.
ValuesAgree ==
  \A r \in live, f \in Fields :
    data[r][f].svalid /\ data[r][f].ivalid => data[r][f].i = Num[data[r][f].s]
=============================================================================
