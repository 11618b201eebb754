------------------------ MODULE LocalDatabase_proofs ------------------------
(***************************************************************************)
(* The local database.  The indexes of its engine say what its records     *)
(* say, for every set of fields, keys and records, and so they do around a *)
(* walk and the changes made meanwhile, which are its operations; a walk   *)
(* steps on every record it should.  And each file follows its record, for *)
(* every set of tunes, texts and threads, and every order of changes,      *)
(* commits and reads of the tasks that rewrite the files: first for the    *)
(* tasks by themselves, then with the editor as one of the writers, whose  *)
(* table of tags is saved.  Last, the scan of the media directories: for   *)
(* every tree of them the records it makes fit one another, whatever       *)
(* changes, failures and restarts come in between.                         *)
(***************************************************************************)
EXTENDS SteamWalk, TagEditor, LibraryScan, FiniteSetTheorems, SequenceTheorems, WellFoundedInduction, TLAPS

\* The string of an indexed integer field is never without its integer: were it,
\* GetInteger's conversion would be a key that is not in the index.
ConvertedAlready ==
  \A r \in live, f \in IndexedFields \intersect IntFields :
    data[r][f].svalid => data[r][f].ivalid

DbInv == DbTypeOK /\ IndexMatchesData /\ ValuesAgree /\ ConvertedAlready

-----------------------------------------------------------------------------
\* What a field's index holds is of the field's kind of key.
LEMMA IndexKeysType ==
  ASSUME NEW f, NEW v
  PROVE  IndexKeys(f, v) \subseteq KeysOf(f)
BY DEF IndexKeys, KeysOf

\* The other records with a key, and the record itself if the key is one of its new.
Others(f, k, r) == {q \in live \ {r} : k \in IndexKeys(f, data[q][f])}
Itself(k, r, new) == IF k \in new THEN {r} ELSE {}
Holders(f, k, r, new) == Others(f, k, r) \union Itself(k, r, new)

\* A record moved in an index that was right leaves each key with the other
\* records that have it, and with itself if it is to have it.
LEMMA MovedIsRight ==
  ASSUME DbTypeOK, IndexMatchesData,
         NEW f \in Fields, NEW r \in live, NEW STATE new, new \in SUBSET KeysOf(f), NEW k \in KeysOf(f),
         NEW STATE old, old = IndexKeys(f, data[r][f])
  PROVE  Moved(f, r, old, new)[k] = Holders(f, k, r, new)
<1>1. idx[f][k] = {q \in live : k \in IndexKeys(f, data[q][f])}
  BY DEF IndexMatchesData
<1>2. Without(f, k, r, old) = Others(f, k, r)
  BY <1>1 DEF Without, Others
<1>3. Moved(f, r, old, new)[k] = Without(f, k, r, old) \union Itself(k, r, new)
  BY DEF Moved, Itself
<1> QED BY <1>2, <1>3 DEF Holders

\* The keys left in an index are those of the field's kind that have a record.
LEMMA KeysLeftAreUsed ==
  ASSUME DbTypeOK, IndexMatchesData,
         NEW f \in Fields, NEW r \in live, NEW STATE new, new \in SUBSET KeysOf(f), NEW k \in KeysOf(f),
         NEW STATE old, old = IndexKeys(f, data[r][f])
  PROVE  /\ KeysLeft(f, r, old, new) \in SUBSET KeysOf(f)
         /\ k \in KeysLeft(f, r, old, new) <=> Moved(f, r, old, new)[k] # {}
<1>1. present[f] \in SUBSET KeysOf(f)
  BY DEF DbTypeOK
<1>2. KeysLeft(f, r, old, new) \in SUBSET KeysOf(f)
  BY <1>1 DEF KeysLeft
<1>3. k \in present[f] <=> idx[f][k] # {}
  BY DEF IndexMatchesData
<1>4. Moved(f, r, old, new)[k] = Without(f, k, r, old) \union Itself(k, r, new)
  BY DEF Moved, Itself
<1>5. k \notin old => Without(f, k, r, old) = idx[f][k]
  BY DEF Without
<1>6. Without(f, k, r, old) \subseteq idx[f][k]
  BY DEF Without
<1>7. k \in KeysLeft(f, r, old, new) <=> Moved(f, r, old, new)[k] # {}
  BY <1>3, <1>4, <1>5, <1>6 DEF KeysLeft, Itself
<1> QED BY <1>2, <1>7

\* Replacing a value by one whose string and integer agree.
LEMMA PutPreserves ==
  ASSUME DbInv, NEW r \in live, NEW f \in Fields, NEW STATE w, w \in FieldValues,
         w.svalid /\ w.ivalid => w.i = Num[w.s],
         f \in IndexedFields \intersect IntFields /\ w.svalid => w.ivalid,
         Put(r, f, w)
  PROVE  DbInv'
<1> DEFINE old == IndexKeys(f, data[r][f])
           new == IndexKeys(f, w)
<1> USE DEF DbInv
<1>0. r \in Recnos /\ new \in SUBSET KeysOf(f) /\ live \in SUBSET Recnos
  BY IndexKeysType DEF DbTypeOK
<1>1. /\ live' = live /\ next' = next
      /\ data' = [data EXCEPT ![r][f] = w]
      /\ idx' = [idx EXCEPT ![f] = Moved(f, r, old, new)]
      /\ present' = [present EXCEPT ![f] = KeysLeft(f, r, old, new)]
  BY DEF Put
<1>2. data' \in [Recnos -> [Fields -> FieldValues]]
  BY <1>0, <1>1 DEF DbTypeOK
<1>3. data'[r][f] = w /\ \A q \in Recnos, g \in Fields : (q # r \/ g # f) => data'[q][g] = data[q][g]
  BY <1>0, <1>1 DEF DbTypeOK
<1>4. /\ idx'[f] = Moved(f, r, old, new) /\ present'[f] = KeysLeft(f, r, old, new)
      /\ DOMAIN idx' = Fields /\ DOMAIN present' = Fields
      /\ \A g \in Fields : g # f => idx'[g] = idx[g] /\ present'[g] = present[g]
  BY <1>1 DEF DbTypeOK
<1>5. ASSUME NEW k \in KeysOf(f)
       PROVE  /\ Moved(f, r, old, new)[k] = Holders(f, k, r, new)
              /\ k \in KeysLeft(f, r, old, new) <=> Moved(f, r, old, new)[k] # {}
  <2>1. old = IndexKeys(f, data[r][f]) /\ new \in SUBSET KeysOf(f)
    BY <1>0
  <2> HIDE DEF new, old
  <2>2. Moved(f, r, old, new)[k] = Holders(f, k, r, new)
    BY <2>1, MovedIsRight
  <2>3. k \in KeysLeft(f, r, old, new) <=> Moved(f, r, old, new)[k] # {}
    BY <2>1, KeysLeftAreUsed
  <2> QED BY <2>2, <2>3
<1>6. ASSUME NEW g \in Fields
      PROVE  /\ idx'[g] \in [KeysOf(g) -> SUBSET Recnos]
             /\ present'[g] \in SUBSET KeysOf(g)
             /\ \A k \in KeysOf(g) :
                  /\ idx'[g][k] = {q \in live' : k \in IndexKeys(g, data'[q][g])}
                  /\ k \in present'[g] <=> idx'[g][k] # {}
  <2>1. CASE g # f
    <3>1. idx'[g] = idx[g] /\ present'[g] = present[g] /\ \A q \in live : data'[q][g] = data[q][g]
      BY <1>0, <1>3, <1>4, <2>1
    <3> QED BY <1>1, <3>1 DEF DbTypeOK, IndexMatchesData
  <2>2. CASE g = f
    <3> HIDE DEF old
    <3>2. ASSUME NEW k \in KeysOf(f)
          PROVE  idx'[f][k] = {q \in live' : k \in IndexKeys(f, data'[q][f])}
      <4>1. idx'[f][k] = Holders(f, k, r, new)
        BY <1>5, <1>4
      <4>2. \A q \in live \ {r} : data'[q][f] = data[q][f]
        BY <1>0, <1>3
      <4>3. IndexKeys(f, data'[r][f]) = new
        BY <1>3
      <4> HIDE DEF new
      <4> QED BY <1>1, <4>1, <4>2, <4>3 DEF Holders, Others, Itself
    <3>3. Moved(f, r, old, new) \in [KeysOf(f) -> SUBSET Recnos] /\ KeysLeft(f, r, old, new) \in SUBSET KeysOf(f)
      <4>1. idx[f] \in [KeysOf(f) -> SUBSET Recnos] /\ present[f] \in SUBSET KeysOf(f)
        BY DEF DbTypeOK
      <4> HIDE DEF new
      <4> QED BY <1>0, <4>1 DEF Moved, Without, KeysLeft
    <3> HIDE DEF new
    <3> QED BY <2>2, <1>4, <1>5, <3>2, <3>3
  <2> QED BY <2>1, <2>2
<1>7. DbTypeOK'
  BY <1>1, <1>2, <1>4, <1>6 DEF DbTypeOK, KeysOf
<1>8. IndexMatchesData'
  BY <1>6 DEF IndexMatchesData
<1>9. ValuesAgree'
  BY <1>0, <1>1, <1>3 DEF ValuesAgree
<1>10. ConvertedAlready'
  BY <1>0, <1>1, <1>3 DEF ConvertedAlready
<1> QED BY <1>7, <1>8, <1>9, <1>10

LEMMA Stutter == DbInv /\ UNCHANGED dbVars => DbInv'
BY DEF DbInv, DbTypeOK, IndexMatchesData, ValuesAgree, ConvertedAlready, IndexKeys, dbVars

-----------------------------------------------------------------------------
LEMMA InitOk == DbInit => DbInv
<1> SUFFICES ASSUME DbInit PROVE DbInv
  OBVIOUS
<1> USE SteamDbAssumption
<1>1. Nothing \in FieldValues /\ ~Nothing.svalid /\ ~Nothing.ivalid
  BY DEF Nothing, FieldValues
<1>2. DbTypeOK
  BY <1>1 DEF DbInit, DbTypeOK, Recnos
<1>3. IndexMatchesData
  BY DEF DbInit, IndexMatchesData
<1>4. ValuesAgree
  BY DEF DbInit, ValuesAgree
<1>5. ConvertedAlready
  BY DEF DbInit, ConvertedAlready
<1> QED BY <1>2, <1>3, <1>4, <1>5 DEF DbInv

\* What is written agrees with itself.
LEMMA AsStringAgrees ==
  ASSUME DbTypeOK, NEW r \in live, NEW f \in Fields, NEW str \in Strings
  PROVE  LET w == AsString(f, data[r][f], str)
         IN /\ w \in FieldValues /\ (w.svalid /\ w.ivalid => w.i = Num[w.s])
            /\ f \in IndexedFields \intersect IntFields /\ w.svalid => w.ivalid
<1>1. data[r][f] \in FieldValues
  BY DEF DbTypeOK
<1> QED BY <1>1, SteamDbAssumption DEF AsString, FieldValues

LEMMA AsIntegerAgrees ==
  ASSUME DbTypeOK, NEW r \in live, NEW f \in Fields, NEW n \in Ints
  PROVE  LET w == AsInteger(f, data[r][f], n)
         IN /\ w \in FieldValues /\ (w.svalid /\ w.ivalid => w.i = Num[w.s])
            /\ f \in IndexedFields \intersect IntFields /\ w.svalid => w.ivalid
<1>1. data[r][f] \in FieldValues
  BY DEF DbTypeOK
<1> QED BY <1>1, SteamDbAssumption DEF AsInteger, FieldValues

\* An integer that is asked for is no key of a string field's index, and that of
\* an indexed integer field is there already whenever its string is.
LEMMA GetIntegerPreserves ==
  ASSUME DbInv, NEW r \in live, NEW f \in Fields, GetInteger(r, f)
  PROVE  DbInv'
<1> USE DEF DbInv
<1>1. data[r][f] \in FieldValues /\ r \in Recnos /\ live' = live /\ idx' = idx /\ present' = present /\ next' = next
  BY DEF DbTypeOK, GetInteger
<1>2. CASE data' = data
  BY <1>1, <1>2, Stutter DEF dbVars
<1>3. CASE data[r][f].svalid /\ ~data[r][f].ivalid /\
           data' = [data EXCEPT ![r][f] = [data[r][f] EXCEPT !.i = Num[data[r][f].s], !.ivalid = TRUE]]
  <2> DEFINE w == [data[r][f] EXCEPT !.i = Num[data[r][f].s], !.ivalid = TRUE]
  <2>1. w \in FieldValues /\ w.i = Num[w.s] /\ w.s = data[r][f].s /\ w.svalid = data[r][f].svalid
    BY <1>1, SteamDbAssumption DEF FieldValues
  <2> HIDE DEF w
  <2>2. data' = [data EXCEPT ![r][f] = w]
    BY <1>3 DEF w
  <2>3. data'[r][f] = w /\ \A q \in Recnos, g \in Fields : (q # r \/ g # f) => data'[q][g] = data[q][g]
    BY <1>1, <2>2 DEF DbTypeOK
  <2>4. data' \in [Recnos -> [Fields -> FieldValues]]
    BY <1>1, <2>1, <2>2 DEF DbTypeOK
  <2>5. f \notin IndexedFields \intersect IntFields
    BY <1>1, <1>3 DEF ConvertedAlready
  <2>6. IndexKeys(f, w) = IndexKeys(f, data[r][f])
    BY <2>1, <2>5 DEF IndexKeys
  <2>7. \A q \in live, g \in Fields : IndexKeys(g, data'[q][g]) = IndexKeys(g, data[q][g])
    BY <1>1, <2>3, <2>6 DEF DbTypeOK
  <2>8. DbTypeOK'
    BY <1>1, <2>4 DEF DbTypeOK
  <2>9. IndexMatchesData'
    BY <1>1, <2>7 DEF IndexMatchesData
  <2>10. ValuesAgree'
    BY <1>1, <2>1, <2>3 DEF ValuesAgree, DbTypeOK
  <2>11. ConvertedAlready'
    BY <1>1, <2>1, <2>3, <2>5, SteamDbAssumption DEF ConvertedAlready, DbTypeOK
  <2> QED BY <2>8, <2>9, <2>10, <2>11
<1> QED BY <1>2, <1>3 DEF GetInteger

LEMMA SetStringPreserves ==
  ASSUME DbInv, NEW r \in live, NEW f \in Fields, NEW str \in Strings, SetString(r, f, str)
  PROVE  DbInv'
<1>1. CASE UNCHANGED dbVars
  BY <1>1, Stutter
<1>2. CASE Put(r, f, AsString(f, data[r][f], str))
  BY <1>2, AsStringAgrees, PutPreserves DEF DbInv
<1> QED BY <1>1, <1>2 DEF SetString

LEMMA SetIntegerPreserves ==
  ASSUME DbInv, NEW r \in live, NEW f \in Fields, NEW n \in Ints, SetInteger(r, f, n)
  PROVE  DbInv'
BY AsIntegerAgrees, PutPreserves DEF DbInv, SetInteger

\* A new record has no value in any index.
LEMMA AddRecordPreserves ==
  ASSUME DbInv, AddRecord
  PROVE  DbInv'
<1> USE DEF DbInv, AddRecord
<1>1. next \in Recnos /\ next \notin live /\ next + 1 \in 0..MaxRecords
  BY SteamDbAssumption DEF DbTypeOK, Recnos
<1>2. Nothing \in FieldValues /\ ~Nothing.svalid /\ ~Nothing.ivalid
  BY SteamDbAssumption DEF Nothing, FieldValues
<1>3. data' \in [Recnos -> [Fields -> FieldValues]]
  BY <1>1, <1>2 DEF DbTypeOK
<1>4. \A g \in Fields : data'[next][g] = Nothing /\ \A q \in Recnos \ {next} : data'[q][g] = data[q][g]
  BY <1>1 DEF DbTypeOK
<1>5. DbTypeOK'
  <2>1. live' \in SUBSET Recnos /\ \A r \in live' : r < next'
    BY <1>1 DEF DbTypeOK, Recnos
  <2> QED BY <1>1, <1>3, <2>1 DEF DbTypeOK
<1>6. IndexMatchesData'
  <2> SUFFICES ASSUME NEW f \in Fields, NEW k \in KeysOf(f)
               PROVE  /\ idx[f][k] = {r \in live' : k \in IndexKeys(f, data'[r][f])}
                      /\ k \in present[f] <=> idx[f][k] # {}
    BY DEF IndexMatchesData
  <2>1. k \notin IndexKeys(f, data'[next][f])
    BY <1>2, <1>4 DEF IndexKeys
  <2>2. \A r \in live : IndexKeys(f, data'[r][f]) = IndexKeys(f, data[r][f])
    BY <1>1, <1>4 DEF DbTypeOK
  <2>3. idx[f][k] = {r \in live : k \in IndexKeys(f, data[r][f])} /\ (k \in present[f] <=> idx[f][k] # {})
    BY DEF IndexMatchesData
  <2> QED BY <1>1, <2>1, <2>2, <2>3
<1>7. ValuesAgree'
  BY <1>1, <1>2, <1>4 DEF ValuesAgree, DbTypeOK
<1>8. ConvertedAlready'
  BY <1>1, <1>2, <1>4, SteamDbAssumption DEF ConvertedAlready, DbTypeOK
<1> QED BY <1>5, <1>6, <1>7, <1>8

LEMMA DeletePreserves ==
  ASSUME DbInv, NEW r \in live, Delete(r)
  PROVE  DbInv'
<1> USE DEF DbInv
<1>1. /\ r \in Recnos /\ live' = live \ {r} /\ data' = data /\ next' = next
      /\ idx' = [f \in Fields |-> Moved(f, r, IndexKeys(f, data[r][f]), {})]
      /\ present' = [f \in Fields |-> KeysLeft(f, r, IndexKeys(f, data[r][f]), {})]
  BY DEF Delete, DbTypeOK
<1>2. ASSUME NEW f \in Fields
      PROVE  idx'[f] \in [KeysOf(f) -> SUBSET Recnos] /\ present'[f] \in SUBSET KeysOf(f)
  <2>1. idx[f] \in [KeysOf(f) -> SUBSET Recnos] /\ present[f] \in SUBSET KeysOf(f)
    BY DEF DbTypeOK
  <2>2. idx'[f] = Moved(f, r, IndexKeys(f, data[r][f]), {}) /\ present'[f] = KeysLeft(f, r, IndexKeys(f, data[r][f]), {})
    BY <1>1
  <2> QED BY <2>1, <2>2 DEF Moved, Without, KeysLeft
<1>3. ASSUME NEW f \in Fields, NEW k \in KeysOf(f)
      PROVE  /\ idx'[f][k] = {q \in live' : k \in IndexKeys(f, data'[q][f])}
             /\ k \in present'[f] <=> idx'[f][k] # {}
  <2> DEFINE old == IndexKeys(f, data[r][f])
             none == {}
  <2>1. old = IndexKeys(f, data[r][f]) /\ none \in SUBSET KeysOf(f) /\ Itself(k, r, none) = {}
    BY DEF Itself
  <2>2. idx'[f] = Moved(f, r, old, none) /\ present'[f] = KeysLeft(f, r, old, none)
    BY <1>1
  <2> HIDE DEF old, none
  <2>3. Moved(f, r, old, none)[k] = Holders(f, k, r, none)
    BY <2>1, MovedIsRight
  <2>4. k \in KeysLeft(f, r, old, none) <=> Moved(f, r, old, none)[k] # {}
    BY <2>1, KeysLeftAreUsed
  <2> QED BY <1>1, <2>1, <2>2, <2>3, <2>4 DEF Holders, Others
<1>4. DbTypeOK'
  BY <1>1, <1>2 DEF DbTypeOK
<1>5. IndexMatchesData'
  BY <1>3 DEF IndexMatchesData
<1>6. ValuesAgree'
  BY <1>1 DEF ValuesAgree
<1>7. ConvertedAlready'
  BY <1>1 DEF ConvertedAlready
<1> QED BY <1>4, <1>5, <1>6, <1>7

LEMMA StepOk == DbInv /\ [DbNext]_dbVars => DbInv'
<1> SUFFICES ASSUME DbInv, [DbNext]_dbVars PROVE DbInv'
  OBVIOUS
<1>1. CASE AddRecord
  BY <1>1, AddRecordPreserves
<1>2. ASSUME NEW r \in Recnos, Delete(r) PROVE DbInv'
  BY <1>2, DeletePreserves DEF Delete
<1>3. ASSUME NEW r \in Recnos, NEW f \in Fields, GetInteger(r, f) PROVE DbInv'
  BY <1>3, GetIntegerPreserves DEF GetInteger
<1>4. ASSUME NEW r \in Recnos, NEW f \in Fields, NEW str \in Strings, SetString(r, f, str) PROVE DbInv'
  BY <1>4, SetStringPreserves DEF SetString
<1>5. ASSUME NEW r \in Recnos, NEW f \in Fields, NEW n \in Ints, SetInteger(r, f, n) PROVE DbInv'
  BY <1>5, SetIntegerPreserves DEF SetInteger
<1>6. CASE UNCHANGED dbVars
  BY <1>6, Stutter
<1> QED BY <1>1, <1>2, <1>3, <1>4, <1>5, <1>6 DEF DbNext

-----------------------------------------------------------------------------
\* Whatever is written, read and deleted in whatever order, each index has
\* exactly the live records under exactly their values and no empty key
\* (SetString, SetInteger, Delete: the walks rely on it).
THEOREM IndexesAlwaysMatch == DbSpec => []IndexMatchesData
<1>1. DbInv => IndexMatchesData
  BY DEF DbInv
<1> QED BY InitOk, StepOk, <1>1, PTL DEF DbSpec

\* A conversion kept beside a value is never that of an earlier value
\* (Recordset::GetInteger writes in a const member).
THEOREM ValuesAlwaysAgree == DbSpec => []ValuesAgree
<1>1. DbInv => ValuesAgree
  BY DEF DbInv
<1> QED BY InitOk, StepOk, <1>1, PTL DEF DbSpec
-----------------------------------------------------------------------------
\* Every step of the walk or of the others is one of the database or leaves it.
LEMMA WalkStep == DbInv /\ [Next]_vars => [DbNext]_dbVars
<1> SUFFICES ASSUME DbInv, [Next]_vars PROVE [DbNext]_dbVars
  OBVIOUS
<1>1. next \in 0..MaxRecords /\ live \subseteq Recnos
  BY DEF DbInv, DbTypeOK
<1>2. CASE Opens
  BY <1>2 DEF Opens, OpenSimple, OpenIndexed, OpenOrdered, Begin, Arrive
<1>3. CASE MoveNext
  BY <1>3 DEF MoveNext, Arrive
<1>4. CASE Fills
  <2>1. next > 0 => next - 1 \in Recnos
    BY <1>1, SteamDbAssumption DEF Recnos
  <2> QED BY <1>4, <2>1 DEF Fills, DbNext
<1>5. CASE Interferes
  BY <1>1, <1>5 DEF Interferes, DbNext
<1>6. CASE UNCHANGED vars
  BY <1>6 DEF vars
<1> QED BY <1>2, <1>3, <1>4, <1>5, <1>6 DEF Next

LEMMA WalkKeepsDbInv == Spec => []DbInv
<1>1. Init => DbInv
  BY InitOk DEF Init
<1>2. DbInv /\ [Next]_vars => DbInv'
  BY WalkStep, StepOk
<1> QED BY <1>1, <1>2, PTL DEF Spec

\* The walks, their own changes and those of others implement the database.
THEOREM WalkImplementsDb == Spec => DbSpec
<1>1. Init => DbInit
  BY DEF Init
<1> QED BY <1>1, WalkStep, WalkKeepsDbInv, PTL DEF Spec, DbSpec

\* While recordsets walk and others write, each index has exactly the live
\* records under exactly their values and no empty key (SetString, SetInteger,
\* Delete): the walks take the first record of a key without asking.
THEOREM WalksFindIndexesRight == Spec => []IndexMatchesData
BY WalkImplementsDb, IndexesAlwaysMatch, PTL

\* While others write, no conversion that GetInteger kept is of an old value.
THEOREM WalksReadTrueValues == Spec => []ValuesAgree
BY WalkImplementsDb, ValuesAlwaysAgree, PTL

-----------------------------------------------------------------------------
(* The walk itself.                                                        *)
Kinds == {"simple", "indexed", "ordered", "collate"}
Walks == [kind : Kinds, field : Fields, key : Ints \cup Strings, wants : BOOLEAN,
          rec : Recnos \cup {0}, sub : 0..MaxRecords, eof : BOOLEAN]

WalkOK(w) ==
  /\ w \in Walks /\ w.key \in KeysOf(w.field)
  /\ w.field \in IF w.kind = "simple" THEN IntFields ELSE IndexedFields

WalkTypes ==
  /\ Open => WalkOK(walk)
  /\ visited \in Seq(Nat \X Nat) /\ steady \subseteq live /\ calm \in BOOLEAN /\ changes \in Nat
  /\ ~Open => walk = Closed /\ steady = {} /\ visited = <<>>

(* A walk that has not ended stands where it was last.                     *)
StandsHere == Open /\ ~walk.eof => visited # <<>> /\ visited[Len(visited)] = Stands(walk)

(* One that counts in a set that was left alone stands at the record it    *)
(* has counted to; one of strings, at a value that is still there.         *)
Lower(recs, r) == {s \in recs : s < r}

CountOK(w) ==
  /\ w.kind \in {"indexed", "ordered"} /\ w.key \in present[w.field] =>
       /\ w.rec \in idx[w.field][w.key]
       /\ w.sub = Cardinality(Lower(idx[w.field][w.key], w.rec))
  /\ w.kind = "collate" /\ w.field \notin IntFields => w.key \in present[w.field]

CountsRight == Open /\ calm /\ ~walk.eof => CountOK(walk)

(* The records and the values that a walk is past, or stands at.           *)
KeysHeld(w, r)   == IndexKeys(w.field, data[r][w.field])
PastKey(w, k)    == Rank(w.field, k) < Rank(w.field, w.key)
Past(w, r) ==
  CASE w.kind \in {"simple", "indexed"} -> r <= w.rec
    [] w.kind = "ordered" -> \E k \in KeysHeld(w, r) : PastKey(w, k) \/ (k = w.key /\ r <= w.rec)
    [] w.kind = "collate" -> \E k \in KeysHeld(w, r) : PastKey(w, k) \/ k = w.key

Wanted(w, r) ==
  CASE w.kind = "simple" -> Matches(w, r)
    [] w.kind = "indexed" -> r \in idx[w.field][w.key]
    [] w.kind \in {"ordered", "collate"} -> KeysHeld(w, r) # {}

MissedNothing == Open /\ calm => \A r \in steady : Wanted(walk, r) /\ (walk.eof \/ Past(walk, r)) => WasAt(r)

WalkInv == WalkTypes /\ StandsHere /\ GoesUp /\ CountsRight /\ MissedNothing

-----------------------------------------------------------------------------
(* Least numbers, least values, and the numbers before one in a set.       *)
LEMMA LeastNat ==
  ASSUME NEW T, T \subseteq Nat, T # {}
  PROVE  \E x \in T : \A y \in T : x <= y
<1>1. PICK x \in T : \A y \in T : <<y, x>> \notin OpToRel(<, Nat)
  BY NatLessThanWellFounded, WFMin, Zenon
<1>2. \A y \in T : ~(y < x)
  BY <1>1 DEF OpToRel
<1> QED
  BY <1>2

LEMMA LeastRecFacts ==
  ASSUME NEW recs, recs \subseteq Nat, recs # {}
  PROVE  LeastRec(recs) \in recs /\ \A s \in recs : LeastRec(recs) <= s
<1>1. \E r \in recs : \A s \in recs : r <= s
  BY LeastNat
<1> QED
  BY <1>1 DEF LeastRec

LEMMA RankFacts ==
  ASSUME NEW f
  PROVE  /\ \A k \in KeysOf(f) : Rank(f, k) \in Nat
         /\ \A k, j \in KeysOf(f) : Rank(f, k) = Rank(f, j) => k = j
BY SteamDbAssumption, SteamWalkAssumption DEF KeysOf, Rank

LEMMA LeastFacts ==
  ASSUME NEW f, NEW keys, keys \subseteq KeysOf(f), keys # {}
  PROVE  /\ Least(f, keys) \in keys
         /\ \A j \in keys : Rank(f, Least(f, keys)) <= Rank(f, j)
<1> DEFINE T == {Rank(f, k) : k \in keys}
<1>1. T \subseteq Nat /\ T # {}
  BY RankFacts
<1> HIDE DEF T
<1>2. PICK x \in T : \A y \in T : x <= y
  BY <1>1, LeastNat
<1>3. PICK k \in keys : x = Rank(f, k)
  BY DEF T
<1>4. \A j \in keys : Rank(f, k) <= Rank(f, j)
  BY <1>2, <1>3 DEF T
<1> QED
  BY <1>4 DEF Least

LEMMA RecsAreFinite ==
  ASSUME NEW recs, recs \subseteq Recnos
  PROVE  IsFiniteSet(recs) /\ Cardinality(recs) \in 0..MaxRecords /\ recs \subseteq Nat
<1>1. IsFiniteSet(Recnos) /\ Cardinality(Recnos) = MaxRecords /\ Recnos \subseteq Nat
  BY FS_Interval, SteamDbAssumption DEF Recnos
<1>2. IsFiniteSet(recs) /\ Cardinality(recs) <= Cardinality(Recnos)
  BY <1>1, FS_Subset
<1> QED
  BY <1>1, <1>2, FS_CardinalityType

LEMMA LowerFacts ==
  ASSUME NEW recs, recs \subseteq Recnos, NEW r \in recs
  PROVE  /\ IsFiniteSet(Lower(recs, r)) /\ Cardinality(Lower(recs, r)) \in Nat
         /\ IsFiniteSet(Lower(recs, r) \cup {r})
         /\ Cardinality(Lower(recs, r) \cup {r}) = Cardinality(Lower(recs, r)) + 1
         /\ Lower(recs, r) \cup {r} \subseteq recs
<1>1. Lower(recs, r) \subseteq Recnos /\ r \in Nat /\ r \notin Lower(recs, r)
  BY RecsAreFinite DEF Lower
<1>2. IsFiniteSet(Lower(recs, r)) /\ Cardinality(Lower(recs, r)) \in Nat
  BY <1>1, RecsAreFinite
<1>3. IsFiniteSet(Lower(recs, r) \cup {r}) /\ Cardinality(Lower(recs, r) \cup {r}) = Cardinality(Lower(recs, r)) + 1
  BY <1>1, <1>2, FS_AddElement
<1> QED
  BY <1>1, <1>2, <1>3 DEF Lower

(* Of two records of a set the higher has more before it.                  *)
LEMMA HigherHasMore ==
  ASSUME NEW recs, recs \subseteq Recnos, NEW r \in recs, NEW s \in recs, r < s
  PROVE  Cardinality(Lower(recs, r)) + 1 <= Cardinality(Lower(recs, s))
<1>1. r \in Nat /\ s \in Nat /\ recs \subseteq Nat
  BY RecsAreFinite
<1>2. ASSUME NEW q \in Lower(recs, r) \cup {r} PROVE q \in Lower(recs, s)
  <2>1. q \in recs /\ q \in Nat /\ q <= r
    BY <1>1 DEF Lower
  <2> QED
    BY <1>1, <2>1 DEF Lower
<1>3. Lower(recs, r) \cup {r} \in SUBSET Lower(recs, s)
  BY <1>2
<1>4. IsFiniteSet(Lower(recs, s))
  BY LowerFacts
<1>5. Cardinality(Lower(recs, r) \cup {r}) <= Cardinality(Lower(recs, s))
  BY <1>3, <1>4, FS_Subset, Zenon
<1> QED
  BY <1>5, LowerFacts

(* There is one with n before it, for each n below the size of the set.    *)
LEMMA NthFacts ==
  ASSUME NEW recs, recs \subseteq Recnos, NEW n \in Nat, n < Cardinality(recs)
  PROVE  Nth(recs, n) \in recs /\ Cardinality(Lower(recs, Nth(recs, n))) = n
<1> DEFINE T == {m \in Nat : m < Cardinality(recs) /\ \A r \in recs : Cardinality(Lower(recs, r)) # m}
<1>1. ASSUME T # {} PROVE FALSE
  <2>1. PICK m \in T : \A y \in T : m <= y
    <3>1. T \subseteq Nat
      OBVIOUS
    <3> HIDE DEF T
    <3> QED
      BY <1>1, <3>1, LeastNat
  <2>2. m \in Nat /\ m < Cardinality(recs) /\ \A r \in recs : Cardinality(Lower(recs, r)) # m
    OBVIOUS
  <2>2a. \A y \in Nat : y \in T \/ y >= Cardinality(recs) \/ \E r \in recs : Cardinality(Lower(recs, r)) = y
    BY RecsAreFinite
  <2> HIDE DEF T
  <2>3. recs \subseteq Nat /\ IsFiniteSet(recs) /\ Cardinality(recs) \in Nat
    BY RecsAreFinite
  <2>4. CASE m = 0
    <3>1. recs # {}
      BY <2>2, <2>3, FS_EmptySet
    <3>2. PICK r \in recs : \A s \in recs : r <= s
      BY <2>3, <3>1, LeastNat
    <3>3. Lower(recs, r) = {}
      <4>1. \A s \in recs : ~(s < r)
        BY <2>3, <3>2
      <4> QED
        BY <4>1 DEF Lower
    <3> QED
      BY <2>2, <2>4, <3>3, FS_EmptySet
  <2>5. CASE m # 0
    <3>1. m - 1 \in Nat /\ m - 1 < Cardinality(recs) /\ m - 1 \notin T
      <4>1. m - 1 \in Nat /\ m - 1 < Cardinality(recs) /\ ~(m <= m - 1)
        BY <2>2, <2>3, <2>5
      <4> QED
        BY <2>1, <4>1
    <3>2. PICK p \in recs : Cardinality(Lower(recs, p)) = m - 1
      BY <2>2a, <2>3, <3>1
    <3>3. Cardinality(Lower(recs, p) \cup {p}) = m /\ Lower(recs, p) \cup {p} \subseteq recs
      <4>1. /\ Cardinality(Lower(recs, p) \cup {p}) = Cardinality(Lower(recs, p)) + 1
            /\ Lower(recs, p) \cup {p} \subseteq recs
        BY LowerFacts
      <4>2. (m - 1) + 1 = m
        BY <2>2
      <4> QED
        BY <3>2, <4>1, <4>2
    <3>3a. Lower(recs, p) \cup {p} # recs
      <4>1. m # Cardinality(recs)
        BY <2>2, <2>3
      <4> QED
        BY <3>3, <4>1
    <3>4. PICK s \in recs : s \notin Lower(recs, p) \cup {p}
      BY <3>3, <3>3a
    <3> DEFINE after == {q \in recs : q > p}
    <3>5. after # {} /\ after \subseteq Nat
      <4>1. s \in Nat /\ p \in Nat
        BY <2>3
      <4>2. ~(s < p) /\ s # p
        BY <3>4 DEF Lower
      <4>3. s \in after
        BY <4>1, <4>2
      <4> QED
        BY <2>3, <4>3
    <3>6. PICK r \in after : \A q \in after : r <= q
      <4> HIDE DEF after
      <4> QED
        BY <3>5, LeastNat
    <3>7. Lower(recs, r) = Lower(recs, p) \cup {p}
      <4>1. ASSUME NEW q \in recs PROVE q < r <=> q < p \/ q = p
        <5>1. q \in Nat /\ p \in Nat /\ r \in Nat /\ r > p
          BY <2>3, <3>6
        <5>2. q > p => r <= q
          BY <3>6
        <5> QED
          BY <5>1, <5>2
      <4> QED
        BY <4>1 DEF Lower
    <3>8. r \in recs
      BY <3>6
    <3> QED
      BY <2>2, <3>3, <3>7, <3>8
  <2> QED
    BY <2>4, <2>5
<1>2. \E r \in recs : Cardinality(Lower(recs, r)) = n
  BY <1>1
<1> QED
  BY <1>2 DEF Nth, Lower

(* Counting on in a set comes to the next record of it, and to its end     *)
(* when there is none.                                                     *)
LEMMA CountingOn ==
  ASSUME NEW recs, recs \subseteq Recnos, NEW r \in recs, NEW n \in Nat, n = Cardinality(Lower(recs, r))
  PROVE  /\ n + 1 < Cardinality(recs) =>
              /\ Nth(recs, n + 1) \in recs /\ Nth(recs, n + 1) > r
              /\ \A s \in recs : s <= r \/ s >= Nth(recs, n + 1)
         /\ n + 1 >= Cardinality(recs) => \A s \in recs : s <= r
<1>0. recs \subseteq Nat /\ IsFiniteSet(recs) /\ Cardinality(recs) \in Nat
  BY RecsAreFinite
<1>1. ASSUME n + 1 < Cardinality(recs)
      PROVE  /\ Nth(recs, n + 1) \in recs /\ Nth(recs, n + 1) > r
             /\ \A s \in recs : s <= r \/ s >= Nth(recs, n + 1)
  <2> DEFINE q == Nth(recs, n + 1)
  <2>1. q \in recs /\ Cardinality(Lower(recs, q)) = n + 1
    BY <1>1, NthFacts
  <2> HIDE DEF q
  <2>2. q > r
    <3>1. CASE q < r
      BY <2>1, <3>1, HigherHasMore
    <3>2. CASE q = r
      BY <2>1, <3>2
    <3> QED
      BY <1>0, <2>1, <3>1, <3>2
  <2>3. ASSUME NEW s \in recs, r < s, s < q PROVE FALSE
    <3>1. n + 1 <= Cardinality(Lower(recs, s))
      BY <2>3, HigherHasMore
    <3>2. Cardinality(Lower(recs, s)) + 1 <= n + 1
      BY <2>1, <2>3, HigherHasMore
    <3>3. Cardinality(Lower(recs, s)) \in Nat
      BY LowerFacts
    <3> QED
      BY <3>1, <3>2, <3>3
  <2>4. \A s \in recs : s <= r \/ s >= q
    BY <1>0, <2>1, <2>3
  <2> QED
    BY <2>1, <2>2, <2>4 DEF q
<1>2. ASSUME n + 1 >= Cardinality(recs), NEW s \in recs, r < s PROVE FALSE
  <2>1. n + 1 <= Cardinality(Lower(recs, s))
    BY <1>2, HigherHasMore
  <2>2. /\ Cardinality(Lower(recs, s)) \in Nat
        /\ Cardinality(Lower(recs, s)) + 1 <= Cardinality(recs)
    <3>1. /\ Cardinality(Lower(recs, s)) \in Nat /\ Lower(recs, s) \cup {s} \in SUBSET recs
          /\ Cardinality(Lower(recs, s) \cup {s}) = Cardinality(Lower(recs, s)) + 1
      BY LowerFacts
    <3>2. Cardinality(Lower(recs, s) \cup {s}) <= Cardinality(recs)
      BY <1>0, <3>1, FS_Subset, Zenon
    <3> QED
      BY <3>1, <3>2
  <2> QED
    BY <1>0, <1>2, <2>1, <2>2
<1> QED
  BY <1>0, <1>1, <1>2

-----------------------------------------------------------------------------
(* A step of the walk.  Where it stands it is at one record, or at one     *)
(* value; what it is past then it was past before, or is at.               *)
IsAt(w, r) == IF w.kind = "collate" THEN w.key \in KeysHeld(w, r) ELSE w.rec = r

GoodNext(w) ==
  /\ WalkOK(w) /\ w.kind = walk.kind /\ w.field = walk.field /\ w.wants = walk.wants
  /\ w.kind \in {"simple", "indexed"} => w.key = walk.key
  /\ (calm \/ w.kind = "collate") /\ ~w.eof => Before(Stands(walk), Stands(w))
  /\ calm /\ ~w.eof => CountOK(w)
  /\ calm => \A r \in steady : Wanted(walk, r) /\ (w.eof \/ Past(w, r)) =>
                                Past(walk, r) \/ (~w.eof /\ IsAt(w, r))

Walking == DbInv /\ WalkInv /\ Open /\ ~walk.eof

LEMMA IndexFacts ==
  ASSUME DbInv, NEW f \in Fields
  PROVE  /\ live \subseteq Recnos /\ present[f] \subseteq KeysOf(f) /\ Recnos \subseteq Nat
         /\ \A k \in KeysOf(f) : /\ idx[f][k] \subseteq Recnos
                                 /\ idx[f][k] = {r \in live : k \in IndexKeys(f, data[r][f])}
                                 /\ k \in present[f] <=> idx[f][k] # {}
         /\ \A r \in live : IndexKeys(f, data[r][f]) \subseteq present[f]
<1>1. live \subseteq Recnos /\ present[f] \subseteq KeysOf(f) /\ Recnos \subseteq Nat
  BY SteamDbAssumption DEF DbInv, DbTypeOK, Recnos
<1>2. \A k \in KeysOf(f) : /\ idx[f][k] = {r \in live : k \in IndexKeys(f, data[r][f])}
                           /\ k \in present[f] <=> idx[f][k] # {}
  BY DEF DbInv, IndexMatchesData
<1>3. ASSUME NEW r \in live, NEW k \in IndexKeys(f, data[r][f]) PROVE k \in present[f]
  <2>1. k \in KeysOf(f)
    BY IndexKeysType
  <2> QED
    BY <1>2, <2>1
<1> QED
  BY <1>1, <1>2, <1>3

(* A field of the walk is one of the database's.                           *)
LEMMA WalkFields ==
  ASSUME NEW w, WalkOK(w)
  PROVE  /\ w.kind \in Kinds /\ w.field \in Fields /\ w.key \in KeysOf(w.field) /\ w.wants \in BOOLEAN
         /\ w.rec \in Recnos \cup {0} /\ w.sub \in 0..MaxRecords /\ w.eof \in BOOLEAN
         /\ w.rec \in Nat /\ w.sub \in Nat
BY SteamDbAssumption DEF WalkOK, Walks, Recnos

(* The end is good when nothing is left.                                   *)
LEMMA EndIsGood ==
  ASSUME Walking, calm => \A r \in steady : Wanted(walk, r) => Past(walk, r)
  PROVE  GoodNext(AtEof(walk))
<1>1. WalkOK(walk)
  BY DEF Walking, WalkInv, WalkTypes
<1> DEFINE w == AtEof(walk)
<1>2. /\ w \in Walks /\ w.eof /\ w.kind = walk.kind /\ w.field = walk.field /\ w.wants = walk.wants
      /\ w.key = walk.key
  BY <1>1 DEF AtEof, WalkOK, Walks
<1> HIDE DEF w
<1>3. WalkOK(w)
  BY <1>1, <1>2 DEF WalkOK
<1>4. GoodNext(w)
  BY <1>2, <1>3 DEF GoodNext
<1> QED
  BY <1>4 DEF w

LEMMA SimpleNextIsGood ==
  ASSUME Walking, walk.kind = "simple"
  PROVE  GoodNext(SimpleNext(walk))
<1>1. WalkOK(walk) /\ steady \subseteq live
  BY DEF Walking, WalkInv, WalkTypes
<1>2. live \subseteq Recnos /\ Recnos \subseteq Nat /\ walk.rec \in Nat
  BY <1>1, IndexFacts, WalkFields DEF Walking
<1> DEFINE after == {r \in live : r > walk.rec /\ Matches(walk, r)}
<1>3. CASE after = {}
  <2>1. \A r \in steady : Wanted(walk, r) => Past(walk, r)
    BY <1>1, <1>2, <1>3 DEF Wanted, Past
  <2>2. SimpleNext(walk) = AtEof(walk)
    BY <1>3 DEF SimpleNext
  <2> QED
    BY <2>1, <2>2, EndIsGood
<1>4. CASE after # {}
  <2> DEFINE n == LeastRec(after)
             w == [walk EXCEPT !.rec = n]
  <2>1. n \in after /\ \A s \in after : n <= s
    <3>1. after \subseteq Nat
      BY <1>2
    <3> HIDE DEF after
    <3> QED
      BY <1>4, <3>1, LeastRecFacts
  <2> HIDE DEF n
  <2>2. /\ w \in Walks /\ w.kind = "simple" /\ w.field = walk.field /\ w.wants = walk.wants
        /\ w.key = walk.key /\ w.rec = n /\ w.eof = walk.eof
    BY <1>1, <1>2, <2>1 DEF WalkOK, Walks
  <2>3. SimpleNext(walk) = w
    BY <1>4 DEF SimpleNext, n
  <2> HIDE DEF w
  <2>4. WalkOK(w)
    BY <1>1, <2>2 DEF WalkOK
  <2>5. Before(Stands(walk), Stands(w))
    BY <1>2, <2>1, <2>2 DEF Before, Stands
  <2>6. CountOK(w)
    BY <2>2 DEF CountOK
  <2>7. ASSUME NEW r \in steady, Wanted(walk, r), Past(w, r)
        PROVE  Past(walk, r) \/ IsAt(w, r)
    <3>1. Matches(walk, r) /\ r \in live /\ r \in Nat /\ r <= n /\ n \in Nat
      BY <1>1, <1>2, <2>1, <2>2, <2>7 DEF Wanted, Past
    <3>2. r <= walk.rec \/ r \in after
      BY <1>2, <3>1
    <3>3. r \in after => r = n
      BY <2>1, <3>1
    <3> QED
      BY <2>2, <3>2, <3>3 DEF Past, IsAt
  <2>8. ~w.eof
    BY <2>2 DEF Walking
  <2>9. GoodNext(w)
    BY <2>2, <2>4, <2>5, <2>6, <2>7, <2>8 DEF GoodNext
  <2> QED
    BY <2>3, <2>9
<1> QED
  BY <1>3, <1>4

(* Where the walk's value has its records.                                 *)
LEMMA ItsSet ==
  ASSUME Walking
  PROVE  /\ idx[walk.field][walk.key] \subseteq Recnos /\ Recnos \subseteq Nat
         /\ present[walk.field] \subseteq KeysOf(walk.field)
         /\ walk.key \in present[walk.field] <=> idx[walk.field][walk.key] # {}
         /\ \A r \in steady : /\ r \in Nat /\ KeysHeld(walk, r) \subseteq present[walk.field]
                              /\ walk.key \in KeysHeld(walk, r) <=> r \in idx[walk.field][walk.key]
<1>1. WalkOK(walk) /\ steady \subseteq live
  BY DEF Walking, WalkInv, WalkTypes
<1> QED
  BY <1>1, WalkFields, IndexFacts DEF Walking, KeysHeld

LEMMA CountsOnIsGood ==
  ASSUME Walking, walk.kind \in {"indexed", "ordered"}, walk.key \in present[walk.field],
         walk.sub + 1 < Cardinality(idx[walk.field][walk.key])
  PROVE  GoodNext([walk EXCEPT !.sub = @ + 1, !.rec = Nth(idx[walk.field][walk.key], walk.sub + 1)])
<1> DEFINE recs == idx[walk.field][walk.key]
           n == Nth(recs, walk.sub + 1)
           w == [walk EXCEPT !.sub = @ + 1, !.rec = n]
<1>1. WalkOK(walk) /\ steady \subseteq live /\ walk.sub \in Nat /\ walk.rec \in Nat
  BY WalkFields DEF Walking, WalkInv, WalkTypes
<1>2. /\ recs \subseteq Recnos /\ Recnos \subseteq Nat
      /\ \A r \in steady : r \in Nat /\ (walk.key \in KeysHeld(walk, r) <=> r \in recs)
  BY ItsSet
<1>3. recs = idx[walk.field][walk.key] /\ walk.sub + 1 < Cardinality(recs)
  OBVIOUS
<1> HIDE DEF recs
<1>4. n \in recs /\ Cardinality(Lower(recs, n)) = walk.sub + 1 /\ Cardinality(recs) \in 0..MaxRecords
  BY <1>1, <1>2, <1>3, NthFacts, RecsAreFinite
<1>5. calm => /\ n > walk.rec /\ \A s \in recs : s <= walk.rec \/ s >= n
  <2> SUFFICES ASSUME calm PROVE n > walk.rec /\ \A s \in recs : s <= walk.rec \/ s >= n
    OBVIOUS
  <2>1. walk.rec \in recs /\ walk.sub = Cardinality(Lower(recs, walk.rec))
    BY <1>3 DEF Walking, WalkInv, CountsRight, CountOK
  <2> QED
    BY <1>1, <1>2, <1>3, <2>1, CountingOn
<1> HIDE DEF n
<1>6. /\ w \in Walks /\ w.kind = walk.kind /\ w.field = walk.field /\ w.wants = walk.wants
      /\ w.key = walk.key /\ w.rec = n /\ w.sub = walk.sub + 1 /\ w.eof = walk.eof
  <2>1. walk.sub + 1 \in 0..MaxRecords
    BY <1>1, <1>3, <1>4, SteamDbAssumption
  <2>2. n \in Recnos \cup {0}
    BY <1>2, <1>4
  <2> QED
    BY <1>1, <2>1, <2>2 DEF WalkOK, Walks
<1> HIDE DEF w
<1>7. WalkOK(w)
  BY <1>1, <1>6 DEF WalkOK
<1>8. calm => Before(Stands(walk), Stands(w))
  BY <1>5, <1>6 DEF Before, Stands
<1>9. CountOK(w)
  BY <1>3, <1>4, <1>6 DEF CountOK
<1>10. ASSUME calm, NEW r \in steady, Wanted(walk, r), Past(w, r)
       PROVE  Past(walk, r) \/ IsAt(w, r)
  <2>1. r \in recs /\ r <= n => r <= walk.rec \/ r = n
    BY <1>2, <1>4, <1>5, <1>10
  <2>2. CASE walk.kind = "indexed"
    BY <1>3, <1>6, <1>10, <2>1, <2>2 DEF Wanted, Past, IsAt
  <2>3. CASE walk.kind = "ordered"
    <3>1. PICK k \in KeysHeld(walk, r) : PastKey(walk, k) \/ (k = walk.key /\ r <= n)
      BY <1>6, <1>10, <2>3 DEF Past, KeysHeld, PastKey
    <3>2. PastKey(walk, k) \/ r <= walk.rec \/ r = n
      BY <1>2, <2>1, <3>1
    <3> QED
      BY <1>6, <2>3, <3>1, <3>2 DEF Past, IsAt
  <2> QED
    BY <2>2, <2>3
<1>11. ~w.eof
  BY <1>6 DEF Walking
<1>12. GoodNext(w)
  BY <1>6, <1>7, <1>8, <1>9, <1>10, <1>11 DEF GoodNext
<1> QED
  BY <1>12, <1>3 DEF w, n

(* When it cannot count on, it was at the last record of its set.          *)
LEMMA WasAtLast ==
  ASSUME Walking, calm, walk.kind \in {"indexed", "ordered"},
         ~(walk.key \in present[walk.field] /\ walk.sub + 1 < Cardinality(idx[walk.field][walk.key])),
         NEW r \in idx[walk.field][walk.key]
  PROVE  r <= walk.rec
<1> DEFINE recs == idx[walk.field][walk.key]
<1>1. walk.sub \in Nat
  BY WalkFields DEF Walking, WalkInv, WalkTypes
<1>2. recs \subseteq Recnos /\ walk.key \in present[walk.field]
  BY ItsSet
<1>3. walk.rec \in recs /\ walk.sub = Cardinality(Lower(recs, walk.rec))
  BY <1>2 DEF Walking, WalkInv, CountsRight, CountOK
<1>4. Cardinality(recs) \in Nat /\ ~(walk.sub + 1 < Cardinality(recs)) /\ r \in recs
  BY <1>2, RecsAreFinite
<1> HIDE DEF recs
<1>5. walk.sub + 1 >= Cardinality(recs)
  BY <1>1, <1>4
<1> QED
  BY <1>1, <1>2, <1>3, <1>4, <1>5, CountingOn

LEMMA IndexedNextIsGood ==
  ASSUME Walking, walk.kind = "indexed"
  PROVE  GoodNext(IndexedNext(walk))
<1>1. walk.sub \in Nat
  BY WalkFields DEF Walking, WalkInv, WalkTypes
<1>2. Cardinality(idx[walk.field][walk.key]) \in Nat
  BY ItsSet, RecsAreFinite
<1>3. CASE walk.key \in present[walk.field] /\ walk.sub + 1 < Cardinality(idx[walk.field][walk.key])
  <2>1. IndexedNext(walk) =
          [walk EXCEPT !.sub = @ + 1, !.rec = Nth(idx[walk.field][walk.key], walk.sub + 1)]
    BY <1>1, <1>2, <1>3 DEF IndexedNext
  <2> QED
    BY <1>3, <2>1, CountsOnIsGood
<1>4. CASE ~(walk.key \in present[walk.field] /\ walk.sub + 1 < Cardinality(idx[walk.field][walk.key]))
  <2>1. IndexedNext(walk) = AtEof(walk)
    BY <1>1, <1>2, <1>4 DEF IndexedNext
  <2>2. calm => \A r \in steady : Wanted(walk, r) => Past(walk, r)
    BY <1>4, WasAtLast DEF Wanted, Past
  <2> QED
    BY <2>1, <2>2, EndIsGood
<1> QED
  BY <1>3, <1>4

(* The next value is the least above the walk's own: what is between them  *)
(* is no record's.                                                         *)
LEMMA NextKeyIsGood ==
  ASSUME Walking, walk.kind \in {"ordered", "collate"},
         walk.kind = "ordered" =>
           ~(walk.key \in present[walk.field] /\ walk.sub + 1 < Cardinality(idx[walk.field][walk.key]))
  PROVE  GoodNext(NextKey(walk))
<1> DEFINE f == walk.field
           keys == KeysFrom(f, Rank(f, walk.key) + 1)
<1>1. WalkOK(walk) /\ steady \subseteq live /\ walk.key \in KeysOf(f) /\ f \in Fields /\ walk.kind \in Kinds
  BY WalkFields DEF Walking, WalkInv, WalkTypes
<1>2. /\ present[f] \subseteq KeysOf(f) /\ Recnos \subseteq Nat
      /\ \A r \in steady : /\ r \in Nat /\ KeysHeld(walk, r) \subseteq present[f]
                           /\ walk.key \in KeysHeld(walk, r) <=> r \in idx[f][walk.key]
  BY ItsSet
<1>3. /\ \A k \in KeysOf(f) : Rank(f, k) \in Nat
      /\ \A k, j \in KeysOf(f) : Rank(f, k) = Rank(f, j) => k = j
  BY RankFacts
<1>4. ASSUME calm, NEW r \in steady, NEW k \in KeysHeld(walk, r), Rank(f, k) <= Rank(f, walk.key)
      PROVE  Past(walk, r)
  <2>1. PastKey(walk, k) \/ k = walk.key
    BY <1>1, <1>2, <1>3, <1>4 DEF PastKey
  <2>2. walk.kind = "ordered" /\ k = walk.key => r <= walk.rec
    BY <1>2, <1>4, WasAtLast
  <2> QED
    BY <2>1, <2>2 DEF Past
<1>5. CASE keys = {}
  <2>1. ASSUME calm, NEW r \in steady, Wanted(walk, r) PROVE Past(walk, r)
    <3>1. PICK k \in KeysHeld(walk, r) : TRUE
      BY <2>1 DEF Wanted
    <3>2. k \in present[f] /\ k \in KeysOf(f)
      BY <1>2, <3>1
    <3>3. ~(Rank(f, k) >= Rank(f, walk.key) + 1)
      BY <1>5, <3>2 DEF KeysFrom
    <3>4. Rank(f, k) <= Rank(f, walk.key)
      BY <1>1, <1>3, <3>2, <3>3
    <3> QED
      BY <1>4, <2>1, <3>1, <3>4
  <2>2. NextKey(walk) = AtEof(walk)
    BY <1>5 DEF NextKey
  <2> QED
    BY <2>1, <2>2, EndIsGood
<1>6. CASE keys # {}
  <2> DEFINE n == Least(f, keys)
             recs == idx[f][n]
             q == LeastRec(recs)
             w == [walk EXCEPT !.key = n, !.sub = 0, !.rec = q]
  <2>0. keys \subseteq present[f] /\ keys \subseteq KeysOf(f)
        /\ \A k \in present[f] : k \in keys <=> Rank(f, k) >= Rank(f, walk.key) + 1
    BY <1>2 DEF KeysFrom
  <2>1. NextKey(walk) = w
    BY <1>6 DEF NextKey
  <2> HIDE DEF keys
  <2>2. n \in keys /\ \A j \in keys : Rank(f, n) <= Rank(f, j)
    BY <1>6, <2>0, LeastFacts
  <2> HIDE DEF n
  <2>3. n \in present[f] /\ n \in KeysOf(f) /\ Rank(f, n) > Rank(f, walk.key) /\ Rank(f, n) \in Nat
    BY <1>1, <1>3, <2>0, <2>2
  <2>4. recs \subseteq Recnos /\ recs # {}
    BY <1>1, <2>3, IndexFacts DEF Walking
  <2>5. \A r \in steady : n \in KeysHeld(walk, r) <=> r \in recs
    BY <1>1, <2>3, IndexFacts DEF Walking, KeysHeld
  <2> HIDE DEF recs
  <2>6. q \in recs /\ \A s \in recs : q <= s
    BY <1>2, <2>4, LeastRecFacts
  <2> HIDE DEF q
  <2>7. /\ w \in Walks /\ w.kind = walk.kind /\ w.field = f /\ w.wants = walk.wants
        /\ w.key = n /\ w.rec = q /\ w.sub = 0 /\ w.eof = walk.eof
    <3>1. n \in Ints \cup Strings /\ 0 \in 0..MaxRecords
      BY <2>3, SteamDbAssumption DEF KeysOf
    <3> QED
      BY <1>1, <2>4, <2>6, <3>1 DEF WalkOK, Walks
  <2> HIDE DEF w
  <2>8. WalkOK(w)
    BY <1>1, <2>3, <2>7 DEF WalkOK
  <2>9. Before(Stands(walk), Stands(w))
    BY <1>1, <1>3, <2>3, <2>7 DEF Before, Stands
  <2>10. CountOK(w)
    <3>1. Lower(recs, q) = {}
      <4>1. \A s \in recs : ~(s < q)
        BY <1>2, <2>4, <2>6
      <4> QED
        BY <4>1 DEF Lower
    <3>2. Cardinality(Lower(recs, q)) = 0
      BY <3>1, FS_EmptySet
    <3> QED
      BY <2>3, <2>6, <2>7, <3>2 DEF CountOK, recs
  <2>11. ASSUME calm, NEW r \in steady, Wanted(walk, r), Past(w, r)
         PROVE  Past(walk, r) \/ IsAt(w, r)
    <3>1. PICK k \in KeysHeld(walk, r) : PastKey(w, k) \/ (k = n /\ (walk.kind = "ordered" => r <= q))
      BY <2>7, <2>11 DEF Past, KeysHeld
    <3>2. CASE PastKey(w, k)
      <4>1. k \in present[f] /\ k \in KeysOf(f) /\ Rank(f, k) < Rank(f, n)
        BY <1>2, <2>7, <3>1, <3>2 DEF PastKey
      <4>2. k \notin keys
        BY <1>3, <2>2, <2>3, <4>1
      <4>3. Rank(f, k) <= Rank(f, walk.key)
        BY <1>1, <1>3, <2>0, <4>1, <4>2
      <4> QED
        BY <1>4, <2>11, <3>1, <4>3
    <3>3. CASE k = n /\ walk.kind = "collate"
      BY <2>7, <3>1, <3>3 DEF IsAt, KeysHeld
    <3>4. CASE k = n /\ walk.kind = "ordered" /\ r <= q
      <4>1. r \in recs
        BY <2>5, <3>1, <3>4
      <4>2. r = q
        BY <1>2, <2>4, <2>6, <3>4, <4>1
      <4> QED
        BY <2>7, <3>4, <4>2 DEF IsAt
    <3> QED
      BY <3>1, <3>2, <3>3, <3>4
  <2>12. ~w.eof
    BY <2>7 DEF Walking
  <2>13. GoodNext(w)
    BY <2>7, <2>8, <2>9, <2>10, <2>11, <2>12 DEF GoodNext
  <2> QED
    BY <2>1, <2>13
<1> QED
  BY <1>5, <1>6

LEMMA StepIsGood ==
  ASSUME Walking
  PROVE  GoodNext(Step(walk))
<1>1. walk.kind \in Kinds /\ walk.sub \in Nat
  BY WalkFields DEF Walking, WalkInv, WalkTypes
<1>2. CASE walk.kind = "simple"
  BY <1>2, SimpleNextIsGood DEF Step
<1>3. CASE walk.kind = "indexed"
  BY <1>3, IndexedNextIsGood DEF Step
<1>4. CASE walk.kind = "ordered"
  <2>1. Step(walk) = OrderedNext(walk)
    BY <1>4 DEF Step
  <2>2. CASE walk.key \in present[walk.field] /\ walk.sub + 1 < Cardinality(idx[walk.field][walk.key])
    <3>1. OrderedNext(walk) =
            [walk EXCEPT !.sub = @ + 1, !.rec = Nth(idx[walk.field][walk.key], walk.sub + 1)]
      BY <2>2 DEF OrderedNext
    <3> QED
      BY <1>4, <2>1, <2>2, <3>1, CountsOnIsGood
  <2>3. CASE ~(walk.key \in present[walk.field] /\ walk.sub + 1 < Cardinality(idx[walk.field][walk.key]))
    <3>1. OrderedNext(walk) = NextKey(walk)
      BY <2>3 DEF OrderedNext
    <3> QED
      BY <1>4, <2>1, <2>3, <3>1, NextKeyIsGood
  <2> QED
    BY <2>2, <2>3
<1>5. CASE walk.kind = "collate"
  <2>1. Step(walk) = CollateNext(walk)
    BY <1>5 DEF Step
  <2>2. CASE walk.field \notin IntFields /\ walk.key \notin present[walk.field]
    <3>1. CollateNext(walk) = AtEof(walk)
      BY <2>2 DEF CollateNext
    <3>2. ~calm
      BY <1>5, <2>2 DEF Walking, WalkInv, CountsRight, CountOK
    <3> QED
      BY <2>1, <3>1, <3>2, EndIsGood
  <2>3. CASE ~(walk.field \notin IntFields /\ walk.key \notin present[walk.field])
    <3>1. CollateNext(walk) = NextKey(walk)
      BY <2>3 DEF CollateNext
    <3> QED
      BY <1>5, <2>1, <3>1, NextKeyIsGood
  <2> QED
    BY <2>2, <2>3
<1> QED
  BY <1>1, <1>2, <1>3, <1>4, <1>5 DEF Kinds

(* What a walk stands at, by number and by value.                          *)
LEMMA StandsType ==
  ASSUME NEW w, WalkOK(w)
  PROVE  Stands(w) \in Nat \X Nat
BY WalkFields, RankFacts DEF Stands

LEMMA MoveNextKeeps ==
  ASSUME DbInv, WalkInv, MoveNext
  PROVE  WalkInv'
<1> DEFINE w == Step(walk)
<1>1. Walking /\ UNCHANGED <<dbVars, steady, calm, changes>> /\ walk' = w
      /\ visited' = IF w.eof THEN visited ELSE Append(visited, Stands(w))
  BY DEF Walking, MoveNext, Arrive
<1>2. GoodNext(w)
  BY <1>1, StepIsGood
<1> HIDE DEF w
<1>3. /\ visited \in Seq(Nat \X Nat) /\ visited # <<>> /\ visited[Len(visited)] = Stands(walk)
      /\ steady \subseteq live /\ calm \in BOOLEAN /\ changes \in Nat /\ GoesUp /\ MissedNothing
      /\ WalkOK(walk)
  BY <1>1 DEF Walking, WalkInv, WalkTypes, StandsHere
<1>4. /\ WalkOK(w) /\ w.kind = walk.kind /\ w.field = walk.field /\ w.wants = walk.wants
      /\ w.kind \in Kinds /\ w.kind # "closed"
  BY <1>2, <1>3, WalkFields DEF GoodNext, Kinds
<1>5. Stands(w) \in Nat \X Nat
  BY <1>4, StandsType
<1>6. /\ DOMAIN visited = 1..Len(visited) /\ Len(visited) \in Nat
      /\ visited' \in Seq(Nat \X Nat) /\ DOMAIN visited' = 1..Len(visited') /\ Len(visited') \in Nat
      /\ \A i \in DOMAIN visited : i \in DOMAIN visited' /\ visited'[i] = visited[i]
      /\ w.eof => visited' = visited
      /\ ~w.eof => /\ Len(visited') = Len(visited) + 1
                   /\ visited'[Len(visited) + 1] = Stands(w) /\ visited' # <<>>
  <2>1. CASE w.eof
    BY <1>1, <1>3, <2>1
  <2>2. CASE ~w.eof
    <3>1. /\ visited' \in Seq(Nat \X Nat) /\ Len(visited') = Len(visited) + 1
          /\ \A i \in 1..Len(visited) : visited'[i] = visited[i]
          /\ visited'[Len(visited) + 1] = Stands(w)
      BY <1>1, <1>3, <1>5, <2>2, AppendProperties
    <3>2. /\ DOMAIN visited = 1..Len(visited) /\ Len(visited) \in Nat
          /\ DOMAIN visited' = 1..Len(visited')
      BY <1>3, <3>1, LenProperties
    <3>3. visited' # <<>> /\ \A i \in 1..Len(visited) : i \in 1..Len(visited')
      BY <3>1, <3>2, EmptySeq
    <3>4. Len(visited') \in Nat
      BY <3>1, <3>2
    <3> QED
      BY <2>2, <3>1, <3>2, <3>3, <3>4
  <2> QED
    BY <2>1, <2>2
<1>7. WalkTypes'
  <2>2. Open'
    BY <1>1, <1>4 DEF Open
  <2> QED
    BY <1>1, <1>3, <1>4, <1>6, <2>2 DEF WalkTypes, WalkOK, Walks, dbVars
<1>8. StandsHere'
  BY <1>1, <1>6 DEF StandsHere, Stands
<1>9. GoesUp'
  <2>0. \A i \in 1..(Len(visited') - 1) :
          /\ i \in DOMAIN visited
          /\ i + 1 \in DOMAIN visited => i \in 1..(Len(visited) - 1)
          /\ i + 1 \notin DOMAIN visited => ~w.eof /\ i = Len(visited)
    <3>1. Len(visited) \in Nat /\ DOMAIN visited = 1..Len(visited)
          /\ Len(visited') = IF w.eof THEN Len(visited) ELSE Len(visited) + 1
      BY <1>6
    <3>2. CASE w.eof
      BY <3>1, <3>2
    <3>3. CASE ~w.eof
      <4>1. Len(visited') - 1 = Len(visited)
        BY <3>1, <3>3
      <4>2. ASSUME NEW n \in Nat, NEW i \in 1..n PROVE (i + 1 \in 1..n => i \in 1..(n - 1)) /\ (i + 1 \notin 1..n => i = n)
        OBVIOUS
      <4> QED
        BY <3>1, <3>3, <4>1, <4>2
    <3> QED
      BY <3>2, <3>3
  <2>1. ASSUME calm \/ w.kind = "collate", NEW i \in 1..(Len(visited') - 1)
        PROVE  Before(visited'[i], visited'[i + 1])
    <3>1. calm \/ walk.kind = "collate"
      BY <1>4, <2>1
    <3>2. CASE i + 1 \in DOMAIN visited
      <4>1. i \in DOMAIN visited /\ i \in 1..(Len(visited) - 1)
        BY <2>0, <3>2
      <4>2. Before(visited[i], visited[i + 1])
        BY <1>3, <3>1, <4>1 DEF GoesUp
      <4> QED
        BY <1>6, <3>2, <4>1, <4>2
    <3>3. CASE i + 1 \notin DOMAIN visited
      <4>1. ~w.eof /\ i = Len(visited) /\ i \in DOMAIN visited
        BY <2>0, <3>3
      <4>2. visited'[i] = Stands(walk) /\ visited'[i + 1] = Stands(w)
        BY <1>3, <1>6, <4>1
      <4> QED
        BY <1>2, <2>1, <4>1, <4>2 DEF GoodNext
    <3> QED
      BY <3>2, <3>3
  <2> QED
    BY <1>1, <2>1 DEF GoesUp
<1>10. CountsRight'
  <2>1. calm /\ ~w.eof => CountOK(w)
    BY <1>2 DEF GoodNext
  <2> QED
    BY <1>1, <2>1 DEF CountsRight, CountOK, dbVars
<1>11. MissedNothing'
  <2>1. ASSUME calm, NEW r \in steady, Wanted(walk, r), w.eof \/ Past(w, r)
        PROVE  WasAt(r)'
    <3>1. WasAt(r) => WasAt(r)'
      <4>1. walk'.kind = walk.kind /\ walk'.field = walk.field /\ data' = data
        BY <1>1, <1>4 DEF dbVars
      <4>2. \A i \in DOMAIN visited : i \in DOMAIN visited' /\ visited'[i] = visited[i]
        BY <1>6
      <4> QED
        BY <4>1, <4>2 DEF WasAt
    <3>2. Past(walk, r) => WasAt(r)
      BY <1>1, <1>3, <2>1 DEF MissedNothing, Walking
    <3>3. ~w.eof /\ IsAt(w, r) => WasAt(r)'
      <4> SUFFICES ASSUME ~w.eof, IsAt(w, r) PROVE WasAt(r)'
        OBVIOUS
      <4>1. Len(visited) + 1 \in DOMAIN visited' /\ visited'[Len(visited) + 1] = Stands(w)
        <5>1. Len(visited) \in Nat /\ Len(visited') = Len(visited) + 1 /\ DOMAIN visited' = 1..Len(visited')
              /\ visited'[Len(visited) + 1] = Stands(w)
          BY <1>6
        <5> QED
          BY <5>1
      <4>2. CASE w.kind = "collate"
        <5>1. Stands(w)[1] = Rank(w.field, w.key) /\ w.key \in IndexKeys(w.field, data[r][w.field])
          BY <4>2 DEF Stands, IsAt, KeysHeld
        <5> QED
          BY <1>1, <4>1, <4>2, <5>1 DEF WasAt, dbVars
      <4>3. CASE w.kind # "collate"
        <5>1. Stands(w)[2] = r
          BY <4>3 DEF Stands, IsAt
        <5> QED
          BY <1>1, <4>1, <4>3, <5>1 DEF WasAt
      <4> QED
        BY <4>2, <4>3
    <3> QED
      BY <1>2, <2>1, <3>1, <3>2, <3>3 DEF GoodNext
  <2>2. ASSUME NEW r PROVE (Wanted(walk, r)' <=> Wanted(walk, r)) /\ (Past(walk, r)' <=> Past(w, r))
    <3>1. Wanted(walk, r)' <=> Wanted(w, r)
      BY <1>1 DEF Wanted, Matches, Value, KeysHeld, dbVars
    <3>2. Wanted(w, r) <=> Wanted(walk, r)
      <4>1. w.kind \in {"simple", "indexed"} => w.key = walk.key
        BY <1>2 DEF GoodNext
      <4> QED
        BY <1>4, <4>1 DEF Wanted, Matches, Value, KeysHeld, Kinds
    <3>3. Past(walk, r)' <=> Past(w, r)
      BY <1>1 DEF Past, KeysHeld, PastKey, dbVars
    <3> QED
      BY <3>1, <3>2, <3>3
  <2> QED
    BY <1>1, <2>1, <2>2 DEF MissedNothing
<1> QED
  BY <1>7, <1>8, <1>9, <1>10, <1>11 DEF WalkInv

-----------------------------------------------------------------------------
(* A walk begins at the first of what it wants.                            *)
GoodStart(w) ==
  /\ WalkOK(w) /\ (~w.eof => CountOK(w))
  /\ \A r \in live : Wanted(w, r) /\ (w.eof \/ Past(w, r)) => ~w.eof /\ IsAt(w, r)

LEMMA BeginKeeps ==
  ASSUME DbInv, WalkInv, ~Open, NEW STATE w, GoodStart(w), Begin(w)
  PROVE  WalkInv'
<1>1. /\ UNCHANGED dbVars /\ walk' = w /\ steady' = live /\ calm' = TRUE /\ changes' = 0
      /\ visited' = IF w.eof THEN visited ELSE Append(visited, Stands(w))
  BY DEF Begin, Arrive
<1>2. visited = <<>> /\ WalkOK(w)
  BY DEF WalkInv, WalkTypes, GoodStart
<1>3. Stands(w) \in Nat \X Nat /\ w.kind \in Kinds /\ w.kind # "closed"
  BY <1>2, StandsType, WalkFields DEF Kinds
<1>4. /\ visited' \in Seq(Nat \X Nat) /\ Len(visited') <= 1 /\ Len(visited') \in Nat
      /\ ~w.eof => Len(visited') = 1 /\ visited'[1] = Stands(w) /\ 1 \in DOMAIN visited' /\ visited' # <<>>
  <2>1. CASE w.eof
    BY <1>1, <1>2, <2>1
  <2>2. CASE ~w.eof
    <3>1. visited' = <<Stands(w)>>
      BY <1>1, <1>2, <2>2
    <3> QED
      BY <1>3, <2>2, <3>1
  <2> QED
    BY <2>1, <2>2
<1>5. WalkTypes'
  BY <1>1, <1>2, <1>3, <1>4 DEF WalkTypes, WalkOK, Walks, Open, dbVars
<1>6. StandsHere'
  BY <1>1, <1>4 DEF StandsHere, Stands
<1>7. GoesUp'
  BY <1>4 DEF GoesUp
<1>8. CountsRight'
  BY <1>1 DEF CountsRight, CountOK, GoodStart, dbVars
<1>9. MissedNothing'
  <2>1. ASSUME NEW r \in live, Wanted(w, r), w.eof \/ Past(w, r) PROVE WasAt(r)'
    <3>1. ~w.eof /\ IsAt(w, r)
      BY <2>1 DEF GoodStart
    <3>2. CASE w.kind = "collate"
      <4>1. visited'[1][1] = Rank(w.field, w.key) /\ w.key \in IndexKeys(w.field, data[r][w.field])
        BY <1>4, <3>1, <3>2 DEF Stands, IsAt, KeysHeld
      <4> QED
        BY <1>1, <1>4, <3>1, <3>2, <4>1 DEF WasAt, dbVars
    <3>3. CASE w.kind # "collate"
      <4>1. visited'[1][2] = r
        BY <1>4, <3>1, <3>3 DEF Stands, IsAt
      <4> QED
        BY <1>1, <1>4, <3>1, <3>3, <4>1 DEF WasAt
    <3> QED
      BY <3>2, <3>3
  <2>2. ASSUME NEW r PROVE (Wanted(walk, r)' <=> Wanted(w, r)) /\ (Past(walk, r)' <=> Past(w, r))
    BY <1>1 DEF Wanted, Matches, Value, Past, KeysHeld, PastKey, dbVars
  <2> QED
    BY <1>1, <2>1, <2>2 DEF MissedNothing
<1> QED
  BY <1>5, <1>6, <1>7, <1>8, <1>9 DEF WalkInv

LEMMA FreshFacts ==
  ASSUME NEW kind \in Kinds, NEW f \in IF kind = "simple" THEN IntFields ELSE IndexedFields,
         NEW k \in KeysOf(f), NEW wants \in BOOLEAN, NEW r \in Recnos \cup {0}
  PROVE  /\ WalkOK(AtEof(Fresh(kind, f, k, wants)))
         /\ WalkOK([Fresh(kind, f, k, wants) EXCEPT !.rec = r])
<1>1. f \in Fields /\ k \in Ints \cup Strings /\ 0 \in 0..MaxRecords
  BY SteamDbAssumption DEF KeysOf
<1>2. Fresh(kind, f, k, wants) \in Walks
  BY <1>1 DEF Fresh, Walks
<1> QED
  BY <1>2 DEF Fresh, AtEof, WalkOK, Walks

LEMMA OpenSimpleKeeps ==
  ASSUME DbInv, WalkInv, ~Open, NEW f \in IntFields, NEW k \in Ints, NEW wants \in BOOLEAN,
         OpenSimple(f, k, wants)
  PROVE  WalkInv'
<1> DEFINE w0 == Fresh("simple", f, k, wants)
           all == {r \in live : Matches(w0, r)}
<1>1. live \subseteq Recnos /\ Recnos \subseteq Nat /\ f \in Fields /\ k \in KeysOf(f)
  BY IndexFacts, SteamDbAssumption DEF KeysOf
<1>2. CASE all = {}
  <2>1. Begin(AtEof(w0))
    BY <1>2 DEF OpenSimple
  <2>2. WalkOK(AtEof(w0))
    BY <1>1, FreshFacts DEF Kinds
  <2>3. GoodStart(AtEof(w0))
    BY <1>2, <2>2 DEF GoodStart, AtEof, Fresh, Wanted, Matches, Value
  <2> QED
    BY <2>1, <2>3, BeginKeeps
<1>3. CASE all # {}
  <2> DEFINE n == LeastRec(all)
             w == [w0 EXCEPT !.rec = n]
  <2>1. n \in all /\ \A s \in all : n <= s
    <3>1. all \subseteq Nat
      BY <1>1
    <3> HIDE DEF all
    <3> QED
      BY <1>3, <3>1, LeastRecFacts
  <2>2. Begin(w)
    BY <1>3 DEF OpenSimple
  <2> HIDE DEF n
  <2>3. WalkOK(w)
    BY <1>1, <2>1, FreshFacts DEF Kinds
  <2>4. /\ w.kind = "simple" /\ w.rec = n /\ ~w.eof /\ w.wants = wants /\ w.field = f /\ w.key = k
        /\ w0.wants = wants /\ w0.field = f /\ w0.key = k
    BY DEF Fresh
  <2> HIDE DEF w, w0
  <2>5. ASSUME NEW r \in live, Wanted(w, r), Past(w, r) PROVE IsAt(w, r)
    <3>1. r \in all /\ r <= n
      BY <2>4, <2>5 DEF Wanted, Past, Matches, Value
    <3>2. r \in Nat /\ n \in Nat /\ n <= r
      BY <1>1, <2>1, <3>1
    <3> QED
      BY <2>4, <3>1, <3>2 DEF IsAt
  <2>6. GoodStart(w)
    BY <2>3, <2>4, <2>5 DEF GoodStart, CountOK
  <2> QED
    BY <2>2, <2>6, BeginKeeps
<1> QED
  BY <1>2, <1>3

(* The least of an index's records has none before it.                     *)
LEMMA FirstOfKey ==
  ASSUME DbInv, NEW f \in Fields, NEW k \in present[f]
  PROVE  /\ k \in KeysOf(f) /\ LeastRec(idx[f][k]) \in idx[f][k] /\ LeastRec(idx[f][k]) \in Recnos
         /\ Cardinality(Lower(idx[f][k], LeastRec(idx[f][k]))) = 0
         /\ \A s \in idx[f][k] : LeastRec(idx[f][k]) <= s /\ s \in Nat /\ LeastRec(idx[f][k]) \in Nat
<1> DEFINE recs == idx[f][k]
           n == LeastRec(recs)
<1>1. k \in KeysOf(f)
  BY IndexFacts
<1>2. recs \subseteq Recnos /\ recs # {} /\ Recnos \subseteq Nat
  BY <1>1, IndexFacts
<1> HIDE DEF recs
<1>3. n \in recs /\ \A s \in recs : n <= s
  BY <1>2, LeastRecFacts
<1> HIDE DEF n
<1>4. ASSUME NEW s \in recs PROVE ~(s < n)
  <2>1. s \in Nat /\ n \in Nat /\ n <= s
    BY <1>2, <1>3
  <2> QED
    BY <2>1
<1>5. Lower(recs, n) = {}
  BY <1>4 DEF Lower
<1>6. Cardinality(Lower(recs, n)) = 0
  BY <1>5, FS_EmptySet
<1>7. k \in KeysOf(f) /\ n \in recs /\ n \in Recnos /\ \A s \in recs : n <= s /\ s \in Nat /\ n \in Nat
  BY <1>1, <1>2, <1>3
<1> QED
  BY <1>6, <1>7 DEF n, recs

LEMMA OpenIndexedKeeps ==
  ASSUME DbInv, WalkInv, ~Open, NEW f \in IndexedFields, NEW k \in KeysOf(f), OpenIndexed(f, k)
  PROVE  WalkInv'
<1> DEFINE w0 == Fresh("indexed", f, k, FALSE)
<1>1. f \in Fields
  BY SteamDbAssumption
<1>2. CASE k \notin present[f]
  <2>1. Begin(AtEof(w0))
    BY <1>2 DEF OpenIndexed
  <2>2. WalkOK(AtEof(w0))
    BY FreshFacts DEF Kinds
  <2>3. idx[f][k] = {}
    BY <1>1, <1>2, IndexFacts
  <2>4. GoodStart(AtEof(w0))
    BY <2>2, <2>3 DEF GoodStart, AtEof, Fresh, Wanted
  <2> QED
    BY <2>1, <2>4, BeginKeeps
<1>3. CASE k \in present[f]
  <2> DEFINE n == LeastRec(idx[f][k])
             w == [w0 EXCEPT !.rec = n]
  <2>1. Begin(w)
    BY <1>3 DEF OpenIndexed
  <2>2. /\ n \in idx[f][k] /\ n \in Recnos /\ Cardinality(Lower(idx[f][k], n)) = 0
        /\ \A s \in idx[f][k] : n <= s /\ s \in Nat /\ n \in Nat
    BY <1>1, <1>3, FirstOfKey
  <2> HIDE DEF n
  <2>3. WalkOK(w)
    BY <2>2, FreshFacts DEF Kinds
  <2>4. w.kind = "indexed" /\ w.rec = n /\ ~w.eof /\ w.field = f /\ w.key = k /\ w.sub = 0
    BY DEF Fresh
  <2> HIDE DEF w
  <2>5. ASSUME NEW r \in live, Wanted(w, r), Past(w, r) PROVE IsAt(w, r)
    <3>1. r \in idx[f][k] /\ r <= n
      BY <2>4, <2>5 DEF Wanted, Past
    <3>2. r = n
      BY <2>2, <3>1
    <3> QED
      BY <2>4, <3>2 DEF IsAt
  <2>6. GoodStart(w)
    BY <2>2, <2>3, <2>4, <2>5 DEF GoodStart, CountOK
  <2> QED
    BY <2>1, <2>6, BeginKeeps
<1> QED
  BY <1>2, <1>3

LEMMA OpenOrderedKeeps ==
  ASSUME DbInv, WalkInv, ~Open, NEW kind \in {"ordered", "collate"}, NEW f \in IndexedFields,
         OpenOrdered(kind, f)
  PROVE  WalkInv'
<1>1. f \in Fields /\ kind \in Kinds /\ kind # "simple" /\ kind # "indexed"
  BY SteamDbAssumption DEF Kinds
<1>2. /\ present[f] \subseteq KeysOf(f) /\ \A r \in live : IndexKeys(f, data[r][f]) \subseteq present[f]
      /\ \A r \in live, k \in KeysOf(f) : r \in idx[f][k] <=> k \in IndexKeys(f, data[r][f])
  BY <1>1, IndexFacts
<1>3. CASE present[f] = {}
  <2>1. PICK k \in KeysOf(f) : Begin(AtEof(Fresh(kind, f, k, FALSE)))
    BY <1>3 DEF OpenOrdered
  <2> DEFINE w == AtEof(Fresh(kind, f, k, FALSE))
  <2>2. WalkOK(w)
    BY <1>1, FreshFacts
  <2>3. w.kind = kind /\ w.field = f /\ w.eof
    BY DEF AtEof, Fresh
  <2> HIDE DEF w
  <2>4. \A r \in live : ~Wanted(w, r)
    BY <1>1, <1>2, <1>3, <2>3 DEF Wanted, KeysHeld
  <2>5. GoodStart(w)
    BY <2>2, <2>3, <2>4 DEF GoodStart
  <2> QED
    BY <2>1, <2>5, BeginKeeps DEF w
<1>4. CASE present[f] # {}
  <2> DEFINE k == Least(f, present[f])
             n == LeastRec(idx[f][k])
             w == [Fresh(kind, f, k, FALSE) EXCEPT !.rec = n]
  <2>1. Begin(w)
    BY <1>4 DEF OpenOrdered
  <2>2. k \in present[f] /\ \A j \in present[f] : Rank(f, k) <= Rank(f, j)
    BY <1>2, <1>4, LeastFacts
  <2> HIDE DEF k
  <2>3. /\ k \in KeysOf(f) /\ n \in idx[f][k] /\ n \in Recnos /\ Cardinality(Lower(idx[f][k], n)) = 0
        /\ \A s \in idx[f][k] : n <= s /\ s \in Nat /\ n \in Nat
    BY <1>1, <2>2, FirstOfKey
  <2> HIDE DEF n
  <2>4. WalkOK(w)
    BY <1>1, <2>3, FreshFacts
  <2>5. w.kind = kind /\ w.rec = n /\ ~w.eof /\ w.field = f /\ w.key = k /\ w.sub = 0
    BY DEF Fresh
  <2> HIDE DEF w
  <2>6. ASSUME NEW r \in live, Wanted(w, r), Past(w, r) PROVE IsAt(w, r)
    <3>1. PICK j \in IndexKeys(f, data[r][f]) :
            PastKey(w, j) \/ (j = k /\ (kind = "ordered" => r <= n))
      BY <1>1, <2>5, <2>6 DEF Past, KeysHeld
    <3>2. j \in present[f] /\ j \in KeysOf(f)
      BY <1>2, <3>1
    <3>3. ~PastKey(w, j)
      BY <2>2, <2>3, <2>5, <3>2, RankFacts DEF PastKey
    <3>4. j = k /\ r \in idx[f][k]
      BY <1>2, <3>1, <3>2, <3>3
    <3>5. kind = "ordered" => r = n
      BY <2>3, <3>1, <3>3, <3>4
    <3> QED
      BY <1>1, <2>5, <3>1, <3>4, <3>5 DEF IsAt, KeysHeld
  <2>7. GoodStart(w)
    BY <2>2, <2>3, <2>4, <2>5, <2>6 DEF GoodStart, CountOK
  <2> QED
    BY <2>1, <2>7, BeginKeeps
<1> QED
  BY <1>3, <1>4

-----------------------------------------------------------------------------
(* A value that is replaced is that of one record.                         *)
LEMMA PutTouches ==
  ASSUME DbInv, NEW r \in live, NEW f \in Fields, NEW STATE w, Put(r, f, w)
  PROVE  \A q \in live \ {r} : q \in live' /\ data'[q] = data[q]
<1>1. live \subseteq Recnos /\ data' = [data EXCEPT ![r][f] = w] /\ live' = live /\ DOMAIN data = Recnos
  BY DEF DbInv, DbTypeOK, Put
<1> QED
  BY <1>1

(* The others change the database: the records they do not touch are as    *)
(* they were, and so is what the walk wants of them.                       *)
LEMMA Undisturbed ==
  ASSUME DbInv, DbInv', WalkInv, Open, ~walk.eof, NEW r, Change(r),
         \A q \in live \ {r} : q \in live' /\ data'[q] = data[q]
  PROVE  WalkInv'
<1>1. /\ UNCHANGED <<walk, visited>> /\ steady' = steady \ {r} /\ calm' = (calm /\ LeftAlone)
      /\ changes' = changes + 1
  BY DEF Change
<1>2. /\ WalkOK(walk) /\ visited \in Seq(Nat \X Nat) /\ steady \subseteq live /\ calm \in BOOLEAN
      /\ changes \in Nat /\ StandsHere /\ GoesUp /\ CountsRight /\ MissedNothing
  BY DEF WalkInv, WalkTypes
<1>3. walk.field \in Fields /\ walk.key \in KeysOf(walk.field) /\ walk.kind \in Kinds
  BY <1>2, WalkFields
<1>4. WalkTypes'
  BY <1>1, <1>2 DEF WalkTypes, WalkOK, Walks, Open
<1>5. StandsHere' /\ GoesUp'
  <2>1. StandsHere'
    BY <1>1, <1>2 DEF StandsHere, Open, Stands
  <2>2. GoesUp'
    BY <1>1, <1>2 DEF GoesUp
  <2> QED
    BY <2>1, <2>2
<1>6. ASSUME calm, LeftAlone
      PROVE  /\ walk.kind \in {"indexed", "ordered"} /\ (walk.key \in present'[walk.field] \/ walk.kind = "indexed") =>
                  idx'[walk.field][walk.key] = idx[walk.field][walk.key]
             /\ walk.kind = "collate" => walk.field \in IntFields \/ walk.key \in present'[walk.field]
  BY <1>6 DEF LeftAlone
<1>7. CountsRight'
  <2>1. ASSUME calm, LeftAlone PROVE CountOK(walk)'
    <3>1. CountOK(walk)
      BY <1>2, <2>1 DEF CountsRight
    <3>2. ASSUME walk.kind \in {"indexed", "ordered"}, walk.key \in present'[walk.field]
          PROVE  /\ walk.key \in present[walk.field]
                 /\ idx'[walk.field][walk.key] = idx[walk.field][walk.key]
      <4>1. idx'[walk.field][walk.key] = idx[walk.field][walk.key]
        BY <1>6, <2>1, <3>2
      <4>2. /\ walk.key \in present[walk.field] <=> idx[walk.field][walk.key] # {}
            /\ walk.key \in present'[walk.field] <=> idx'[walk.field][walk.key] # {}
        BY <1>1, <1>3 DEF DbInv, IndexMatchesData
      <4> QED
        BY <3>2, <4>1, <4>2
    <3>3. walk.kind = "collate" /\ walk.field \notin IntFields => walk.key \in present'[walk.field]
      BY <1>6, <2>1
    <3> QED
      BY <1>1, <3>1, <3>2, <3>3 DEF CountOK, Lower
  <2> QED
    BY <1>1, <2>1 DEF CountsRight, Open
<1>8. MissedNothing'
  <2>1. ASSUME calm, LeftAlone, NEW q \in steady \ {r}, Wanted(walk, q)', Past(walk, q)'
        PROVE  WasAt(q)'
    <3>1. data'[q] = data[q]
      BY <1>2
    <3>2. Wanted(walk, q)
      <4>1. CASE walk.kind = "simple"
        BY <1>1, <2>1, <3>1, <4>1 DEF Wanted, Matches, Value
      <4>2. CASE walk.kind = "indexed"
        BY <1>1, <1>6, <2>1, <4>2 DEF Wanted
      <4>3. CASE walk.kind \in {"ordered", "collate"}
        BY <1>1, <2>1, <3>1, <4>3 DEF Wanted, KeysHeld
      <4> QED
        BY <1>3, <4>1, <4>2, <4>3 DEF Kinds
    <3>3. Past(walk, q)
      BY <1>1, <2>1, <3>1 DEF Past, KeysHeld, PastKey
    <3>4. WasAt(q)
      BY <1>2, <2>1, <3>2, <3>3 DEF MissedNothing
    <3> QED
      BY <1>1, <3>1, <3>4 DEF WasAt
  <2> QED
    BY <1>1, <2>1 DEF MissedNothing, Open
<1> QED
  BY <1>4, <1>5, <1>7, <1>8 DEF WalkInv

LEMMA InterferesKeeps ==
  ASSUME DbInv, DbInv', WalkInv, Interferes
  PROVE  WalkInv'
<1>1. Open /\ ~walk.eof
  BY DEF Interferes
<1>2. live \subseteq Recnos /\ DOMAIN data = Recnos /\ \A r \in live : r < next
  BY DEF DbInv, DbTypeOK
<1>3. ASSUME AddRecord, Change(next) PROVE WalkInv'
  <2>1. live' = live \cup {next} /\ data' = [data EXCEPT ![next] = [f \in Fields |-> Nothing]]
    BY <1>3 DEF AddRecord
  <2>2. \A q \in live \ {next} : q \in live' /\ data'[q] = data[q]
    BY <1>2, <2>1
  <2> QED
    BY <1>1, <1>3, <2>2, Undisturbed
<1>4. ASSUME NEW r \in live, Delete(r), Change(r) PROVE WalkInv'
  <2>1. \A q \in live \ {r} : q \in live' /\ data'[q] = data[q]
    BY <1>4 DEF Delete
  <2> QED
    BY <1>1, <1>4, <2>1, Undisturbed
<1>5. ASSUME NEW r \in live, NEW f \in Fields, GetInteger(r, f), Change(r) PROVE WalkInv'
  <2>1. \A q \in live \ {r} : q \in live' /\ data'[q] = data[q]
    BY <1>2, <1>5 DEF GetInteger
  <2> QED
    BY <1>1, <1>5, <2>1, Undisturbed
<1>6. ASSUME NEW r \in live, NEW f \in Fields, NEW str \in Strings, SetString(r, f, str), Change(r)
      PROVE  WalkInv'
  <2>1. \A q \in live \ {r} : q \in live' /\ data'[q] = data[q]
    <3>1. CASE UNCHANGED dbVars
      BY <3>1 DEF dbVars
    <3>2. CASE Put(r, f, AsString(f, data[r][f], str))
      BY <3>2, PutTouches
    <3> QED
      BY <1>6, <3>1, <3>2 DEF SetString
  <2> QED
    BY <1>1, <1>6, <2>1, Undisturbed
<1>7. ASSUME NEW r \in live, NEW f \in Fields, NEW n \in Ints, SetInteger(r, f, n), Change(r)
      PROVE  WalkInv'
  <2>1. \A q \in live \ {r} : q \in live' /\ data'[q] = data[q]
    BY <1>7, PutTouches DEF SetInteger
  <2> QED
    BY <1>1, <1>7, <2>1, Undisturbed
<1> QED
  BY <1>3, <1>4, <1>5, <1>6, <1>7 DEF Interferes

(* Before the walk there is nothing to disturb.                            *)
LEMMA FillsKeeps ==
  ASSUME WalkInv, Fills
  PROVE  WalkInv'
<1>1. /\ ~Open /\ UNCHANGED <<walk, visited>> /\ \E r : steady' = steady \ {r} /\ calm' = (calm /\ LeftAlone)
      /\ changes' = changes + 1
  BY DEF Fills, Change
<1>2. /\ walk = Closed /\ steady = {} /\ visited = <<>> /\ calm \in BOOLEAN /\ changes \in Nat
      /\ visited \in Seq(Nat \X Nat)
  BY <1>1 DEF WalkInv, WalkTypes
<1>3. ~Open' /\ steady' = {}
  BY <1>1, <1>2 DEF Open
<1>4. calm' \in BOOLEAN /\ changes' \in Nat
  BY <1>1, <1>2
<1>5. WalkTypes'
  BY <1>1, <1>2, <1>3, <1>4 DEF WalkTypes
<1>6. GoesUp'
  BY <1>1, <1>2 DEF GoesUp
<1> QED
  BY <1>3, <1>5, <1>6 DEF WalkInv, StandsHere, CountsRight, MissedNothing

LEMMA WalkStepOk == DbInv /\ WalkInv /\ [Next]_vars => WalkInv'
<1> SUFFICES ASSUME DbInv, WalkInv, [Next]_vars PROVE WalkInv'
  OBVIOUS
<1>1. DbInv'
  BY WalkStep, StepOk
<1>2. CASE Opens
  BY <1>2, OpenSimpleKeeps, OpenIndexedKeeps, OpenOrderedKeeps DEF Opens
<1>3. CASE MoveNext
  BY <1>3, MoveNextKeeps
<1>4. CASE Fills
  BY <1>4, FillsKeeps
<1>5. CASE Interferes
  BY <1>1, <1>5, InterferesKeeps
<1>6. CASE UNCHANGED vars
  <2>1. /\ UNCHANGED dbVars /\ UNCHANGED <<walk, visited, steady, calm, changes>>
    BY <1>6 DEF vars
  <2>2. WalkTypes'
    BY <2>1 DEF dbVars, WalkInv, WalkTypes, WalkOK, Walks, Open
  <2>3. StandsHere' /\ GoesUp'
    BY <2>1 DEF WalkInv, StandsHere, Open, Stands, GoesUp
  <2>4. CountsRight'
    BY <2>1 DEF dbVars, WalkInv, CountsRight, CountOK, Open
  <2>5. MissedNothing'
    <3>1. ASSUME NEW r PROVE /\ Wanted(walk, r)' <=> Wanted(walk, r)
                             /\ Past(walk, r)' <=> Past(walk, r)
                             /\ WasAt(r)' <=> WasAt(r)
      BY <2>1 DEF dbVars, Wanted, Matches, Value, Past, PastKey, KeysHeld, WasAt
    <3> QED
      BY <2>1, <3>1 DEF WalkInv, MissedNothing, Open
  <2> QED
    BY <2>2, <2>3, <2>4, <2>5 DEF WalkInv
<1> QED
  BY <1>2, <1>3, <1>4, <1>5, <1>6 DEF Next

\* A walk goes up, whatever is done around it; and one that has come to its end
\* has been at every record that qualifies and that nobody touched (the MoveNext
\* of the four recordsets): for any fields, keys, records and changes.
THEOREM WalksAreComplete == Spec => []WalkIsComplete
<1>1. Init => WalkInv
  BY DEF Init, WalkInv, WalkTypes, StandsHere, GoesUp, CountsRight, MissedNothing, Open, Closed
<1>2. DbInv /\ WalkInv => WalkIsComplete
  <2> SUFFICES ASSUME DbInv, WalkInv PROVE WalkIsComplete
    OBVIOUS
  <2>1. TypeOK
    BY WalkFields DEF DbInv, WalkInv, WalkTypes, TypeOK
  <2>2. ASSUME Open, calm, walk.eof, NEW r \in steady, Qualifies(r) PROVE WasAt(r)
    <3>1. walk.kind \in Kinds
      BY <2>2, WalkFields DEF WalkInv, WalkTypes
    <3>2. Wanted(walk, r)
      BY <2>2, <3>1 DEF Qualifies, Wanted, KeysHeld, Kinds
    <3> QED
      BY <2>2, <3>2 DEF WalkInv, MissedNothing
  <2> QED
    BY <2>1, <2>2 DEF WalkIsComplete, WalkInv
<1>3. Spec => []WalkInv
  BY <1>1, WalkKeepsDbInv, WalkStepOk, PTL DEF Spec
<1> QED
  BY <1>2, <1>3, WalkKeepsDbInv, PTL
-----------------------------------------------------------------------------
(***************************************************************************)
(* The tasks that rewrite the files                                        *)
(***************************************************************************)
Queued(id) == \E i \in DOMAIN queue : queue[i] = id
At(w, id)  == pc[w] # "idle" /\ job[w] = id

\* m_rewrite_tasks has the id of each task there is, and no other; an id that is
\* called for has a task, and a task that has not begun has its id called for.
TasksKnown ==
  /\ \A w \in Workers : pc[w] # "idle" => job[w] \in Ids
  /\ \A id \in Ids : id \in tasks <=> Queued(id) \/ \E w \in Workers : At(w, id)
  /\ need \subseteq tasks
  /\ \A i \in DOMAIN queue : queue[i] \in need
  /\ \A w \in Workers : pc[w] = "begin" => job[w] \in need

\* What a task has copied is still so, unless it will have to go round again.
CopiesHold ==
  \A w \in Workers : pc[w] = "write" /\ job[w] \notin need \cup dirty =>
    \A f \in TagFields \ left[w] : record[job[w]][f] \in {Blank, tags[w][f]}

\* What it has saved is still so, too.
SavedHolds ==
  \A w \in Workers :
    pc[w] = "check" /\ job[w] \in Writable /\ job[w] \notin need \cup dirty \cup unsaved =>
      \A f \in TagFields : record[job[w]][f] \in {Blank, file[job[w]][f]}

TagInv == TagTypeOK /\ FilesFollow /\ TasksKnown /\ CopiesHold /\ SavedHolds

-----------------------------------------------------------------------------
LEMMA TagInitOk == TagInit => TagInv
<1> SUFFICES ASSUME TagInit PROVE TagInv
  OBVIOUS
<1> USE TagAssumption DEF TagInit
<1>1. TagTypeOK
  BY DEF TagTypeOK, Unread, Tags, Words
<1>2. FilesFollow
  BY DEF FilesFollow, OneTaskEach, Tags
<1>3. TasksKnown /\ CopiesHold /\ SavedHolds
  BY DEF TasksKnown, CopiesHold, SavedHolds, Queued, At
<1> QED BY <1>1, <1>2, <1>3 DEF TagInv

\* Changing a record: it is dirty now.
LEMMA SetTextKeeps ==
  ASSUME TagInv, NEW id \in Ids, NEW f \in TagFields, NEW t \in Words, SetText(id, f, t)
  PROVE  TagInv'
<1> USE TagAssumption DEF TagInv, SetText, runVars
<1>1. record' \in [Ids -> Tags]
  BY DEF TagTypeOK, Tags
<1>2. \A j \in Ids : j # id => record'[j] = record[j]
  BY DEF TagTypeOK
<1>3. TagTypeOK'
  BY <1>1 DEF TagTypeOK
<1>4. OneTaskEach' /\ TasksKnown'
  BY DEF FilesFollow, OneTaskEach, TasksKnown, Queued, At, Running
<1>5. FilesFollow'
  BY <1>2, <1>4 DEF FilesFollow
<1>6. CopiesHold' /\ SavedHolds'
  BY <1>2 DEF CopiesHold, SavedHolds, TasksKnown
<1> QED BY <1>3, <1>4, <1>5, <1>6

\* Calling for a rewrite: a new task only for an id that has none.
LEMMA CommitKeeps ==
  ASSUME TagInv, NEW id \in Ids, Commit(id)
  PROVE  TagInv'
<1> USE TagAssumption DEF TagInv, Commit, Rewrite, runVars
<1>1. queue \in Seq(Ids)
  BY DEF TagTypeOK
<1>2. TagTypeOK'
  BY <1>1, AppendProperties DEF TagTypeOK
<1>3. CASE id \in tasks
  <2>1. queue' = queue /\ tasks' = tasks
    BY <1>3
  <2>2. TasksKnown' /\ OneTaskEach'
    BY <1>3, <2>1 DEF FilesFollow, OneTaskEach, TasksKnown, Queued, At, Running
  <2>3. FilesFollow'
    BY <1>3, <2>1, <2>2 DEF FilesFollow
  <2>4. CopiesHold' /\ SavedHolds'
    BY DEF CopiesHold, SavedHolds
  <2> QED BY <1>2, <2>2, <2>3, <2>4
<1>4. CASE id \notin tasks
  <2>1. queue' = Append(queue, id) /\ tasks' = tasks \cup {id}
    BY <1>4 DEF TasksKnown
  <2>2. /\ Len(queue') = Len(queue) + 1 /\ queue'[Len(queue')] = id
        /\ \A i \in 1..Len(queue) : queue'[i] = queue[i]
        /\ DOMAIN queue = 1..Len(queue) /\ DOMAIN queue' = 1..Len(queue')
        /\ Len(queue) \in Nat
    BY <1>1, <2>1, AppendProperties
  <2>3. ~Queued(id) /\ \A w \in Workers : ~At(w, id)
    BY <1>4 DEF TasksKnown
  <2>4. \A i \in DOMAIN queue : queue[i] # id
    BY <2>3 DEF Queued
  <2>5. OneTaskEach'
    <3>1. \A i, j \in DOMAIN queue' : queue'[i] = queue'[j] => i = j
      BY <2>2, <2>4 DEF FilesFollow, OneTaskEach
    <3>2. ASSUME NEW w \in Workers, pc'[w] # "idle"
          PROVE  (\A i \in DOMAIN queue' : queue'[i] # job'[w]) /\ Running(job[w])' = {w}
      <4>1. job[w] # id /\ Running(job[w]) = {w} /\ \A i \in DOMAIN queue : queue[i] # job[w]
        BY <2>3, <3>2 DEF FilesFollow, OneTaskEach, At
      <4> QED BY <4>1, <2>2 DEF Running
    <3> QED BY <3>1, <3>2 DEF OneTaskEach
  <2>6. TasksKnown'
    <3>1. \A j \in Ids : Queued(j)' <=> Queued(j) \/ j = id
      BY <2>2 DEF Queued
    <3>2. \A i \in DOMAIN queue' : queue'[i] \in need'
      BY <2>2 DEF TasksKnown
    <3> QED BY <2>1, <3>1, <3>2 DEF TasksKnown, At
  <2>7. FilesFollow'
    BY <2>1, <2>5 DEF FilesFollow
  <2>8. CopiesHold' /\ SavedHolds'
    BY DEF CopiesHold, SavedHolds
  <2> QED BY <1>2, <2>5, <2>6, <2>7, <2>8
<1> QED BY <1>3, <1>4

\* A thread takes the first task there is: it is queued no longer.
LEMMA TakesKeeps ==
  ASSUME TagInv, NEW w \in Workers, Takes(w)
  PROVE  TagInv'
<1> USE TagAssumption DEF TagInv, Takes, Goes
<1>1. queue \in Seq(Ids) /\ queue # <<>>
  BY DEF TagTypeOK
<1>2. /\ Len(queue) \in Nat /\ DOMAIN queue = 1..Len(queue) /\ 1 \in DOMAIN queue
      /\ Head(queue) = queue[1] /\ Head(queue) \in Ids
      /\ queue' \in Seq(Ids) /\ DOMAIN queue' = 1..(Len(queue) - 1)
      /\ \A i \in DOMAIN queue' : i + 1 \in DOMAIN queue /\ queue'[i] = queue[i + 1]
  BY <1>1, HeadTailProperties
<1> DEFINE id == Head(queue)
<1>3. /\ pc'[w] = "begin" /\ job'[w] = id /\ pc[w] = "idle"
      /\ \A v \in Workers : v # w => pc'[v] = pc[v] /\ job'[v] = job[v]
  BY DEF TagTypeOK
<1>4. TagTypeOK'
  BY <1>2 DEF TagTypeOK
<1>5. id \in need /\ \A v \in Workers : ~At(v, id)
  BY <1>2 DEF TasksKnown, FilesFollow, OneTaskEach, At
<1>6. \A i \in DOMAIN queue' : queue'[i] # id
  BY <1>2 DEF FilesFollow, OneTaskEach
<1>7. \A j \in Ids : Queued(j) <=> Queued(j)' \/ j = id
  <2>1. ASSUME NEW j \in Ids, Queued(j), j # id PROVE Queued(j)'
    <3>1. PICK i \in DOMAIN queue : queue[i] = j
      BY <2>1 DEF Queued
    <3>2. i # 1 /\ i - 1 \in DOMAIN queue' /\ queue'[i - 1] = queue[i]
      BY <1>2, <2>1, <3>1
    <3> QED BY <3>1, <3>2 DEF Queued
  <2> QED BY <1>2, <2>1 DEF Queued
<1>8. OneTaskEach'
  <2>1. \A i, j \in DOMAIN queue' : queue'[i] = queue'[j] => i = j
    BY <1>2 DEF FilesFollow, OneTaskEach
  <2>2. ASSUME NEW v \in Workers, pc'[v] # "idle"
        PROVE  (\A i \in DOMAIN queue' : queue'[i] # job'[v]) /\ Running(job[v])' = {v}
    <3>1. CASE v = w
      BY <1>3, <1>5, <1>6, <3>1 DEF Running, At
    <3>2. CASE v # w
      <4>1. pc[v] # "idle" /\ job'[v] = job[v] /\ job[v] # id
        BY <1>3, <1>5, <2>2, <3>2 DEF At
      <4>2. Running(job[v]) = {v} /\ \A i \in DOMAIN queue : queue[i] # job[v]
        BY <4>1 DEF FilesFollow, OneTaskEach
      <4> QED BY <1>2, <1>3, <4>1, <4>2 DEF Running
    <3> QED BY <3>1, <3>2
  <2> QED BY <2>1, <2>2 DEF OneTaskEach
<1>9. TasksKnown'
  <2>1. \A j \in Ids : (\E v \in Workers : At(v, j))' <=> (\E v \in Workers : At(v, j)) \/ j = id
    BY <1>3 DEF At
  <2>2. \A i \in DOMAIN queue' : queue'[i] \in need'
    BY <1>2 DEF TasksKnown
  <2>3. \A v \in Workers : /\ pc'[v] # "idle" => job'[v] \in Ids
                           /\ pc'[v] = "begin" => job'[v] \in need'
    BY <1>2, <1>3, <1>5 DEF TasksKnown
  <2> HIDE DEF id
  <2> QED BY <1>7, <2>1, <2>2, <2>3 DEF TasksKnown
<1>10. FilesFollow'
  BY <1>8 DEF FilesFollow
<1>11. CopiesHold' /\ SavedHolds'
  BY <1>3 DEF CopiesHold, SavedHolds
<1> QED BY <1>4, <1>9, <1>10, <1>11

\* A step of a thread within its task leaves everyone's task where it was.
LEMMA SameTasks ==
  ASSUME TagInv, NEW w \in Workers, pc[w] # "idle",
         NEW STATE at, at \in {"read", "write", "check"}, Goes(w, at),
         UNCHANGED <<queue, tasks, job>>, need' \in {need, need \ {job[w]}},
         pc[w] \notin {"begin"} \/ need' = need \ {job[w]}
  PROVE  OneTaskEach' /\ TasksKnown'
<1> USE DEF TagInv, Goes
<1>1. /\ pc'[w] = at /\ at # "idle" /\ at # "begin"
      /\ \A v \in Workers : v # w => pc'[v] = pc[v]
  BY DEF TagTypeOK
<1>2. \A v \in Workers : pc'[v] # "idle" <=> pc[v] # "idle"
  BY <1>1
<1>3. OneTaskEach'
  BY <1>2 DEF FilesFollow, OneTaskEach, Running
<1>4. \A i \in DOMAIN queue : queue[i] # job[w]
  BY DEF FilesFollow, OneTaskEach
<1>5. \A v \in Workers : v # w /\ pc[v] # "idle" => job[v] # job[w]
  BY DEF FilesFollow, OneTaskEach, Running
<1>6. \A v \in Workers : pc'[v] = "begin" => job'[v] \in need'
  BY <1>1, <1>5 DEF TasksKnown
<1>7. \A i \in DOMAIN queue' : queue'[i] \in need'
  BY <1>4 DEF TasksKnown
<1>8. \A id \in Ids : id \in tasks' <=> Queued(id)' \/ \E v \in Workers : At(v, id)'
  BY <1>2 DEF TasksKnown, Queued, At
<1> QED BY <1>2, <1>3, <1>6, <1>7, <1>8 DEF TasksKnown

\* The thread whose step it is has a task, and no other thread has that task.
LEMMA OwnTask ==
  ASSUME TagInv, NEW w \in Workers, pc[w] # "idle"
  PROVE  /\ job[w] \in tasks /\ job[w] \in Ids
         /\ \A v \in Workers : v # w /\ pc[v] # "idle" => job[v] # job[w]
BY DEF TagInv, FilesFollow, OneTaskEach, TasksKnown, Running, At

LEMMA BeginsKeeps ==
  ASSUME TagInv, NEW w \in Workers, Begins(w)
  PROVE  TagInv'
<1> USE TagAssumption DEF TagInv, Begins
<1>1. TagTypeOK'
  BY DEF TagTypeOK, Goes
<1>2. OneTaskEach' /\ TasksKnown'
  BY SameTasks
<1>3. FilesFollow'
  BY <1>2 DEF FilesFollow
<1>4. \A v \in Workers : v # w /\ pc[v] # "idle" => job[v] # job[w] /\ pc'[v] = pc[v]
  BY OwnTask DEF TagTypeOK, Goes
<1>5. pc'[w] = "read" /\ \A v \in Workers : v # w => pc'[v] = pc[v]
  BY DEF TagTypeOK, Goes
<1>6. CopiesHold' /\ SavedHolds'
  BY <1>4, <1>5 DEF CopiesHold, SavedHolds
<1> QED BY <1>1, <1>2, <1>3, <1>6

LEMMA HasNoWriterKeeps ==
  ASSUME TagInv, NEW w \in Workers, HasNoWriter(w)
  PROVE  TagInv'
<1> USE TagAssumption DEF TagInv, HasNoWriter
<1>1. TagTypeOK'
  BY DEF TagTypeOK, Goes
<1>2. OneTaskEach' /\ TasksKnown'
  BY SameTasks
<1>3. FilesFollow'
  BY <1>2 DEF FilesFollow
<1>4. pc'[w] = "check" /\ \A v \in Workers : v # w => pc'[v] = pc[v]
  BY DEF TagTypeOK, Goes
<1>5. CopiesHold' /\ SavedHolds'
  BY <1>4 DEF CopiesHold, SavedHolds
<1> QED BY <1>1, <1>2, <1>3, <1>5

LEMMA OpensFileKeeps ==
  ASSUME TagInv, NEW w \in Workers, OpensFile(w)
  PROVE  TagInv'
<1> USE TagAssumption DEF TagInv, OpensFile
<1>1. job[w] \in Ids
  BY OwnTask
<1>2. TagTypeOK'
  BY <1>1 DEF TagTypeOK, Goes
<1>3. OneTaskEach' /\ TasksKnown'
  BY SameTasks
<1>4. FilesFollow'
  BY <1>3 DEF FilesFollow
<1>5. /\ pc'[w] = "write" /\ left'[w] = TagFields
      /\ \A v \in Workers : v # w => pc'[v] = pc[v] /\ left'[v] = left[v] /\ tags'[v] = tags[v]
  BY DEF TagTypeOK, Goes
<1>6. CopiesHold' /\ SavedHolds'
  BY <1>5 DEF CopiesHold, SavedHolds
<1> QED BY <1>2, <1>3, <1>4, <1>6

LEMMA CopiesKeeps ==
  ASSUME TagInv, NEW w \in Workers, NEW f \in TagFields, Copies(w, f)
  PROVE  TagInv'
<1> USE TagAssumption DEF TagInv, Copies
<1>1. job[w] \in Ids /\ record[job[w]][f] \in Words
  BY OwnTask DEF TagTypeOK, Tags
<1>2. left' \in [Workers -> SUBSET TagFields] /\ tags' \in [Workers -> Tags]
  BY <1>1 DEF TagTypeOK, Tags
<1>3. TagTypeOK'
  BY <1>2 DEF TagTypeOK
<1>4. OneTaskEach' /\ TasksKnown'
  BY DEF FilesFollow, OneTaskEach, Running, TasksKnown, Queued, At
<1>5. FilesFollow'
  BY <1>4 DEF FilesFollow
<1>6. SavedHolds'
  BY DEF SavedHolds
<1>7. /\ left'[w] = left[w] \ {f}
      /\ \A g \in TagFields : g # f => tags'[w][g] = tags[w][g]
      /\ record[job[w]][f] \in {Blank, tags'[w][f]}
      /\ \A v \in Workers : v # w => left'[v] = left[v] /\ tags'[v] = tags[v]
  BY <1>1 DEF TagTypeOK, Tags
<1>8. CopiesHold'
  BY <1>7 DEF CopiesHold
<1> QED BY <1>3, <1>4, <1>5, <1>6, <1>8

LEMMA SavesKeeps ==
  ASSUME TagInv, NEW w \in Workers, Saves(w)
  PROVE  TagInv'
<1> USE TagAssumption DEF TagInv, Saves
<1>1. /\ job[w] \in Ids /\ job[w] \in tasks
      /\ \A v \in Workers : v # w /\ pc[v] # "idle" => job[v] # job[w]
  BY OwnTask
<1>2. TagTypeOK'
  BY <1>1 DEF TagTypeOK, Goes, Unread, Tags, Words
<1>3. OneTaskEach' /\ TasksKnown'
  BY SameTasks
<1>4. /\ \A id \in Ids \ {job[w]} : file'[id] = file[id] /\ (id \in unsaved' <=> id \in unsaved)
      /\ job[w] \notin unsaved' => file'[job[w]] = tags[w]
  BY <1>1 DEF TagTypeOK
<1>5. FilesFollow'
  BY <1>1, <1>3, <1>4 DEF FilesFollow
<1>6. /\ pc'[w] = "check"
      /\ \A v \in Workers : v # w => pc'[v] = pc[v] /\ tags'[v] = tags[v]
  BY DEF TagTypeOK, Goes
<1>7. CopiesHold'
  BY <1>6 DEF CopiesHold
<1>8. ASSUME NEW v \in Workers, pc'[v] = "check", job[v] \in Writable,
             job[v] \notin need \cup dirty \cup unsaved', NEW f \in TagFields
      PROVE  record[job[v]][f] \in {Blank, file'[job[v]][f]}
  <2>1. CASE v = w
    BY <1>4, <1>8, <2>1 DEF CopiesHold
  <2>2. CASE v # w
    <3>1. job[v] \in Ids \ {job[w]} /\ pc[v] = "check"
      BY <1>1, <1>6, <1>8, <2>2
    <3> QED BY <1>4, <1>8, <3>1 DEF SavedHolds
  <2> QED BY <2>1, <2>2
<1>9. SavedHolds'
  BY <1>8 DEF SavedHolds
<1> QED BY <1>2, <1>3, <1>5, <1>7, <1>9

\* The second look: the task goes only if nobody called for it since.
LEMMA ChecksKeeps ==
  ASSUME TagInv, NEW w \in Workers, Checks(w)
  PROVE  TagInv'
<1> USE TagAssumption DEF TagInv, Checks, CalledFor
<1> DEFINE id == job[w]
<1>1. /\ id \in Ids /\ id \in tasks
      /\ \A v \in Workers : v # w /\ pc[v] # "idle" => job[v] # id
      /\ \A i \in DOMAIN queue : queue[i] # id
  BY OwnTask DEF FilesFollow, OneTaskEach
<1>2. CASE id \in need
  <2>1. TagTypeOK'
    BY <1>2 DEF TagTypeOK, Goes
  <2>2. OneTaskEach' /\ TasksKnown'
    BY <1>2, SameTasks
  <2>3. FilesFollow'
    BY <1>2, <2>2 DEF FilesFollow
  <2>4. pc'[w] = "read" /\ \A v \in Workers : v # w => pc'[v] = pc[v]
    BY <1>2 DEF TagTypeOK, Goes
  <2>5. CopiesHold' /\ SavedHolds'
    BY <1>1, <1>2, <2>4 DEF CopiesHold, SavedHolds
  <2> QED BY <2>1, <2>2, <2>3, <2>5
<1>3. CASE id \notin need
  <2>1. TagTypeOK'
    BY <1>3 DEF TagTypeOK, Goes
  <2>2. /\ pc'[w] = "idle" /\ tasks' = tasks \ {id} /\ need' = need
        /\ \A v \in Workers : v # w => pc'[v] = pc[v] /\ job'[v] = job[v]
    BY <1>3 DEF TagTypeOK, Goes
  <2>3. OneTaskEach'
    <3>1. \A v \in Workers : pc'[v] # "idle" => v # w /\ pc[v] # "idle" /\ job'[v] = job[v]
      BY <2>2
    <3>2. ASSUME NEW v \in Workers, pc'[v] # "idle" PROVE Running(job[v])' = {v}
      <4>1. Running(job[v]) = {v} /\ v # w
        BY <3>1, <3>2 DEF FilesFollow, OneTaskEach
      <4>2. Running(job[v])' \subseteq Running(job[v])
        BY <2>2, <3>1, <3>2 DEF Running
      <4> QED BY <3>1, <3>2, <4>1, <4>2 DEF Running
    <3> QED BY <3>1, <3>2 DEF FilesFollow, OneTaskEach
  <2>4. TasksKnown'
    <3>1. \A j \in Ids : (\E v \in Workers : At(v, j))' <=> (\E v \in Workers : At(v, j)) /\ j # id
      BY <1>1, <2>2 DEF At
    <3>2. \A j \in Ids : Queued(j)' <=> Queued(j) /\ j # id
      BY <1>1 DEF Queued
    <3>3. need' \subseteq tasks'
      BY <1>3, <2>2 DEF TasksKnown
    <3>4. \A v \in Workers : /\ pc'[v] # "idle" => job'[v] \in Ids
                             /\ pc'[v] = "begin" => job'[v] \in need'
      BY <2>2 DEF TasksKnown
    <3> HIDE DEF id
    <3> QED BY <2>2, <3>1, <3>2, <3>3, <3>4 DEF TasksKnown
  <2>5. \A j \in Writable \ (tasks' \cup dirty \cup unsaved), f \in TagFields :
           record[j][f] \in {Blank, file[j][f]}
    <3>1. id \in Writable \ (dirty \cup unsaved) =>
            \A f \in TagFields : record[id][f] \in {Blank, file[id][f]}
      BY <1>3 DEF SavedHolds
    <3> HIDE DEF id
    <3> QED BY <2>2, <3>1 DEF FilesFollow
  <2>6. FilesFollow'
    BY <2>3, <2>5 DEF FilesFollow
  <2>7. CopiesHold' /\ SavedHolds'
    BY <2>2 DEF CopiesHold, SavedHolds
  <2> QED BY <2>1, <2>3, <2>4, <2>6, <2>7
<1> QED BY <1>2, <1>3

LEMMA TagStutter == TagInv /\ UNCHANGED tagVars => TagInv'
BY DEF TagInv, TagTypeOK, FilesFollow, OneTaskEach, Running, TasksKnown, CopiesHold,
       SavedHolds, Queued, At, tagVars

LEMMA TagStepOk == TagInv /\ [TagNext]_tagVars => TagInv'
<1> SUFFICES ASSUME TagInv, [TagNext]_tagVars PROVE TagInv'
  OBVIOUS
<1>1. CASE \E id \in Ids, f \in TagFields, t \in Words : SetText(id, f, t)
  BY <1>1, SetTextKeeps
<1>2. CASE \E id \in Ids : Commit(id)
  BY <1>2, CommitKeeps
<1>3. CASE \E w \in Workers : Run(w)
  <2>1. PICK w \in Workers : Run(w)
    BY <1>3
  <2> QED BY <2>1, TakesKeeps, BeginsKeeps, HasNoWriterKeeps, OpensFileKeeps, CopiesKeeps, SavesKeeps,
             ChecksKeeps DEF Run
<1>4. CASE UNCHANGED tagVars
  BY <1>4, TagStutter
<1> QED BY <1>1, <1>2, <1>3, <1>4 DEF TagNext

\* Whatever is changed, committed and read in whatever order: a tune has one task
\* at most, and its file has the texts of its record when the task has gone.
THEOREM FilesAlwaysFollow == TagSpec => []FilesFollow
<1>1. TagInit => TagInv
  BY TagInitOk
<1>2. TagInv /\ [TagNext]_tagVars => TagInv'
  BY TagStepOk
<1>3. TagInv => FilesFollow
  BY DEF TagInv
<1> QED BY <1>1, <1>2, <1>3, PTL DEF TagSpec
-----------------------------------------------------------------------------
(* The editor.                                                             *)
Noted(id) == edit.at # "none" /\ \E r \in edit.rows : order[r] = id

\* A record that is not what the table shows has its row noted, or the row moved.
RowsHold ==
  /\ \A id \in Ids : record[id] = shown[id] \/ id \in mislaid \/ Noted(id)
  /\ \A r \in DOMAIN order : IsNext(r) =>
       \A f \in TagFields \ edit.left : record[order[r]][f] = shown[order[r]][f]

EditorInv == TagInv /\ EditorTypeOK /\ RowsHold

-----------------------------------------------------------------------------
LEMMA EditorInitOk == EditorInit => EditorInv
<1> SUFFICES ASSUME EditorInit PROVE EditorInv
  OBVIOUS
<1> USE DEF EditorInit, NoEdit
<1>1. TagInv /\ record \in [Ids -> Tags]
  BY TagInitOk DEF TagInit
<1>2. EditorTypeOK
  BY <1>1 DEF EditorTypeOK, Words
<1>3. RowsHold
  BY DEF RowsHold, IsNext
<1> QED BY <1>1, <1>2, <1>3 DEF EditorInv

\* Sorting again gives an order of the same rows.
LEMMA ResortedIsOrder ==
  ASSUME EditorTypeOK, NEW id \in Ids, NEW f, NEW STATE texts, NEW STATE o, o \in Resorted(id, f, texts)
  PROVE  o \in Orders /\ DOMAIN o = DOMAIN order
BY DEF EditorTypeOK, Resorted, Orders

LEMMA RowOfIsRow ==
  ASSUME NEW STATE o, o \in Orders, NEW id \in Ids
  PROVE  RowOf(id, o) \in DOMAIN o /\ o[RowOf(id, o)] = id
BY DEF Orders, RowOf

\* A cell is set: its row is noted, and noted rows that move are mislaid.
LEMMA SetsTextKeeps ==
  ASSUME EditorInv, NEW id \in Ids, NEW f \in TagFields, NEW t \in Words,
         NEW STATE cells, cells \in SUBSET (Ids \X TagFields), SetsText(id, f, t, cells)
  PROVE  EditorInv'
<1> USE DEF EditorInv, SetsText, NotedRow
<1>1. TagInv'
  BY TagStutter
<1>2. order \in Orders /\ order' \in Orders /\ DOMAIN order' = DOMAIN order
  BY ResortedIsOrder DEF EditorTypeOK, Resorted, Orders
<1>3. RowOf(id, order') \in DOMAIN order' /\ order'[RowOf(id, order')] = id
  BY <1>2, RowOfIsRow
<1>4. \A r \in DOMAIN order : order[r] \in Ids
  BY <1>2 DEF Orders
<1>5. shown' \in [Ids -> Tags] /\ \A j \in Ids : j # id => shown'[j] = shown[j]
  BY DEF EditorTypeOK, Tags
<1>6. /\ edit'.at = "cells" /\ edit'.rows = edit.rows \cup {RowOf(id, order')}
      /\ edit'.left = edit.left /\ edit'.text = t /\ edit'.cells = cells
      /\ edit' = [at |-> "cells", text |-> t, cells |-> cells,
                  rows |-> edit.rows \cup {RowOf(id, order')}, left |-> edit.left]
  BY DEF EditorTypeOK
<1>7. edit.rows \in SUBSET DOMAIN order /\ edit.left \in SUBSET TagFields
  BY DEF EditorTypeOK
<1>8. edit' \in [at : {"none", "cells", "row"}, text : Words, cells : SUBSET (Ids \X TagFields),
                 rows : SUBSET DOMAIN order', left : SUBSET TagFields]
  BY <1>2, <1>3, <1>6, <1>7
<1>9. EditorTypeOK'
  BY <1>2, <1>4, <1>5, <1>7, <1>8 DEF EditorTypeOK
<1>10. ASSUME NEW j \in Ids
       PROVE  record'[j] = shown'[j] \/ j \in mislaid' \/ Noted(j)'
  <2>1. CASE j = id
    BY <1>3, <1>6, <2>1 DEF Noted
  <2>2. CASE j # id /\ Noted(j)
    BY <1>6, <2>2 DEF Noted
  <2>3. CASE j # id /\ ~Noted(j)
    BY <1>5, <2>3 DEF RowsHold, tagVars
  <2> QED BY <2>1, <2>2, <2>3
<1>11. RowsHold'
  BY <1>6, <1>10 DEF RowsHold, IsNext
<1> QED BY <1>1, <1>9, <1>11

LEMMA CellsDoneKeeps == ASSUME EditorInv, CellsDone PROVE EditorInv'
<1> USE DEF EditorInv, CellsDone
<1>1. TagInv'
  BY TagStutter
<1>2. /\ edit'.at = "row" /\ edit'.rows = edit.rows /\ edit'.left = TagFields
      /\ edit' = [at |-> "row", text |-> edit.text, cells |-> {}, rows |-> edit.rows,
                  left |-> TagFields]
  BY DEF EditorTypeOK
<1>3. EditorTypeOK'
  BY <1>2 DEF EditorTypeOK
<1>4. \A id \in Ids : Noted(id)' <=> Noted(id)
  BY <1>2 DEF Noted
<1>5. RowsHold'
  BY <1>2, <1>4 DEF RowsHold, IsNext, tagVars
<1> QED BY <1>1, <1>3, <1>5

\* The record of the row is as the table shows it, as far as it has been set.
LEMMA SetsFieldKeeps ==
  ASSUME EditorInv, NEW r \in DOMAIN order, NEW f \in TagFields, SetsField(r, f)
  PROVE  EditorInv'
<1> USE DEF EditorInv, SetsField
<1> DEFINE id == order[r]
<1>1. id \in Ids /\ shown[id][f] \in Words
  BY DEF EditorTypeOK, Orders, Tags
<1>2. TagInv'
  BY <1>1, SetTextKeeps
<1>3. /\ edit'.at = edit.at /\ edit'.rows = edit.rows /\ edit'.left = edit.left \ {f}
      /\ edit' = [at |-> edit.at, text |-> edit.text, cells |-> edit.cells, rows |-> edit.rows,
                  left |-> edit.left \ {f}]
  BY DEF EditorTypeOK
<1>4. EditorTypeOK'
  BY <1>3 DEF EditorTypeOK
<1>5. /\ \A j \in Ids \ {id} : record'[j] = record[j]
      /\ record'[id][f] = shown[id][f]
      /\ \A g \in TagFields : g # f => record'[id][g] = record[id][g]
  BY <1>1 DEF TagInv, TagTypeOK, Tags, SetText
<1>6. \A j \in Ids : Noted(j)' <=> Noted(j)
  BY <1>3 DEF Noted
<1>7. Noted(id)
  BY DEF Noted, IsNext
<1>8. \A q \in DOMAIN order : IsNext(q)' => q = r
  BY <1>3 DEF IsNext, EditorTypeOK, Orders
<1>9. \A g \in TagFields \ edit'.left : record'[id][g] = shown'[id][g]
  BY <1>3, <1>5, ZenonT(30) DEF RowsHold
<1>10. \A q \in DOMAIN order' : IsNext(q)' =>
         \A g \in TagFields \ edit'.left : record'[order'[q]][g] = shown'[order'[q]][g]
  BY <1>8, <1>9
<1>11. \A j \in Ids : record'[j] = shown'[j] \/ j \in mislaid' \/ Noted(j)'
  BY <1>5, <1>6, <1>7 DEF RowsHold
<1>12. RowsHold'
  BY <1>10, <1>11 DEF RowsHold
<1> QED BY <1>2, <1>4, <1>12

LEMMA CommitsRowKeeps ==
  ASSUME EditorInv, NEW r \in DOMAIN order, CommitsRow(r)
  PROVE  EditorInv'
<1> USE DEF EditorInv, CommitsRow
<1> DEFINE id == order[r]
<1>1. id \in Ids
  BY DEF EditorTypeOK, Orders
<1>2. TagInv' /\ record' = record
  BY <1>1, CommitKeeps DEF Commit
<1>3. EditorTypeOK'
  <2>1. edit' \in [at : {"none", "cells", "row"}, text : Words, cells : SUBSET (Ids \X TagFields),
                   rows : SUBSET DOMAIN order, left : SUBSET TagFields]
    BY DEF EditorTypeOK, NoEdit, Words
  <2> QED BY <2>1 DEF EditorTypeOK
<1>4. record[id] = shown[id]
  <2>1. \A f \in TagFields : record[id][f] = shown[id][f]
    BY DEF RowsHold
  <2>2. record[id] \in Tags /\ shown[id] \in Tags
    BY <1>1 DEF TagInv, TagTypeOK, EditorTypeOK
  <2> HIDE DEF id
  <2> QED BY <2>1, <2>2 DEF Tags
<1>5. \A j \in Ids \ {id} : Noted(j) => Noted(j)'
  <2>1. CASE edit.rows = {r}
    BY <2>1 DEF Noted
  <2>2. CASE edit.rows # {r}
    <3>1. edit'.at = "row" /\ edit'.rows = edit.rows \ {r}
      BY <2>2 DEF EditorTypeOK, IsNext
    <3> QED BY <3>1 DEF Noted
  <2> QED BY <2>1, <2>2
<1>6. \A q \in DOMAIN order' : IsNext(q)' => edit'.left = TagFields
  <2>1. CASE edit.rows = {r}
    BY <2>1 DEF IsNext, NoEdit
  <2>2. CASE edit.rows # {r}
    BY <2>2 DEF EditorTypeOK
  <2> QED BY <2>1, <2>2
<1>7. \A j \in Ids : record'[j] = shown'[j] \/ j \in mislaid' \/ Noted(j)'
  BY <1>2, <1>4, <1>5 DEF RowsHold
<1>8. RowsHold'
  BY <1>6, <1>7 DEF RowsHold
<1> QED BY <1>2, <1>3, <1>8

\* The tasks of the pool touch neither the table nor the records.
LEMMA RunKeepsTable ==
  ASSUME EditorInv, NEW w \in Workers, Run(w), UNCHANGED tableVars
  PROVE  EditorInv'
<1>1. TagInv'
  BY TagStepOk DEF EditorInv, TagNext
<1>2. record' = record
  BY DEF Run, Takes, Begins, HasNoWriter, OpensFile, Copies, Saves, Checks
<1>3. EditorTypeOK' /\ RowsHold'
  BY <1>2 DEF EditorInv, EditorTypeOK, RowsHold, Noted, IsNext, tableVars
<1> QED BY <1>1, <1>3 DEF EditorInv

LEMMA EditorStepOk == EditorInv /\ [EditorNext]_editorVars => EditorInv'
<1> SUFFICES ASSUME EditorInv, [EditorNext]_editorVars PROVE EditorInv'
  OBVIOUS
<1>1. CASE Types
  <2>1. PICK id \in Ids, f \in TagFields, t \in Texts, selected \in SUBSET Ids :
          CommitData(id, f, t, selected \X {f})
    BY <1>1 DEF Types
  <2>2. (selected \X {f}) \ {<<id, f>>} \in SUBSET (Ids \X TagFields) /\ t \in Words
    BY DEF Words
  <2> QED BY <2>1, <2>2, SetsTextKeeps DEF CommitData
<1>2. CASE \E id \in Ids, f \in TagFields : SetsSelected(id, f)
  <2>1. PICK id \in Ids, f \in TagFields : SetsSelected(id, f)
    BY <1>2
  <2>2. edit.text \in Words /\ edit.cells \ {<<id, f>>} \in SUBSET (Ids \X TagFields)
    BY DEF EditorInv, EditorTypeOK
  <2> QED BY <2>1, <2>2, SetsTextKeeps DEF SetsSelected
<1>3. CASE CellsDone
  BY <1>3, CellsDoneKeeps
<1>4. CASE \E r \in DOMAIN order : CommitsRow(r) \/ \E f \in TagFields : SetsField(r, f)
  BY <1>4, CommitsRowKeeps, SetsFieldKeeps
<1>5. CASE \E w \in Workers : Run(w) /\ UNCHANGED tableVars
  BY <1>5, RunKeepsTable
<1>6. CASE UNCHANGED editorVars
  <2>1. TagInv'
    BY <1>6, TagStutter DEF EditorInv, editorVars
  <2>2. EditorTypeOK' /\ RowsHold'
    BY <1>6 DEF EditorInv, EditorTypeOK, RowsHold, Noted, IsNext, editorVars, tagVars, tableVars
  <2> QED BY <2>1, <2>2 DEF EditorInv
<1> QED BY <1>1, <1>2, <1>3, <1>4, <1>5, <1>6 DEF EditorNext, Editor

-----------------------------------------------------------------------------
\* Whatever is typed and selected, and whichever column sorts the table: when an
\* edit is over the database has what the table shows, but for rows that moved.
THEOREM TableAlwaysSaved == EditorSpec => []TableIsSaved
<1>1. EditorInit => EditorInv
  BY EditorInitOk
<1>2. EditorInv /\ [EditorNext]_editorVars => EditorInv'
  BY EditorStepOk
<1>3. EditorInv => TableIsSaved
  BY DEF EditorInv, RowsHold, Noted, TableIsSaved
<1> QED BY <1>1, <1>2, <1>3, PTL DEF EditorSpec

\* The editor is one of the writers that TagSerialiser is about, and so the files
\* follow what it commits.
THEOREM EditedFilesFollow == EditorSpec => []FilesFollow
<1>1. EditorInit => EditorInv
  BY EditorInitOk
<1>2. EditorInv /\ [EditorNext]_editorVars => EditorInv'
  BY EditorStepOk
<1>3. EditorInv => FilesFollow
  BY DEF EditorInv, TagInv
<1> QED BY <1>1, <1>2, <1>3, PTL DEF EditorSpec

-----------------------------------------------------------------------------
(* The scan. *)

\* A record of the database has the fields that it was created with.
IsRecord(r) ==
  /\ r = [field \in {"id", "type", "mtime", "parent", "children", "high"} |-> r[field]]
  /\ r.id \in Nat \ {0}
  /\ r.type \in {"pending", "file", "playlist", "dir"}
  /\ r.mtime \in 0 .. MaxEvents + 1

\* The root's id is its own; AllocateID gives out others, and each once.
IdsAreOwn(db) ==
  /\ \A p, q \in DOMAIN db : db[p].id = db[q].id => p = q
  /\ \A p \in DOMAIN db : IF p = Root THEN db[p].id = RootId ELSE db[p].id > RootId

ChildrenAreRecords(db) == \A p \in DOMAIN db \cap Dirs : db[p].children \subseteq IdsIn(db)

\* What is to be so of the database, and of its file.
IsDatabase(db) ==
  /\ db = [p \in DOMAIN db |-> db[p]]
  /\ DOMAIN db \subseteq Paths /\ IsFiniteSet(DOMAIN db)
  /\ \A p \in DOMAIN db : IsRecord(db[p])
  /\ IdsAreOwn(db)
  /\ ChildrenAreRecords(db)

\* The ids of the paths that this scan has met.
IdsMet(l) == {l.db[p].id : p \in DOMAIN l.map}

\* m_map says what the records say, and m_children has ids from m_map only.
MapsAgree(l) ==
  /\ DOMAIN l.map \subseteq DOMAIN l.db
  /\ l.map = [p \in DOMAIN l.map |-> l.db[p].id]
  /\ l.kids = [x \in DOMAIN l.kids |-> l.kids[x]]
  /\ \A x \in DOMAIN l.kids : l.kids[x] \subseteq IdsMet(l)

\* No record has an id of the gap that AllocateID gives out from.
GapIsFree(l) ==
  /\ l.begin \in Nat /\ l.begin > RootId /\ l.end \in Nat
  /\ l.end = NoEnd \/ l.begin <= l.end
  /\ l.begin # l.end =>
       \A n \in IdsIn(l.db) : n < l.begin \/ (l.end # NoEnd /\ n >= l.end)

IsLibrary(l) ==
  /\ l = [db |-> l.db, begin |-> l.begin, end |-> l.end, map |-> l.map, kids |-> l.kids]
  /\ GapIsFree(l)
  /\ IsDatabase(l.db)
  /\ MapsAgree(l)

\* The chain of a task has all its directories' tasks above it.
IsChain(c) ==
  /\ c \in Seq(Paths) /\ c # <<>> /\ c[1] = Root
  /\ \A i \in 1 .. Len(c) - 1 : <<c[i], c[i + 1]>> \in Entries

Calls ==
  [path : Files, parent : Nat, mtime : 1 .. MaxEvents + 1,
   at : {"look", "record", "compare", "songs", "link"}, id : Nat,
   flac : Files \cup {NoFile}, todo : SUBSET Files]

IsTask(c, t) ==
  /\ t \in [at : {"file", "queued", "waiting"}, id : Nat, calls : Seq(Calls)]
  /\ IF Last(c) \in Files THEN t.at = "file" /\ t.calls # <<>>
     ELSE t.at \in {"queued", "waiting"} /\ t.calls = <<>>

ChainsHold ==
  /\ task = [c \in DOMAIN task |-> task[c]]
  /\ \A c \in DOMAIN task :
       /\ IsChain(c) /\ IsTask(c, task[c])
       /\ \A i \in 1 .. Len(c) : SubSeq(c, 1, i) \in DOMAIN task

\* The task of a directory waits as long as there are others below it.
ParentsWait ==
  \A c \in DOMAIN task : \A i \in 1 .. Len(c) - 1 : task[SubSeq(c, 1, i)].at = "waiting"

\* An id that a task has kept is the one in m_map.
HasId(l, p, id) == p \in DOMAIN l.map /\ id = l.map[p]
DirIdsHold ==
  \A c \in DOMAIN task : task[c].at = "waiting" /\ ~Looped(c) =>
    IF Last(c) = Root THEN task[c].id = RootId ELSE HasId(lib, Last(c), task[c].id)
CallIdsHold ==
  \A c \in DOMAIN task : \A i \in 1 .. Len(task[c].calls) :
    task[c].calls[i].at \in {"compare", "songs", "link"} =>
      HasId(lib, task[c].calls[i].path, task[c].calls[i].id)

\* A directory that was met in this scan has been left, or is to be.
Settled(l, p) == l.db[p].children \subseteq IdsMet(l)
ToBeLeft(p)   == \E c \in DOMAIN task : Last(c) = p /\ task[c].at = "waiting"
MetAreSettled == ~aborted => \A p \in DOMAIN lib.map \cap Dirs : Settled(lib, p) \/ ToBeLeft(p)

\* Where the scan and the updater are.
PhasesHold ==
  /\ ~scanning => DOMAIN task = {}
  /\ ending = "sweep" => scanning /\ DOMAIN task = {}
  /\ ending \in {"save", "conclude"} => ~scanning
  /\ ending # "no" => busy
  /\ scanning => busy

TreeHolds ==
  /\ disk \subseteq Entries /\ watched \subseteq Dirs /\ pending \in BOOLEAN
  /\ events \in 0 .. MaxEvents
  /\ mtime \in [Files -> Nat] /\ \A f \in Files : mtime[f] \in 1 .. events + 1

FlagsHold ==
  /\ {scanning, busy, changed, listening, failed, aborted} \subseteq BOOLEAN
  /\ ending \in {"no", "sweep", "save", "conclude"}

ScanInv ==
  /\ TreeHolds /\ FlagsHold
  /\ IsLibrary(lib) /\ IsDatabase(saved)
  /\ ChainsHold /\ ParentsWait /\ DirIdsHold /\ CallIdsHold /\ MetAreSettled /\ PhasesHold

\* No chain of directory entries from the root comes back to where it was.
NoLoops == \A c : IsChain(c) => ~Looped(c)

-----------------------------------------------------------------------------
(* What the scanner's operators do to a library. *)

LEMMA LeastOfNaturals ==
  ASSUME NEW S, S \subseteq Nat, S # {}
  PROVE  Min(S) \in S /\ \A y \in S : Min(S) <= y
<1>1. \E x \in S : \A y \in S : x <= y
  BY LeastNat
<1> QED BY <1>1 DEF Min

\* Finitely many numbers do not go on for ever.
LEMMA OneIsFree ==
  ASSUME NEW ids, ids \subseteq Nat, IsFiniteSet(ids), ids # {}
  PROVE  \E n \in ids : n + 1 \notin ids
<1> SUFFICES ASSUME \A n \in ids : n + 1 \in ids PROVE FALSE
  OBVIOUS
<1> DEFINE low == Min(ids)
           f   == [n \in ids |-> n + 1]
           T   == ids \ {low}
<1>1. low \in ids /\ \A y \in ids : low <= y
  BY LeastOfNaturals
<1>2. f \in [ids -> T]
  <2> SUFFICES ASSUME NEW n \in ids PROVE n + 1 \in ids /\ n + 1 # low
    OBVIOUS
  <2>1. low <= n /\ n \in Nat /\ low \in Nat
    BY <1>1
  <2> HIDE DEF low
  <2> QED BY <2>1
<1>3. IsFiniteSet(T) /\ Cardinality(T) = Cardinality(ids) - 1
  BY <1>1, FS_RemoveElement
<1>4. Cardinality(ids) \in Nat
  BY FS_CardinalityType
<1> HIDE DEF T, low
<1>5. Cardinality(T) < Cardinality(ids)
  BY <1>3, <1>4
<1> HIDE DEF f
<1>6. \E x, y \in ids : x # y /\ f[x] = f[y]
  BY <1>2, <1>3, <1>5, FS_PigeonHole
<1>7. \A x \in ids : f[x] = x + 1 /\ x \in Nat
  BY DEF f
<1> QED BY <1>6, <1>7

\* The gap that AllocateID finds begins with a number that no record has.
LEMMA FirstIsFree ==
  ASSUME NEW STATE l, IsLibrary(l), l.begin = l.end
  PROVE  FirstFree(l) \in Nat /\ FirstFree(l) > RootId /\ FirstFree(l) \notin IdsIn(l.db)
<1> DEFINE ids   == IdsIn(l.db)
           after == {n + 1 : n \in ids} \ ids
<1>1. l.end \in Nat /\ l.end > RootId
  BY DEF IsLibrary, GapIsFree
<1>2. ids \subseteq Nat /\ IsFiniteSet(ids) /\ \A n \in ids : n >= RootId
  <2>1. IsFiniteSet(DOMAIN l.db)
    BY DEF IsLibrary, IsDatabase
  <2>2. IsFiniteSet(ids)
    <3> DEFINE f == [p \in DOMAIN l.db |-> l.db[p].id]
    <3>1. f \in Surjection(DOMAIN l.db, ids)
      BY DEF IdsIn, Surjection
    <3> HIDE DEF f, ids
    <3> QED BY <2>1, <3>1, FS_Surjection, Zenon
  <2>3. \A p \in DOMAIN l.db : l.db[p].id \in Nat /\ l.db[p].id >= RootId
    BY DEF IsLibrary, IsDatabase, IsRecord, IdsAreOwn, RootId
  <2> QED BY <2>2, <2>3 DEF IdsIn
<1>3. FirstFree(l) = IF ids = {} \/ Min(ids) > l.end + 1 THEN l.end + 1 ELSE Min(after)
  BY DEF FirstFree
<1> HIDE DEF ids
<1>4. CASE ids = {}
  BY <1>1, <1>3, <1>4 DEF ids, RootId
<1>5. CASE ids # {} /\ Min(ids) > l.end + 1
  <2>1. Min(ids) \in Nat /\ \A y \in ids : Min(ids) <= y
    BY <1>2, <1>5, LeastOfNaturals
  <2>2. l.end + 1 \notin ids
    BY <1>1, <1>5, <2>1
  <2>3. FirstFree(l) = l.end + 1
    BY <1>3, <1>5
  <2> QED BY <1>1, <2>2, <2>3 DEF ids, RootId
<1>6. CASE ids # {} /\ ~(Min(ids) > l.end + 1)
  <2>1. after \subseteq Nat /\ \A n \in after : n > RootId /\ n \notin ids
    BY <1>2 DEF RootId
  <2>2. after # {}
    BY <1>2, <1>6, OneIsFree
  <2>3. FirstFree(l) = Min(after)
    BY <1>3, <1>6
  <2> HIDE DEF after
  <2>4. Min(after) \in after
    BY <2>1, <2>2, LeastOfNaturals
  <2> QED BY <2>1, <2>3, <2>4 DEF ids
<1> QED BY <1>4, <1>5, <1>6

\* The gap is not empty then, and no record has an id in it.
LEMMA GapIsFound ==
  ASSUME NEW STATE l, IsLibrary(l)
  PROVE  LET m == FindGap(l) IN
         /\ IsLibrary(m) /\ m.db = l.db /\ m.map = l.map /\ m.kids = l.kids
         /\ m.begin # m.end /\ m.begin \notin IdsIn(l.db)
<1> DEFINE m == FindGap(l)
<1>1. CASE l.begin # l.end
  <2>1. m = l
    BY <1>1 DEF FindGap
  <2>2. \A n \in IdsIn(l.db) : n < l.begin \/ (l.end # NoEnd /\ n >= l.end)
    BY <1>1 DEF IsLibrary, GapIsFree
  <2>3. l.begin \in Nat /\ l.end \in Nat /\ (l.end = NoEnd \/ l.begin <= l.end)
    BY DEF IsLibrary, GapIsFree
  <2>4. l.begin \notin IdsIn(l.db)
    BY <1>1, <2>2, <2>3
  <2> QED BY <1>1, <2>1, <2>4
<1>2. CASE l.begin = l.end
  <2> DEFINE first == FirstFree(l)
             above == {n \in IdsIn(l.db) : n > first}
             end   == IF above = {} THEN NoEnd ELSE Min(above)
  <2>1. m = [l EXCEPT !.begin = first, !.end = end]
    BY <1>2 DEF FindGap
  <2>2. first \in Nat /\ first > RootId /\ first \notin IdsIn(l.db)
    BY <1>2, FirstIsFree
  <2>3. \A n \in IdsIn(l.db) : n \in Nat
    BY DEF IsLibrary, IsDatabase, IsRecord, IdsIn
  <2>4. /\ end \in Nat /\ end # first /\ (end = NoEnd \/ first <= end)
        /\ \A n \in IdsIn(l.db) : n < first \/ (end # NoEnd /\ n >= end)
    <3> HIDE DEF first
    <3>1. \A n \in IdsIn(l.db) : n < first \/ n \in above
      BY <2>2, <2>3
    <3>2. CASE above = {}
      BY <2>2, <3>1, <3>2 DEF NoEnd, RootId
    <3>3. CASE above # {}
      <4>1. above \subseteq Nat /\ \A n \in above : n > first
        BY <2>3
      <4> HIDE DEF above
      <4>2. Min(above) \in above /\ \A n \in above : Min(above) <= n
        BY <3>3, <4>1, LeastOfNaturals
      <4>3. end = Min(above) /\ end \in Nat /\ end > first
        BY <3>3, <4>1, <4>2
      <4> HIDE DEF end
      <4>4. end # NoEnd
        BY <2>2, <4>3 DEF NoEnd, RootId
      <4> QED BY <2>2, <2>3, <3>1, <4>1, <4>2, <4>3, <4>4
    <3> QED BY <3>2, <3>3
  <2> HIDE DEF first, end, m
  <2>5. /\ m.begin = first /\ m.end = end /\ m.db = l.db /\ m.map = l.map /\ m.kids = l.kids
        /\ m = [db |-> m.db, begin |-> m.begin, end |-> m.end, map |-> m.map, kids |-> m.kids]
    BY <2>1 DEF IsLibrary
  <2>6. GapIsFree(m)
    BY <2>2, <2>4, <2>5 DEF GapIsFree
  <2>7. IsLibrary(m)
    BY <2>5, <2>6 DEF IsLibrary, MapsAgree, IdsMet
  <2> QED BY <2>2, <2>4, <2>5, <2>7 DEF m
<1> QED BY <1>1, <1>2

\* What was known stays: the records, their ids, and what was met.
Keeps(l, m) ==
  /\ \A p \in DOMAIN l.db : p \in DOMAIN m.db /\ m.db[p].id = l.db[p].id
  /\ \A p \in DOMAIN l.map : p \in DOMAIN m.map /\ m.map[p] = l.map[p]

\* GetRecordForPath puts the path in m_map and creates the record if there is none.
LEMMA GetRecordKeeps ==
  ASSUME NEW STATE l, NEW STATE path, IsLibrary(l), path \in Paths
  PROVE  LET m == GetRecordForPath(l, path) IN
         /\ IsLibrary(m) /\ Keeps(l, m)
         /\ DOMAIN m.map = DOMAIN l.map \cup {path} /\ path \in DOMAIN m.db
         /\ m.map[path] = m.db[path].id /\ m.map[path] \in Nat \ {0}
         /\ DOMAIN m.db = DOMAIN l.db \cup {path}
         /\ \A p \in DOMAIN l.db : m.db[p] = l.db[p]
         /\ path = Root => m.map[path] = RootId
<1> DEFINE m == GetRecordForPath(l, path)
<1> USE DEF IsLibrary
<1>1. CASE path \in DOMAIN l.db
  <2>1. m = [l EXCEPT !.map = PutAt(@, path, l.db[path].id)]
    BY <1>1 DEF GetRecordForPath
  <2>2. /\ m.db = l.db /\ m.begin = l.begin /\ m.end = l.end /\ m.kids = l.kids
        /\ m.map = PutAt(l.map, path, l.db[path].id)
        /\ m = [db |-> m.db, begin |-> m.begin, end |-> m.end, map |-> m.map, kids |-> m.kids]
    BY <2>1
  <2> HIDE DEF m
  <2>3. /\ DOMAIN m.map = DOMAIN l.map \cup {path} /\ m.map = [p \in DOMAIN m.map |-> m.map[p]]
        /\ m.map[path] = l.db[path].id
        /\ \A p \in DOMAIN l.map : p # path => m.map[p] = l.map[p]
    BY <2>2 DEF PutAt
  <2>4. \A p \in DOMAIN l.map : p \in DOMAIN l.db /\ l.map[p] = l.db[p].id
    BY DEF MapsAgree
  <2>5. m.map = [p \in DOMAIN m.map |-> m.db[p].id]
    BY <2>2, <2>3, <2>4
  <2>6. IdsMet(l) \subseteq IdsMet(m)
    BY <2>2, <2>3 DEF IdsMet
  <2>7. MapsAgree(m)
    BY <1>1, <2>2, <2>3, <2>5, <2>6 DEF MapsAgree
  <2>8. IsLibrary(m)
    BY <2>2, <2>7 DEF GapIsFree
  <2>9. Keeps(l, m)
    BY <2>2, <2>3, <2>4 DEF Keeps
  <2>10. l.db[path].id \in Nat \ {0} /\ (path = Root => l.db[path].id = RootId)
    BY <1>1 DEF IsDatabase, IdsAreOwn, IsRecord
  <2> QED BY <1>1, <2>2, <2>3, <2>8, <2>9, <2>10 DEF m
<1>2. CASE path \notin DOMAIN l.db
  <2> DEFINE gap == IF path = Root THEN l ELSE FindGap(l)
             id  == IF path = Root THEN RootId ELSE gap.begin
  <2>1. m = [gap EXCEPT !.db    = PutAt(@, path, Pending(id)),
                        !.begin = IF path = Root THEN @ ELSE @ + 1,
                        !.map   = PutAt(@, path, id)]
    BY <1>2 DEF GetRecordForPath
  <2>2a. /\ IsLibrary(gap) /\ gap.db = l.db /\ gap.map = l.map /\ gap.kids = l.kids
         /\ path # Root => gap.begin # gap.end /\ gap.begin \notin IdsIn(l.db)
    BY GapIsFound
  <2>2b. gap = [db |-> l.db, begin |-> gap.begin, end |-> gap.end, map |-> l.map, kids |-> l.kids]
    BY <2>2a
  <2> HIDE DEF gap, m
  <2>2. /\ m.db = PutAt(l.db, path, Pending(id)) /\ m.kids = l.kids
        /\ m.begin = (IF path = Root THEN gap.begin ELSE gap.begin + 1) /\ m.end = gap.end
        /\ m.map = PutAt(l.map, path, id)
        /\ m = [db |-> m.db, begin |-> m.begin, end |-> m.end, map |-> m.map, kids |-> m.kids]
    <3> HIDE DEF id
    <3> DEFINE b == gap.begin
               e == gap.end
    <3>1. gap = [db |-> l.db, begin |-> b, end |-> e, map |-> l.map, kids |-> l.kids]
      BY <2>2b
    <3> HIDE DEF b, e
    <3>2. m = [db |-> PutAt(l.db, path, Pending(id)), begin |-> IF path = Root THEN b ELSE b + 1,
               end |-> e, map |-> PutAt(l.map, path, id), kids |-> l.kids]
      BY <2>1, <3>1
    <3> QED BY <3>2 DEF b, e
  <2>3. id \in Nat \ {0} /\ id \notin IdsIn(l.db) /\ IF path = Root THEN id = RootId ELSE id > RootId
    <3>1. CASE path = Root
      BY <1>2, <3>1 DEF IdsIn, IsDatabase, IdsAreOwn, RootId, IsRecord
    <3>2. CASE path # Root
      BY <2>2a, <3>2 DEF GapIsFree, RootId
    <3> QED BY <3>1, <3>2
  <2>4. GapIsFree(m)
    <3>1. \A n \in IdsIn(m.db) : n \in IdsIn(l.db) \/ n = id
      <4> HIDE DEF id
      <4>1. DOMAIN m.db = DOMAIN l.db \cup {path} /\ m.db[path] = Pending(id)
            /\ \A p \in DOMAIN l.db : m.db[p] = l.db[p]
        BY <1>2, <2>2 DEF PutAt
      <4>2. Pending(id).id = id
        BY DEF Pending
      <4> QED BY <4>1, <4>2 DEF IdsIn
    <3>2. /\ gap.begin \in Nat /\ gap.begin > RootId /\ gap.end \in Nat
          /\ gap.end = NoEnd \/ gap.begin <= gap.end
          /\ gap.begin # gap.end =>
               \A n \in IdsIn(l.db) : n < gap.begin \/ (gap.end # NoEnd /\ n >= gap.end)
      BY <2>2a DEF GapIsFree
    <3>3. \A n \in IdsIn(l.db) : n \in Nat
      BY DEF IsDatabase, IsRecord, IdsIn
    <3>4. CASE path = Root
      BY <2>2, <2>3, <3>1, <3>2, <3>4 DEF GapIsFree
    <3>5. CASE path # Root
      <4>1. m.begin = gap.begin + 1 /\ m.end = gap.end /\ id = gap.begin /\ gap.begin # gap.end
        BY <2>2, <2>2a, <3>5
      <4>2. m.begin \in Nat /\ m.begin > RootId /\ (m.end = NoEnd \/ m.begin <= m.end)
        BY <3>2, <4>1 DEF RootId
      <4>3. \A n \in IdsIn(m.db) : n < m.begin \/ (m.end # NoEnd /\ n >= m.end)
        <5> HIDE DEF id
        <5> QED BY <3>1, <3>2, <3>3, <4>1
      <4> QED BY <3>2, <4>1, <4>2, <4>3 DEF GapIsFree
    <3> QED BY <3>4, <3>5
  <2> HIDE DEF id
  <2>5. /\ DOMAIN m.db = DOMAIN l.db \cup {path} /\ m.db = [p \in DOMAIN m.db |-> m.db[p]]
        /\ \A p \in DOMAIN l.db : m.db[p] = l.db[p]
        /\ m.db[path] = Pending(id)
    BY <1>2, <2>2 DEF PutAt
  <2>6. DOMAIN m.map = DOMAIN l.map \cup {path} /\ m.map = [p \in DOMAIN m.map |-> m.db[p].id]
    <3>1. DOMAIN m.map = DOMAIN l.map \cup {path}
          /\ m.map = [p \in DOMAIN m.map |-> m.map[p]]
          /\ m.map[path] = id /\ \A p \in DOMAIN l.map : p # path => m.map[p] = l.map[p]
      BY <2>2 DEF PutAt
    <3>2. \A p \in DOMAIN l.map : p # path /\ l.map[p] = m.db[p].id
      BY <1>2, <2>5 DEF MapsAgree
    <3>3. m.db[path].id = id
      BY <2>5 DEF Pending
    <3> QED BY <3>1, <3>2, <3>3
  <2>7. IdsMet(l) \subseteq IdsMet(m) /\ IdsIn(l.db) \subseteq IdsIn(m.db)
    BY <2>5, <2>6 DEF IdsMet, IdsIn, MapsAgree
  <2>8. IsDatabase(m.db)
    <3>1. DOMAIN m.db \subseteq Paths /\ IsFiniteSet(DOMAIN m.db)
      BY <2>5, FS_AddElement DEF IsDatabase
    <3>2. /\ m.db[path].id = id /\ IsRecord(m.db[path]) /\ m.db[path].children = {}
      <4> DEFINE r == Pending(id)
      <4>1. r.id = id /\ r.type = "pending" /\ r.mtime = 0 /\ r.children = {}
        BY DEF Pending
      <4>2. r = [field \in {"id", "type", "mtime", "parent", "children", "high"} |-> r[field]]
        BY DEF Pending
      <4>3. 0 \in 0 .. MaxEvents + 1
        BY TreeAssumption
      <4>4. m.db[path] = r
        BY <2>5
      <4> HIDE DEF r
      <4>5. IsRecord(r)
        BY <2>3, <4>1, <4>2, <4>3 DEF IsRecord
      <4> QED BY <4>1, <4>4, <4>5
    <3>3. \A p \in DOMAIN m.db : IsRecord(m.db[p])
      BY <2>5, <3>2 DEF IsDatabase
    <3>4. IdsAreOwn(m.db)
      <4>1. \A p \in DOMAIN l.db : m.db[p].id = l.db[p].id /\ l.db[p].id # id
        BY <2>3, <2>5 DEF IdsIn
      <4>2. \A p, q \in DOMAIN m.db : m.db[p].id = m.db[q].id => p = q
        BY <2>5, <3>2, <4>1 DEF IsDatabase, IdsAreOwn
      <4>3. \A p \in DOMAIN m.db : IF p = Root THEN m.db[p].id = RootId ELSE m.db[p].id > RootId
        BY <2>3, <2>5, <3>2, <4>1 DEF IsDatabase, IdsAreOwn
      <4> QED BY <4>2, <4>3 DEF IdsAreOwn
    <3>5. ChildrenAreRecords(m.db)
      BY <2>5, <2>7, <3>2 DEF IsDatabase, ChildrenAreRecords
    <3> QED BY <2>5, <3>1, <3>3, <3>4, <3>5 DEF IsDatabase
  <2>9. MapsAgree(m)
    BY <2>2, <2>5, <2>6, <2>7 DEF MapsAgree
  <2>10. IsLibrary(m)
    BY <2>2, <2>4, <2>8, <2>9
  <2>11. Keeps(l, m)
    BY <1>2, <2>5, <2>6 DEF Keeps, MapsAgree
  <2>12. m.map[path] = id /\ m.db[path].id = id
    BY <2>5, <2>6 DEF Pending
  <2> QED BY <2>3, <2>5, <2>6, <2>10, <2>11, <2>12 DEF m
<1> QED BY <1>1, <1>2

\* Another record with the same id, in the place of one.
LEMMA RewritingKeeps ==
  ASSUME NEW STATE l, NEW STATE m, NEW STATE path, NEW STATE r, IsLibrary(l), path \in DOMAIN l.db,
         m = [l EXCEPT !.db = [l.db EXCEPT ![path] = r]],
         IsRecord(r), r.id = l.db[path].id,
         path \in Dirs => r.children \subseteq IdsIn(l.db)
  PROVE  /\ IsLibrary(m) /\ Keeps(l, m)
         /\ m.map = l.map /\ IdsMet(m) = IdsMet(l) /\ DOMAIN m.db = DOMAIN l.db
         /\ m.db[path] = r /\ \A p \in DOMAIN l.db : p # path => m.db[p] = l.db[p]
<1> USE DEF IsLibrary
<1>1. /\ m.db = [l.db EXCEPT ![path] = r]
      /\ m.begin = l.begin /\ m.end = l.end /\ m.map = l.map /\ m.kids = l.kids
      /\ m = [db |-> m.db, begin |-> m.begin, end |-> m.end, map |-> m.map, kids |-> m.kids]
  OBVIOUS
<1>2. /\ DOMAIN m.db = DOMAIN l.db /\ m.db = [p \in DOMAIN m.db |-> m.db[p]]
      /\ m.db[path] = r /\ \A p \in DOMAIN l.db : p # path => m.db[p] = l.db[p]
  BY <1>1
<1>3. \A p \in DOMAIN l.db : m.db[p].id = l.db[p].id
  BY <1>2
<1>4. IdsIn(m.db) = IdsIn(l.db)
  BY <1>2, <1>3 DEF IdsIn
<1>5. IdsMet(m) = IdsMet(l)
  BY <1>1, <1>3 DEF IdsMet, MapsAgree
<1>6. IsDatabase(m.db)
  <2>1. \A p \in DOMAIN m.db : IsRecord(m.db[p])
    BY <1>2 DEF IsDatabase
  <2>2. IdsAreOwn(m.db)
    BY <1>2, <1>3 DEF IdsAreOwn, IsDatabase
  <2>3. ChildrenAreRecords(m.db)
    BY <1>2, <1>4 DEF ChildrenAreRecords, IsDatabase
  <2> QED BY <1>2, <2>1, <2>2, <2>3 DEF IsDatabase
<1>7. MapsAgree(m)
  BY <1>1, <1>2, <1>3, <1>5 DEF MapsAgree
<1>8. Keeps(l, m)
  BY <1>1, <1>2, <1>3 DEF Keeps
<1>9. GapIsFree(m)
  BY <1>1, <1>4 DEF GapIsFree
<1> QED BY <1>1, <1>2, <1>5, <1>6, <1>7, <1>8, <1>9

\* What is filed in m_children is an id that was met.
LEMMA AddChildKeeps ==
  ASSUME NEW STATE l, NEW STATE parent, NEW STATE id, IsLibrary(l), id \in IdsMet(l)
  PROVE  /\ IsLibrary(AddChild(l, parent, id))
         /\ AddChild(l, parent, id).db = l.db /\ AddChild(l, parent, id).map = l.map
<1> DEFINE m == AddChild(l, parent, id)
<1> USE DEF IsLibrary
<1>1. m = [l EXCEPT !.kids = PutAt(l.kids, parent, Children(l, parent) \cup {id})]
  BY DEF AddChild
<1>2. /\ m.db = l.db /\ m.begin = l.begin /\ m.end = l.end /\ m.map = l.map
      /\ m.kids = PutAt(l.kids, parent, Children(l, parent) \cup {id})
      /\ m = [db |-> m.db, begin |-> m.begin, end |-> m.end, map |-> m.map, kids |-> m.kids]
  BY <1>1
<1> HIDE DEF m
<1>3. Children(l, parent) \subseteq IdsMet(l)
  BY DEF Children, MapsAgree
<1>4. /\ DOMAIN m.kids = DOMAIN l.kids \cup {parent}
      /\ m.kids = [x \in DOMAIN m.kids |-> m.kids[x]]
      /\ m.kids[parent] = Children(l, parent) \cup {id}
      /\ \A x \in DOMAIN l.kids : x # parent => m.kids[x] = l.kids[x]
  BY <1>2 DEF PutAt
<1>5. IdsMet(m) = IdsMet(l)
  BY <1>2 DEF IdsMet
<1>6. \A x \in DOMAIN m.kids : m.kids[x] \subseteq IdsMet(m)
  BY <1>3, <1>4, <1>5 DEF MapsAgree
<1>7. MapsAgree(m)
  BY <1>2, <1>4, <1>6 DEF MapsAgree
<1>8. GapIsFree(m)
  BY <1>2 DEF GapIsFree
<1> QED BY <1>2, <1>7, <1>8 DEF m

LEMMA EnterKeeps ==
  ASSUME NEW STATE l, NEW STATE parent, NEW STATE path, IsLibrary(l), path \in Paths, parent \in Nat
  PROVE  LET m == OnEnterDirectory(l, parent, path) IN
         /\ IsLibrary(m) /\ Keeps(l, m)
         /\ DOMAIN m.map = DOMAIN l.map \cup (IF path = Root THEN {} ELSE {path})
         /\ \A p \in DOMAIN l.db : m.db[p].children = l.db[p].children
         /\ path # Root => m.map[path] \in Nat
<1>1. CASE path = Root
  BY <1>1 DEF OnEnterDirectory, Keeps
<1>2. CASE path # Root
  <2> DEFINE found == GetRecordForPath(l, path)
             r     == [found.db[path] EXCEPT !.parent = parent]
             filed == [found EXCEPT !.db[path].parent = parent]
             m     == OnEnterDirectory(l, parent, path)
  <2>1. m = AddChild(filed, parent, found.map[path])
    BY <1>2 DEF OnEnterDirectory
  <2>2. /\ IsLibrary(found) /\ Keeps(l, found)
        /\ DOMAIN found.map = DOMAIN l.map \cup {path} /\ path \in DOMAIN found.db
        /\ found.map[path] = found.db[path].id /\ found.map[path] \in Nat \ {0}
        /\ \A p \in DOMAIN l.db : found.db[p] = l.db[p]
    BY GetRecordKeeps
  <2>3. IsRecord(found.db[path])
    BY <2>2 DEF IsLibrary, IsDatabase
  <2> HIDE DEF found
  <2>4. IsRecord(r) /\ r.id = found.db[path].id /\ r.children = found.db[path].children
    BY <2>3 DEF IsRecord
  <2>5. path \in Dirs => r.children \subseteq IdsIn(found.db)
    BY <2>2, <2>4 DEF IsLibrary, IsDatabase, ChildrenAreRecords
  <2>6. filed = [found EXCEPT !.db = [found.db EXCEPT ![path] = r]]
    BY <2>2 DEF IsLibrary
  <2> HIDE DEF r, filed
  <2>7. /\ IsLibrary(filed) /\ Keeps(found, filed)
        /\ filed.map = found.map /\ IdsMet(filed) = IdsMet(found)
        /\ filed.db[path] = r /\ \A p \in DOMAIN found.db : p # path => filed.db[p] = found.db[p]
    BY <2>2, <2>4, <2>5, <2>6, RewritingKeeps
  <2>8. found.map[path] \in IdsMet(filed)
    BY <2>2, <2>7 DEF IdsMet
  <2> DEFINE id == found.map[path]
  <2> HIDE DEF id, m
  <2>9. IsLibrary(m) /\ m.db = filed.db /\ m.map = filed.map
    BY <2>1, <2>7, <2>8, AddChildKeeps DEF id
  <2>10. Keeps(l, m)
    BY <2>2, <2>7, <2>9 DEF Keeps
  <2>11. \A p \in DOMAIN l.db : m.db[p].children = l.db[p].children
    BY <2>2, <2>4, <2>7, <2>9 DEF Keeps
  <2> QED BY <1>2, <2>2, <2>7, <2>9, <2>10, <2>11 DEF m
<1> QED BY <1>1, <1>2

\* A directory is complete: its children are ids that were met.
LEMMA LeaveKeeps ==
  ASSUME NEW STATE l, NEW STATE cookie, NEW STATE path, IsLibrary(l), path \in DOMAIN l.db
  PROVE  LET m == OnLeaveDirectory(l, cookie, path) IN
         /\ IsLibrary(m) /\ Keeps(l, m) /\ m.map = l.map /\ IdsMet(m) = IdsMet(l)
         /\ m.db[path].children \subseteq IdsMet(m)
         /\ \A p \in DOMAIN l.db : p # path => m.db[p] = l.db[p]
<1> DEFINE r == [l.db[path] EXCEPT !.type = "dir", !.children = Children(l, cookie)]
           m == OnLeaveDirectory(l, cookie, path)
<1>1. IsRecord(l.db[path])
  BY DEF IsLibrary, IsDatabase
<1>2. IsRecord(r) /\ r.id = l.db[path].id /\ r.children = Children(l, cookie)
  BY <1>1 DEF IsRecord
<1>3. Children(l, cookie) \subseteq IdsMet(l) /\ IdsMet(l) \subseteq IdsIn(l.db)
  BY DEF IsLibrary, MapsAgree, Children, IdsMet, IdsIn
<1>4. m = [l EXCEPT !.db = [l.db EXCEPT ![path] = r]]
  BY DEF OnLeaveDirectory, IsLibrary
<1> HIDE DEF r, m
<1>5. /\ IsLibrary(m) /\ Keeps(l, m) /\ m.map = l.map /\ IdsMet(m) = IdsMet(l)
      /\ m.db[path] = r /\ \A p \in DOMAIN l.db : p # path => m.db[p] = l.db[p]
  BY <1>2, <1>3, <1>4, RewritingKeeps
<1> QED BY <1>2, <1>3, <1>5 DEF m

\* A file's record is written again, or a playlist's is complete.
LEMMA RewriteRecordKeeps ==
  ASSUME NEW STATE l, NEW STATE path, NEW STATE stamp, NEW STATE parent, NEW STATE flac,
         IsLibrary(l), path \in DOMAIN l.db, path \notin Dirs, stamp \in 0 .. MaxEvents + 1
  PROVE  LET m == RewriteRecord(l, path, stamp, parent, flac) IN
         /\ IsLibrary(m) /\ Keeps(l, m) /\ m.map = l.map /\ IdsMet(m) = IdsMet(l)
         /\ \A p \in DOMAIN l.db : p # path => m.db[p] = l.db[p]
<1> DEFINE high == IF flac = NoFile THEN l.db[path].high ELSE l.map[flac]
           r == [l.db[path] EXCEPT !.type = "file", !.mtime = stamp, !.parent = parent, !.high = high]
           m == RewriteRecord(l, path, stamp, parent, flac)
<1>1. IsRecord(l.db[path])
  BY DEF IsLibrary, IsDatabase
<1>2. m = [l EXCEPT !.db = [l.db EXCEPT ![path] = r]]
  BY <1>1 DEF RewriteRecord, IsLibrary, IsRecord
<1> HIDE DEF high, m
<1>3. /\ IsRecord(r) /\ r.id = l.db[path].id
      /\ path \in Dirs => r.children \subseteq IdsIn(l.db)
  BY <1>1 DEF IsRecord
<1> HIDE DEF r
<1>4. /\ IsLibrary(m) /\ Keeps(l, m) /\ m.map = l.map /\ IdsMet(m) = IdsMet(l)
      /\ \A p \in DOMAIN l.db : p # path => m.db[p] = l.db[p]
  BY <1>2, <1>3, RewritingKeeps
<1> QED BY <1>4 DEF m

LEMMA FinishPlaylistKeeps ==
  ASSUME NEW STATE l, NEW STATE path, NEW STATE id,
         IsLibrary(l), path \in DOMAIN l.db, path \notin Dirs
  PROVE  LET m == FinishPlaylist(l, path, id) IN
         /\ IsLibrary(m) /\ Keeps(l, m) /\ m.map = l.map /\ IdsMet(m) = IdsMet(l)
         /\ \A p \in DOMAIN l.db : p # path => m.db[p] = l.db[p]
<1> DEFINE r == [l.db[path] EXCEPT !.type = "playlist", !.children = Children(l, id)]
           m == FinishPlaylist(l, path, id)
<1>1. IsRecord(l.db[path])
  BY DEF IsLibrary, IsDatabase
<1>2. m = [l EXCEPT !.db = [l.db EXCEPT ![path] = r]]
  BY DEF FinishPlaylist, IsLibrary
<1>3. IsRecord(r) /\ r.id = l.db[path].id
  BY <1>1 DEF IsRecord
<1> HIDE DEF r, m
<1>4. /\ IsLibrary(m) /\ Keeps(l, m) /\ m.map = l.map /\ IdsMet(m) = IdsMet(l)
      /\ \A p \in DOMAIN l.db : p # path => m.db[p] = l.db[p]
  BY <1>2, <1>3, RewritingKeeps
<1> QED BY <1>4 DEF m

\* What a scan has not met goes, and nobody who stays has it as a child if all
\* directories that were met are settled.
LEMMA DeleteMissingKeeps ==
  ASSUME NEW STATE l, IsLibrary(l), \A p \in DOMAIN l.map \cap Dirs : Settled(l, p)
  PROVE  LET m == DeleteMissing(l) IN
         /\ IsLibrary(m) /\ m.map = l.map /\ \A p \in DOMAIN l.map \cap Dirs : Settled(m, p)
<1> DEFINE m == DeleteMissing(l)
<1> USE DEF IsLibrary
<1>1. /\ m.begin = l.begin /\ m.end = l.end /\ m.map = l.map /\ m.kids = l.kids
      /\ m = [db |-> m.db, begin |-> m.begin, end |-> m.end, map |-> m.map, kids |-> m.kids]
      /\ m.db = [p \in DOMAIN l.db \cap DOMAIN l.map |-> l.db[p]]
  BY DEF DeleteMissing
<1> HIDE DEF m
<1>2. /\ DOMAIN m.db = DOMAIN l.map /\ DOMAIN l.map \subseteq DOMAIN l.db
      /\ m.db = [p \in DOMAIN m.db |-> m.db[p]]
      /\ \A p \in DOMAIN l.map : m.db[p] = l.db[p]
  BY <1>1 DEF MapsAgree
<1>3. IdsMet(m) = IdsMet(l) /\ IdsIn(m.db) = IdsMet(m)
  <2>1. \A p \in DOMAIN l.map : m.db[p].id = l.db[p].id
    BY <1>2
  <2>2. IdsMet(m) = {m.db[p].id : p \in DOMAIN l.map} /\ IdsIn(m.db) = {m.db[p].id : p \in DOMAIN l.map}
    BY <1>1, <1>2 DEF IdsMet, IdsIn
  <2>3. {m.db[p].id : p \in DOMAIN l.map} = {l.db[p].id : p \in DOMAIN l.map}
    <3> HIDE DEF IsLibrary
    <3> QED BY <2>1, Zenon
  <2>4. IdsMet(l) = {l.db[p].id : p \in DOMAIN l.map}
    BY DEF IdsMet
  <2> QED BY <2>2, <2>3, <2>4
<1>4. \A p \in DOMAIN l.map \cap Dirs : Settled(m, p)
  BY <1>2, <1>3 DEF Settled
<1>5. IsDatabase(m.db)
  <2>1. IsFiniteSet(DOMAIN m.db) /\ DOMAIN m.db \subseteq Paths
    BY <1>2, FS_Subset DEF IsDatabase
  <2>2. \A p \in DOMAIN m.db : IsRecord(m.db[p])
    BY <1>2 DEF IsDatabase
  <2>3. IdsAreOwn(m.db)
    BY <1>2 DEF IdsAreOwn, IsDatabase
  <2>4. ChildrenAreRecords(m.db)
    BY <1>2, <1>3, <1>4 DEF ChildrenAreRecords, Settled
  <2> QED BY <1>2, <2>1, <2>2, <2>3, <2>4 DEF IsDatabase
<1>6. MapsAgree(m)
  BY <1>1, <1>2, <1>3 DEF MapsAgree
<1>7. GapIsFree(m)
  <2>1. IdsIn(m.db) \subseteq IdsIn(l.db)
    BY <1>2 DEF IdsIn
  <2> QED BY <1>1, <2>1 DEF GapIsFree
<1> QED BY <1>1, <1>4, <1>5, <1>6, <1>7 DEF m

\* A scan, or a process, starts with empty maps.
LEMMA EmptyMaps ==
  ASSUME NEW STATE l,
         l = [db |-> l.db, begin |-> l.begin, end |-> l.end, map |-> NoIds, kids |-> NoIds],
         GapIsFree(l), IsDatabase(l.db)
  PROVE  IsLibrary(l) /\ DOMAIN l.map = {}
<1>1. l.map = NoIds /\ l.kids = NoIds /\ DOMAIN NoIds = {}
  BY DEF NoIds
<1>2. NoIds = [p \in {} |-> l.db[p].id] /\ NoIds = [x \in {} |-> NoIds[x]]
  BY DEF NoIds
<1>3. MapsAgree(l)
  BY <1>1, <1>2 DEF MapsAgree
<1> QED BY <1>1, <1>3 DEF IsLibrary

LEMMA ForgetKeeps ==
  ASSUME NEW STATE l, IsLibrary(l)
  PROVE  IsLibrary(Forget(l)) /\ DOMAIN Forget(l).map = {}
<1> DEFINE m == Forget(l)
<1>1. /\ m = [db |-> m.db, begin |-> m.begin, end |-> m.end, map |-> NoIds, kids |-> NoIds]
      /\ m.begin = l.begin /\ m.end = l.end /\ m.db = l.db
  <2> DEFINE half == [l EXCEPT !.map = NoIds]
  <2>1. half = [db |-> l.db, begin |-> l.begin, end |-> l.end, map |-> NoIds, kids |-> l.kids]
    BY DEF IsLibrary
  <2>2. m = [half EXCEPT !.kids = NoIds]
    BY DEF Forget
  <2> HIDE DEF half, m
  <2>3. m = [db |-> l.db, begin |-> l.begin, end |-> l.end, map |-> NoIds, kids |-> NoIds]
    BY <2>1, <2>2
  <2> QED BY <2>3
<1> HIDE DEF m
<1>2. GapIsFree(m)
  BY <1>1 DEF IsLibrary, GapIsFree
<1>3. IsLibrary(m) /\ DOMAIN m.map = {}
  BY <1>1, <1>2, EmptyMaps DEF IsLibrary
<1> QED BY <1>3 DEF m

LEMMA ReloadKeeps ==
  ASSUME NEW STATE db, IsDatabase(db)
  PROVE  IsLibrary(Reload(db)) /\ DOMAIN Reload(db).map = {}
<1> DEFINE m == Reload(db)
<1>1. /\ m = [db |-> m.db, begin |-> m.begin, end |-> m.end, map |-> NoIds, kids |-> NoIds]
      /\ m.begin = LowIds /\ m.end = LowIds /\ m.db = db
  BY DEF Reload, KnownAtFirst
<1> HIDE DEF m
<1>2. GapIsFree(m)
  BY <1>1 DEF GapIsFree, LowIds, RootId, NoEnd
<1>3. IsLibrary(m) /\ DOMAIN m.map = {}
  BY <1>1, <1>2, EmptyMaps
<1> QED BY <1>3 DEF m

-----------------------------------------------------------------------------
(* What steps do to the tasks. *)

\* A chain's tasks are those of its beginnings; one longer than another begins so.
LEMMA Beginnings ==
  ASSUME NEW c, IsChain(c), NEW i \in 1 .. Len(c)
  PROVE  /\ SubSeq(c, 1, i) \in Seq(Paths) /\ Len(SubSeq(c, 1, i)) = i
         /\ \A j \in 1 .. i : SubSeq(c, 1, i)[j] = c[j]
         /\ \A j \in 1 .. i : SubSeq(SubSeq(c, 1, i), 1, j) = SubSeq(c, 1, j)
<1>1. c \in Seq(Paths) /\ \A j \in 1 .. i : c[j] \in Paths
  BY DEF IsChain
<1>2. /\ SubSeq(c, 1, i) \in Seq(Paths) /\ Len(SubSeq(c, 1, i)) = i
      /\ \A j \in 1 .. i : SubSeq(c, 1, i)[j] = c[j]
  BY <1>1, SubSeqProperties
<1>3. \A j \in 1 .. i : SubSeq(SubSeq(c, 1, i), 1, j) = SubSeq(c, 1, j)
  BY <1>1, SubSeqOfSubSeq
<1> QED BY <1>2, <1>3

LEMMA LongerChain ==
  ASSUME NEW c, IsChain(c), NEW p \in Paths, <<Last(c), p>> \in Entries
  PROVE  LET n == Append(c, p) IN
         /\ IsChain(n) /\ Last(n) = p /\ Len(n) = Len(c) + 1 /\ SubSeq(n, 1, Len(n)) = n
         /\ \A i \in 1 .. Len(c) : SubSeq(n, 1, i) = SubSeq(c, 1, i)
<1> DEFINE n == Append(c, p)
<1>1. c \in Seq(Paths) /\ Len(c) \in Nat \ {0} /\ c[1] = Root
  BY DEF IsChain
<1>2. /\ n \in Seq(Paths) /\ Len(n) = Len(c) + 1 /\ n[Len(c) + 1] = p
      /\ \A i \in 1 .. Len(c) : n[i] = c[i]
  BY <1>1
<1>3. SubSeq(n, 1, Len(n)) = n
  BY <1>2, SubSeqFull
<1>4. \A i \in 1 .. Len(c) : SubSeq(n, 1, i) = SubSeq(c, 1, i)
  BY <1>1, <1>2
<1> HIDE DEF n
<1>5. \A i \in 1 .. Len(n) - 1 : <<n[i], n[i + 1]>> \in Entries
  <2> SUFFICES ASSUME NEW i \in 1 .. Len(n) - 1 PROVE <<n[i], n[i + 1]>> \in Entries
    OBVIOUS
  <2>1. CASE i = Len(c)
    BY <1>1, <1>2, <2>1 DEF Last
  <2>2. CASE i # Len(c)
    <3>1. i \in 1 .. Len(c) - 1 /\ i \in 1 .. Len(c) /\ i + 1 \in 1 .. Len(c)
      BY <1>1, <1>2, <2>2
    <3>2. n[i] = c[i] /\ n[i + 1] = c[i + 1]
      BY <1>2, <3>1
    <3> QED BY <3>1, <3>2 DEF IsChain
  <2> QED BY <2>1, <2>2
<1>6. IsChain(n)
  BY <1>1, <1>2, <1>5 DEF IsChain
<1> QED BY <1>2, <1>3, <1>4, <1>6 DEF n, Last

\* Only directories have entries.
LEMMA EntriesInDirs == Entries \subseteq Dirs \X Paths
BY TreeAssumption DEF Entries

LEMMA ChainsEnd ==
  ASSUME NEW c, IsChain(c)
  PROVE  Last(c) \in Paths /\ \A i \in 1 .. Len(c) - 1 : c[i] \in Dirs
<1>1. c \in Seq(Paths) /\ Len(c) \in Nat \ {0}
  BY DEF IsChain
<1>2. Last(c) \in Paths
  BY <1>1 DEF Last
<1>3. ASSUME NEW i \in 1 .. Len(c) - 1 PROVE c[i] \in Dirs
  <2>1. <<c[i], c[i + 1]>> \in Dirs \X Paths
    BY EntriesInDirs DEF IsChain
  <2> QED BY <2>1
<1> QED BY <1>2, <1>3

LEMMA TaskChanges ==
  ASSUME ChainsHold, NEW STATE c, c \in DOMAIN task, NEW STATE t,
         IsTask(c, t), task' = [task EXCEPT ![c] = t]
  PROVE  ChainsHold' /\ DOMAIN task' = DOMAIN task
         /\ task'[c] = t /\ \A n \in DOMAIN task : n # c => task'[n] = task[n]
<1>1. /\ DOMAIN task' = DOMAIN task /\ task' = [n \in DOMAIN task' |-> task'[n]]
      /\ task'[c] = t /\ \A n \in DOMAIN task : n # c => task'[n] = task[n]
  BY DEF ChainsHold
<1>2. \A n \in DOMAIN task' : IsTask(n, task'[n])
  BY <1>1 DEF ChainsHold
<1> QED BY <1>1, <1>2 DEF ChainsHold

\* A task that goes leaves none that hangs on it.
LEMMA TaskGoes ==
  ASSUME ChainsHold, NEW STATE c, c \in DOMAIN task, task' = WithoutTask(c),
         \A n \in DOMAIN task : \A i \in 1 .. Len(n) - 1 : SubSeq(n, 1, i) # c
  PROVE  ChainsHold' /\ DOMAIN task' = DOMAIN task \ {c} /\ \A n \in DOMAIN task' : task'[n] = task[n]
<1>1. /\ DOMAIN task' = DOMAIN task \ {c} /\ task' = [n \in DOMAIN task' |-> task'[n]]
      /\ \A n \in DOMAIN task' : task'[n] = task[n]
  BY DEF WithoutTask
<1>2. ASSUME NEW n \in DOMAIN task', NEW i \in 1 .. Len(n)
      PROVE  SubSeq(n, 1, i) \in DOMAIN task'
  <2>1. SubSeq(n, 1, i) \in DOMAIN task /\ n \in Seq(Paths)
    BY <1>1 DEF ChainsHold, IsChain
  <2>2. CASE i = Len(n)
    BY <1>2, <2>1, <2>2, SubSeqFull
  <2>3. CASE i # Len(n)
    <3>1. i \in 1 .. Len(n) - 1
      BY <2>1, <2>3
    <3> QED BY <1>1, <2>1, <3>1
  <2> QED BY <2>2, <2>3
<1> QED BY <1>1, <1>2 DEF ChainsHold

LEMMA FileHasNoChildren ==
  ASSUME ChainsHold, NEW c \in DOMAIN task, Last(c) \in Files,
         NEW n \in DOMAIN task, NEW i \in 1 .. Len(n) - 1
  PROVE  SubSeq(n, 1, i) # c
<1>1. IsChain(n) /\ IsChain(c) /\ n[i] \in Dirs /\ Len(n) \in Nat
  BY ChainsEnd DEF ChainsHold, IsChain
<1>2. i \in 1 .. Len(n)
  BY <1>1
<1>3. Last(SubSeq(n, 1, i)) = n[i]
  BY <1>1, <1>2, Beginnings DEF Last
<1> QED BY <1>1, <1>3, TreeAssumption

LEMMA NoChildrenLeft ==
  ASSUME ChainsHold, NEW c \in DOMAIN task, ~HasChildren(c),
         NEW n \in DOMAIN task, NEW i \in 1 .. Len(n) - 1
  PROVE  SubSeq(n, 1, i) # c
<1> SUFFICES ASSUME SubSeq(n, 1, i) = c PROVE FALSE
  OBVIOUS
<1> DEFINE m == SubSeq(n, 1, i + 1)
<1>1. IsChain(n) /\ Len(n) \in Nat /\ i \in 1 .. Len(n) /\ i + 1 \in 1 .. Len(n) /\ m \in DOMAIN task
  BY DEF ChainsHold, IsChain
<1>2. Len(m) = i + 1 /\ SubSeq(m, 1, i) = c
  BY <1>1, Beginnings
<1>3. Len(m) > 1 /\ Parent(m) = c
  BY <1>2 DEF Parent, Front
<1> QED BY <1>1, <1>3 DEF HasChildren

\* Without children of the root's task there are no other tasks.
LEMMA RootIsLast ==
  ASSUME ChainsHold, NEW c \in DOMAIN task, Len(c) = 1, ~HasChildren(c)
  PROVE  DOMAIN task = {c}
<1> SUFFICES ASSUME NEW n \in DOMAIN task PROVE n = c
  OBVIOUS
<1>1. IsChain(n) /\ IsChain(c) /\ Len(n) \in Nat \ {0}
  BY DEF ChainsHold, IsChain
<1>2. Len(SubSeq(n, 1, 1)) = 1 /\ SubSeq(n, 1, 1)[1] = Root /\ SubSeq(n, 1, 1) \in Seq(Paths)
  BY <1>1, Beginnings DEF IsChain
<1> DEFINE m == SubSeq(n, 1, 1)
<1>3. m = c
  <2> HIDE DEF m
  <2>1. m \in Seq(Paths) /\ c \in Seq(Paths) /\ Len(m) = 1 /\ Len(c) = 1 /\ m[1] = c[1]
    BY <1>1, <1>2 DEF IsChain, m
  <2> QED BY <2>1, SeqEqual
<1>4. Len(n) = 1
  <2> SUFFICES ASSUME Len(n) # 1 PROVE FALSE
    OBVIOUS
  <2>1. \A k \in Nat \ {0} : k # 1 => 1 \in 1 .. k - 1
    OBVIOUS
  <2>2. 1 \in 1 .. Len(n) - 1
    BY <1>1, <2>1
  <2> QED BY <1>3, <2>2, NoChildrenLeft
<1>5. SubSeq(n, 1, 1) = n
  BY <1>1, <1>4, SubSeqFull DEF IsChain
<1> QED BY <1>3, <1>5

LEMMA ParentsStillWait ==
  ASSUME ParentsWait, ChainsHold', \A n \in DOMAIN task' : n \in DOMAIN task /\ task'[n].at = task[n].at
  PROVE  ParentsWait'
<1> SUFFICES ASSUME NEW n \in DOMAIN task', NEW i \in 1 .. Len(n) - 1
             PROVE  task'[SubSeq(n, 1, i)].at = "waiting"
  BY DEF ParentsWait
<1>1. Len(n) \in Nat
  BY DEF ChainsHold, IsChain
<1>2. i \in 1 .. Len(n)
  BY <1>1
<1>3. SubSeq(n, 1, i) \in DOMAIN task' /\ n \in DOMAIN task
  BY <1>2 DEF ChainsHold
<1> QED BY <1>3 DEF ParentsWait

\* The ids that tasks have kept stay those in m_map.
LEMMA IdsStay ==
  ASSUME Keeps(lib, lib'), NEW p, NEW id, HasId(lib, p, id)
  PROVE  HasId(lib', p, id)
BY DEF HasId, Keeps

\* The root's task by itself, as a scan begins.
LEMMA RootTaskIs ==
  /\ RootTask = [c \in DOMAIN RootTask |-> RootTask[c]]
  /\ \A c \in DOMAIN RootTask :
       /\ IsChain(c) /\ IsTask(c, RootTask[c])
       /\ RootTask[c].at = "queued" /\ RootTask[c].calls = <<>>
       /\ \A i \in 1 .. Len(c) : SubSeq(c, 1, i) \in DOMAIN RootTask
       /\ \A i \in 1 .. Len(c) - 1 : FALSE
<1> DEFINE c == <<Root>>
<1>1. c \in Seq(Paths) /\ Len(c) = 1 /\ c[1] = Root /\ c # <<>> /\ Last(c) = Root
  BY TreeAssumption DEF Paths, Last
<1>2. SubSeq(c, 1, 1) = c
  BY <1>1, SubSeqFull
<1>3. Root \notin Files /\ DirTask \in [at : {"file", "queued", "waiting"}, id : Nat, calls : Seq(Calls)]
      /\ DirTask.at = "queued" /\ DirTask.calls = <<>>
  BY TreeAssumption DEF DirTask
<1>4. IsChain(c) /\ IsTask(c, DirTask)
  BY <1>1, <1>3 DEF IsChain, IsTask
<1>5. \A i \in 1 .. Len(c) : SubSeq(c, 1, i) = c
  BY <1>1, <1>2
<1>6. \A i \in 1 .. Len(c) - 1 : FALSE
  BY <1>1
<1>7. RootTask = [n \in {c} |-> DirTask]
  BY DEF RootTask
<1> HIDE DEF c
<1>8. DOMAIN RootTask = {c} /\ RootTask[c] = DirTask /\ RootTask = [n \in DOMAIN RootTask |-> RootTask[n]]
  BY <1>7
<1> QED BY <1>1, <1>3, <1>4, <1>5, <1>6, <1>8

LEMMA RootTaskHolds ==
  ASSUME task' = RootTask
  PROVE  ChainsHold' /\ ParentsWait' /\ DirIdsHold' /\ CallIdsHold'
<1>1. ChainsHold' /\ ParentsWait' /\ DirIdsHold'
  BY RootTaskIs DEF ChainsHold, ParentsWait, DirIdsHold
<1>2. CallIdsHold'
  <2>1. \A c \in DOMAIN task' : \A i \in 1 .. Len(task'[c].calls) : FALSE
    BY RootTaskIs
  <2> QED BY <2>1 DEF CallIdsHold
<1> QED BY <1>1, <1>2

-----------------------------------------------------------------------------
(* The steps of OnFile. *)

\* A task that runs OnFile changes only its calls.
LEMMA CallsChange ==
  ASSUME ScanInv, NEW STATE c, c \in DOMAIN task, task[c].at = "file",
         NEW STATE calls, calls \in Seq(Calls), calls # <<>>,
         task' = [task EXCEPT ![c] = [task[c] EXCEPT !.calls = calls]],
         Keeps(lib, lib'),
         \A i \in 1 .. Len(calls) : calls[i].at \in {"compare", "songs", "link"} =>
           HasId(lib', calls[i].path, calls[i].id)
  PROVE  /\ ChainsHold' /\ ParentsWait' /\ DirIdsHold' /\ CallIdsHold'
         /\ DOMAIN task' = DOMAIN task
         /\ \A p : ToBeLeft(p) => ToBeLeft(p)'
<1> DEFINE t == [task[c] EXCEPT !.calls = calls]
<1>1. ChainsHold /\ DirIdsHold /\ CallIdsHold
  BY DEF ScanInv
<1>2. IsTask(c, task[c])
  BY <1>1 DEF ChainsHold
<1>3. /\ t \in [at : {"file", "queued", "waiting"}, id : Nat, calls : Seq(Calls)]
      /\ t.at = "file" /\ t.calls = calls
  BY <1>2 DEF IsTask
<1>4. IsTask(c, t)
  BY <1>2, <1>3 DEF IsTask
<1> HIDE DEF t
<1>5. task' = [task EXCEPT ![c] = t]
  BY DEF t
<1>6. ChainsHold' /\ DOMAIN task' = DOMAIN task
      /\ task'[c] = t /\ \A n \in DOMAIN task : n # c => task'[n] = task[n]
  BY <1>1, <1>4, <1>5, TaskChanges
<1>7. DirIdsHold'
  <2> SUFFICES ASSUME NEW n \in DOMAIN task', task'[n].at = "waiting", ~Looped(n)
               PROVE  IF Last(n) = Root THEN task'[n].id = RootId ELSE HasId(lib', Last(n), task'[n].id)
    BY DEF DirIdsHold, Looped, HasId
  <2>1. n # c /\ n \in DOMAIN task /\ task'[n] = task[n]
    BY <1>3, <1>6
  <2>2. IF Last(n) = Root THEN task[n].id = RootId ELSE HasId(lib, Last(n), task[n].id)
    BY <1>1, <2>1 DEF DirIdsHold
  <2> QED BY <2>1, <2>2, IdsStay
<1>8. CallIdsHold'
  <2> SUFFICES ASSUME NEW n \in DOMAIN task', NEW i \in 1 .. Len(task'[n].calls),
                      task'[n].calls[i].at \in {"compare", "songs", "link"}
               PROVE  HasId(lib', task'[n].calls[i].path, task'[n].calls[i].id)
    BY DEF CallIdsHold, HasId
  <2>1. CASE n = c
    BY <2>1, <1>3, <1>6
  <2>2. CASE n # c
    <3>1. n \in DOMAIN task /\ task'[n] = task[n]
      BY <1>6, <2>2
    <3>2. HasId(lib, task[n].calls[i].path, task[n].calls[i].id)
      BY <1>1, <3>1 DEF CallIdsHold
    <3> QED BY <3>1, <3>2, IdsStay
  <2> QED BY <2>1, <2>2
<1>9. ASSUME NEW p, ToBeLeft(p) PROVE ToBeLeft(p)'
  <2>1. PICK n \in DOMAIN task : Last(n) = p /\ task[n].at = "waiting"
    BY <1>9 DEF ToBeLeft
  <2>2. n # c
    BY <2>1
  <2> QED BY <1>6, <2>1, <2>2 DEF ToBeLeft
<1>10. ParentsWait'
  <2>1. task'[c].at = task[c].at
    BY <1>3, <1>6
  <2>2. \A n \in DOMAIN task' : n \in DOMAIN task /\ task'[n].at = task[n].at
    BY <1>6, <2>1
  <2> QED BY <1>6, <2>2, ParentsStillWait DEF ScanInv
<1> QED BY <1>6, <1>7, <1>8, <1>9, <1>10

\* With its last call a task is over.
LEMMA CallsEnd ==
  ASSUME ScanInv, NEW STATE c, c \in DOMAIN task, task[c].at = "file",
         task' = WithoutTask(c), Keeps(lib, lib')
  PROVE  /\ ChainsHold' /\ ParentsWait' /\ DirIdsHold' /\ CallIdsHold'
         /\ DOMAIN task' = DOMAIN task \ {c}
         /\ \A p : ToBeLeft(p) => ToBeLeft(p)'
<1>1. ChainsHold /\ DirIdsHold /\ CallIdsHold
  BY DEF ScanInv
<1>2. Last(c) \in Files
  BY <1>1 DEF ChainsHold, IsTask
<1>3. ChainsHold' /\ DOMAIN task' = DOMAIN task \ {c} /\ \A n \in DOMAIN task' : task'[n] = task[n]
  BY <1>1, <1>2, FileHasNoChildren, TaskGoes
<1>4. DirIdsHold'
  <2> SUFFICES ASSUME NEW n \in DOMAIN task', task'[n].at = "waiting", ~Looped(n)
               PROVE  IF Last(n) = Root THEN task'[n].id = RootId ELSE HasId(lib', Last(n), task'[n].id)
    BY DEF DirIdsHold, Looped, HasId
  <2>1. n \in DOMAIN task /\ task'[n] = task[n]
    BY <1>3
  <2>2. IF Last(n) = Root THEN task[n].id = RootId ELSE HasId(lib, Last(n), task[n].id)
    BY <1>1, <2>1 DEF DirIdsHold
  <2> QED BY <2>1, <2>2, IdsStay
<1>5. CallIdsHold'
  <2> SUFFICES ASSUME NEW n \in DOMAIN task', NEW i \in 1 .. Len(task'[n].calls),
                      task'[n].calls[i].at \in {"compare", "songs", "link"}
               PROVE  HasId(lib', task'[n].calls[i].path, task'[n].calls[i].id)
    BY DEF CallIdsHold, HasId
  <2>1. n \in DOMAIN task /\ task'[n] = task[n]
    BY <1>3
  <2>2. HasId(lib, task[n].calls[i].path, task[n].calls[i].id)
    BY <1>1, <2>1 DEF CallIdsHold
  <2> QED BY <2>1, <2>2, IdsStay
<1>6. ASSUME NEW p, ToBeLeft(p) PROVE ToBeLeft(p)'
  <2>1. PICK n \in DOMAIN task : Last(n) = p /\ task[n].at = "waiting"
    BY <1>6 DEF ToBeLeft
  <2>2. n # c
    BY <2>1
  <2> QED BY <1>3, <2>1, <2>2 DEF ToBeLeft
<1>7. ParentsWait'
  <2>2. \A n \in DOMAIN task' : n \in DOMAIN task /\ task'[n].at = task[n].at
    BY <1>3
  <2> QED BY <1>3, <2>2, ParentsStillWait DEF ScanInv
<1> QED BY <1>3, <1>4, <1>5, <1>6, <1>7

\* What OnFile writes concerns no directory.
LEMMA DirsStaySettled ==
  ASSUME ScanInv, ~aborted, IsLibrary(lib'), Keeps(lib, lib'),
         DOMAIN lib'.map \cap Dirs \subseteq DOMAIN lib.map,
         \A p \in DOMAIN lib.db \cap Dirs : lib'.db[p].children = lib.db[p].children,
         \A p : ToBeLeft(p) => ToBeLeft(p)'
  PROVE  MetAreSettled'
<1> SUFFICES ASSUME NEW p \in DOMAIN lib'.map \cap Dirs, ~ToBeLeft(p)
             PROVE  Settled(lib', p)
  BY DEF MetAreSettled, Settled, IdsMet
<1>1. p \in DOMAIN lib.map /\ p \in DOMAIN lib.db
  BY DEF ScanInv, IsLibrary, MapsAgree
<1>2. Settled(lib, p)
  BY <1>1 DEF ScanInv, MetAreSettled
<1>3. IdsMet(lib) \subseteq IdsMet(lib')
  BY DEF Keeps, IdsMet, ScanInv, IsLibrary, MapsAgree
<1> QED BY <1>1, <1>2, <1>3 DEF Settled

\* The rest of the invariant, for every step of OnFile.
LEMMA OnFileLeaves ==
  ASSUME ScanInv, ~aborted, UNCHANGED onlyOnFile, NEW c \in DOMAIN task,
         IsLibrary(lib'), ChainsHold' /\ ParentsWait' /\ DirIdsHold' /\ CallIdsHold', MetAreSettled',
         DOMAIN task' \subseteq DOMAIN task
  PROVE  ScanInv'
<1>1. scanning /\ ending # "sweep"
  BY DEF ScanInv, PhasesHold
<1>2. PhasesHold'
  BY <1>1 DEF ScanInv, PhasesHold, onlyOnFile
<1>3. TreeHolds' /\ FlagsHold' /\ IsDatabase(saved)'
  BY DEF ScanInv, TreeHolds, FlagsHold, IsDatabase, IsRecord, IdsAreOwn, ChildrenAreRecords, IdsIn, onlyOnFile, treeVars
<1> QED BY <1>2, <1>3 DEF ScanInv

\* What a step of OnFile may do to the library.
FilesWritten ==
  /\ IsLibrary(lib') /\ Keeps(lib, lib')
  /\ DOMAIN lib'.map \cap Dirs \subseteq DOMAIN lib.map
  /\ \A p \in DOMAIN lib.db \cap Dirs : lib'.db[p].children = lib.db[p].children

LEMMA CallsOfFile ==
  ASSUME ScanInv, NEW c \in DOMAIN task, task[c].at = "file"
  PROVE  LET calls == task[c].calls IN
         /\ calls \in Seq(Calls) /\ calls # <<>> /\ Len(calls) \in Nat \ {0} /\ calls[1] \in Calls
         /\ \A i \in 1 .. Len(calls) : calls[i].at \in {"compare", "songs", "link"} =>
              HasId(lib, calls[i].path, calls[i].id)
         /\ task = [n \in DOMAIN task |-> task[n]]
         /\ task[c] = [at |-> task[c].at, id |-> task[c].id, calls |-> task[c].calls]
<1>1. task[c].calls \in Seq(Calls) /\ task[c].calls # <<>>
      /\ task = [n \in DOMAIN task |-> task[n]]
      /\ task[c] = [at |-> task[c].at, id |-> task[c].id, calls |-> task[c].calls]
  BY DEF ScanInv, ChainsHold, IsTask
<1>2. Len(task[c].calls) \in Nat \ {0} /\ task[c].calls[1] \in Calls
  BY <1>1
<1> QED BY <1>1, <1>2 DEF ScanInv, CallIdsHold

LEMMA CallIsCall ==
  ASSUME ScanInv, NEW STATE path, path \in Files, NEW STATE parent, parent \in Nat
  PROVE  Call(path, parent) \in Calls /\ Call(path, parent).at = "look"
<1>1. MaxEvents \in Nat /\ events \in 0 .. MaxEvents /\ mtime[path] \in 1 .. events + 1
  BY TreeAssumption DEF ScanInv, TreeHolds
<1>2. mtime[path] \in 1 .. MaxEvents + 1
  BY <1>1
<1> QED BY <1>2 DEF Call, Calls

\* The innermost call goes on.
LEMMA FirstCallChanges ==
  ASSUME ScanInv, ~aborted, UNCHANGED onlyOnFile, NEW c \in DOMAIN task, task[c].at = "file",
         NEW STATE k, k \in Calls, task' = SetCall(c, k), FilesWritten,
         k.at \in {"compare", "songs", "link"} => HasId(lib', k.path, k.id)
  PROVE  ScanInv'
<1> DEFINE calls == [task[c].calls EXCEPT ![1] = k]
<1>1. /\ calls \in Seq(Calls) /\ calls # <<>> /\ Len(calls) = Len(task[c].calls) /\ calls[1] = k
      /\ \A i \in 2 .. Len(calls) : calls[i] = task[c].calls[i]
  BY CallsOfFile
<1>2. task' = [task EXCEPT ![c] = [task[c] EXCEPT !.calls = calls]]
  BY CallsOfFile DEF SetCall
<1>3. ASSUME NEW i \in 1 .. Len(calls), calls[i].at \in {"compare", "songs", "link"}
      PROVE  HasId(lib', calls[i].path, calls[i].id)
  <2>1. CASE i = 1
    BY <1>1, <1>3, <2>1
  <2>2. CASE i # 1
    <3>1. i \in 2 .. Len(calls) /\ i \in 1 .. Len(task[c].calls)
      BY <1>1, <2>2, CallsOfFile
    <3>2. HasId(lib, calls[i].path, calls[i].id)
      BY <1>1, <1>3, <3>1, CallsOfFile
    <3> QED BY <3>2, IdsStay DEF FilesWritten
  <2> QED BY <2>1, <2>2
<1> HIDE DEF calls
<1>4. /\ ChainsHold' /\ ParentsWait' /\ DirIdsHold' /\ CallIdsHold'
      /\ DOMAIN task' = DOMAIN task /\ \A p : ToBeLeft(p) => ToBeLeft(p)'
  BY <1>1, <1>2, <1>3, CallsChange DEF FilesWritten
<1>5. MetAreSettled'
  BY <1>4, DirsStaySettled DEF FilesWritten
<1> QED BY <1>4, <1>5, OnFileLeaves DEF FilesWritten

\* OnFile calls itself.
LEMMA CallIsNested ==
  ASSUME ScanInv, ~aborted, UNCHANGED onlyOnFile, NEW c \in DOMAIN task, task[c].at = "file",
         NEW STATE k, k \in Calls, NEW STATE inner, inner \in Calls, inner.at = "look",
         task' = Nested(c, k, inner), FilesWritten,
         HasId(lib', k.path, k.id)
  PROVE  ScanInv'
<1> DEFINE old   == task[c].calls
           calls == <<inner, k>> \o Tail(old)
<1>1. old \in Seq(Calls) /\ old # <<>> /\ Len(old) \in Nat \ {0}
  BY CallsOfFile
<1>7. Tail(old) \in Seq(Calls) /\ Len(Tail(old)) = Len(old) - 1
      /\ \A i \in 1 .. Len(Tail(old)) : Tail(old)[i] = old[i + 1]
  BY <1>1
<1>6. /\ calls \in Seq(Calls) /\ Len(calls) = Len(old) + 1 /\ calls[1] = inner /\ calls[2] = k
      /\ \A i \in 3 .. Len(calls) : calls[i] = Tail(old)[i - 2]
  BY <1>1, <1>7
<1>2. task' = [task EXCEPT ![c] = [task[c] EXCEPT !.calls = calls]]
  BY CallsOfFile DEF Nested
<1>3. ASSUME NEW i \in 1 .. Len(calls), calls[i].at \in {"compare", "songs", "link"}
      PROVE  HasId(lib', calls[i].path, calls[i].id)
  <2>1. CASE i = 1
    BY <1>6, <1>3, <2>1
  <2>3. CASE i = 2
    BY <1>6, <2>3
  <2>2. CASE i \notin {1, 2}
    <3> DEFINE j == i - 1
    <3>1. i \in 3 .. Len(calls) /\ j \in 1 .. Len(old) /\ i - 2 \in 1 .. Len(Tail(old)) /\ (i - 2) + 1 = j
      BY <1>6, <1>7, <1>1, <2>2
    <3>3. calls[i] = old[j]
      BY <1>6, <1>7, <3>1
    <3>2. HasId(lib, calls[i].path, calls[i].id)
      BY <1>3, <3>1, <3>3, CallsOfFile
    <3> QED BY <3>2, IdsStay DEF FilesWritten
  <2> QED BY <2>1, <2>2, <2>3
<1>8. calls # <<>>
  BY <1>6, <1>1
<1> HIDE DEF calls
<1>4. /\ ChainsHold' /\ ParentsWait' /\ DirIdsHold' /\ CallIdsHold'
      /\ DOMAIN task' = DOMAIN task /\ \A p : ToBeLeft(p) => ToBeLeft(p)'
  BY <1>6, <1>8, <1>2, <1>3, CallsChange DEF FilesWritten
<1>5. MetAreSettled'
  BY <1>4, DirsStaySettled DEF FilesWritten
<1> QED BY <1>4, <1>5, OnFileLeaves DEF FilesWritten

\* The innermost call returns.
LEMMA FirstCallReturns ==
  ASSUME ScanInv, ~aborted, UNCHANGED onlyOnFile, NEW c \in DOMAIN task, task[c].at = "file",
         FilesWritten,
         task' = IF Len(task[c].calls) = 1 THEN WithoutTask(c)
                 ELSE [task EXCEPT ![c].calls = Tail(@)]
  PROVE  ScanInv'
<1> DEFINE old   == task[c].calls
           calls == Tail(old)
<1>1. old \in Seq(Calls) /\ old # <<>> /\ Len(old) \in Nat \ {0}
  BY CallsOfFile
<1>2. calls \in Seq(Calls) /\ Len(calls) = Len(old) - 1
      /\ \A i \in 1 .. Len(calls) : calls[i] = old[i + 1]
  BY <1>1
<1>3. /\ ChainsHold' /\ ParentsWait' /\ DirIdsHold' /\ CallIdsHold'
      /\ DOMAIN task' \subseteq DOMAIN task /\ \A p : ToBeLeft(p) => ToBeLeft(p)'
  <2>1. CASE Len(old) = 1
    BY <2>1, CallsEnd DEF FilesWritten
  <2>2. CASE Len(old) # 1
    <3>1. task' = [task EXCEPT ![c] = [task[c] EXCEPT !.calls = calls]]
      BY <2>2, CallsOfFile
    <3>2. calls # <<>>
      <4>1. Len(calls) \in Nat /\ Len(calls) # 0
        BY <1>1, <1>2, <2>2
      <4> HIDE DEF calls
      <4> QED BY <4>1
    <3>3. ASSUME NEW i \in 1 .. Len(calls), calls[i].at \in {"compare", "songs", "link"}
          PROVE  HasId(lib', calls[i].path, calls[i].id)
      <4>1. i + 1 \in 1 .. Len(old) /\ calls[i] = old[i + 1]
        BY <1>1, <1>2
      <4>2. HasId(lib, calls[i].path, calls[i].id)
        BY <3>3, <4>1, CallsOfFile
      <4> QED BY <4>2, IdsStay DEF FilesWritten
    <3> HIDE DEF calls
    <3> QED BY <1>2, <3>1, <3>2, <3>3, CallsChange DEF FilesWritten
  <2> QED BY <2>1, <2>2
<1>5. MetAreSettled'
  BY <1>3, DirsStaySettled DEF FilesWritten
<1> QED BY <1>3, <1>5, OnFileLeaves DEF FilesWritten

LEMMA NothingWritten ==
  ASSUME ScanInv, UNCHANGED lib
  PROVE  FilesWritten
<1>1. IsLibrary(lib)
  BY DEF ScanInv
<1>2. IsLibrary(lib')
  BY <1>1
<1> QED BY <1>2 DEF FilesWritten, Keeps, IsLibrary, MapsAgree

LEMMA RecordFound ==
  ASSUME ScanInv, NEW STATE path, path \in Files, lib' = GetRecordForPath(lib, path)
  PROVE  FilesWritten /\ path \in DOMAIN lib'.map /\ lib'.map[path] \in Nat
<1>1. path \in Paths /\ path \notin Dirs /\ IsLibrary(lib)
  BY TreeAssumption DEF ScanInv, Paths
<1>2. /\ IsLibrary(lib') /\ Keeps(lib, lib')
      /\ DOMAIN lib'.map = DOMAIN lib.map \cup {path} /\ lib'.map[path] \in Nat
      /\ \A p \in DOMAIN lib.db : lib'.db[p] = lib.db[p]
  BY <1>1, GetRecordKeeps
<1> QED BY <1>1, <1>2 DEF FilesWritten

LEMMA FileWritten ==
  ASSUME ScanInv, NEW STATE path, path \in Files, IsLibrary(lib'), Keeps(lib, lib'), lib'.map = lib.map,
         \A p \in DOMAIN lib.db : p # path => lib'.db[p] = lib.db[p]
  PROVE  FilesWritten
<1>1. path \notin Dirs
  BY TreeAssumption
<1> QED BY <1>1 DEF FilesWritten

LEMMA LookInMapStep ==
  ASSUME ScanInv, ~aborted, NEW c \in DOMAIN task, LookInMap(c)
  PROVE  ScanInv'
<1> DEFINE k == task[c].calls[1]
           m == IF k.path \in DOMAIN lib.map THEN [k EXCEPT !.at = "link", !.id = lib.map[k.path]]
                ELSE [k EXCEPT !.at = "record"]
<1>1. task[c].at = "file" /\ k \in Calls /\ task' = SetCall(c, m) /\ UNCHANGED <<onlyOnFile, lib>>
  BY CallsOfFile DEF LookInMap, AtStep
<1>2. IsLibrary(lib) /\ \A p \in DOMAIN lib.map : lib.map[p] \in Nat
  BY DEF ScanInv, IsLibrary, IsDatabase, MapsAgree, IsRecord
<1>3. m \in Calls /\ (m.at \in {"compare", "songs", "link"} => HasId(lib, m.path, m.id))
  BY <1>1, <1>2 DEF Calls, HasId
<1>4. FilesWritten /\ UNCHANGED onlyOnFile /\ lib' = lib
  BY <1>1, NothingWritten
<1> HIDE DEF m
<1> QED BY <1>1, <1>3, <1>4, FirstCallChanges

LEMMA FindRecordStep ==
  ASSUME ScanInv, ~aborted, NEW c \in DOMAIN task, FindRecord(c)
  PROVE  ScanInv'
<1> DEFINE k    == task[c].calls[1]
           flac == Flac[k.path]
           asked == [k EXCEPT !.at = "compare", !.id = lib'.map[k.path]]
           both == [asked EXCEPT !.flac = flac]
<1>1. task[c].at = "file" /\ k \in Calls /\ UNCHANGED onlyOnFile /\ lib' = GetRecordForPath(lib, k.path)
      /\ task' = IF flac # NoFile /\ Exists(flac) THEN Nested(c, both, Call(flac, 0))
                 ELSE SetCall(c, asked)
  BY CallsOfFile DEF FindRecord, AtStep
<1>2. k.path \in Files /\ flac \in Files \cup {NoFile}
  BY <1>1, ScannerAssumption DEF Calls
<1>3. FilesWritten /\ k.path \in DOMAIN lib'.map /\ lib'.map[k.path] \in Nat
  BY <1>1, <1>2, RecordFound
<1>4. /\ asked \in Calls /\ asked.at = "compare" /\ asked.path = k.path /\ asked.id = lib'.map[k.path]
      /\ both \in Calls /\ both.at = "compare" /\ both.path = k.path /\ both.id = lib'.map[k.path]
  BY <1>1, <1>2, <1>3 DEF Calls
<1>5. HasId(lib', asked.path, asked.id) /\ HasId(lib', both.path, both.id)
  BY <1>3, <1>4 DEF HasId
<1> HIDE DEF asked, both
<1>6. CASE flac # NoFile /\ Exists(flac)
  <2>1. Call(flac, 0) \in Calls /\ Call(flac, 0).at = "look"
    BY <1>2, <1>6, CallIsCall
  <2>2. task' = Nested(c, both, Call(flac, 0))
    BY <1>1, <1>6
  <2> QED BY <1>1, <1>3, <1>4, <1>5, <2>1, <2>2, CallIsNested
<1>7. CASE ~(flac # NoFile /\ Exists(flac))
  <2>1. task' = SetCall(c, asked)
    BY <1>1, <1>7
  <2> QED BY <1>1, <1>3, <1>4, <1>5, <2>1, FirstCallChanges
<1> QED BY <1>6, <1>7

LEMMA CompareFileStep ==
  ASSUME ScanInv, ~aborted, NEW c \in DOMAIN task, CompareFile(c)
  PROVE  ScanInv'
<1> DEFINE k == task[c].calls[1]
           link  == [k EXCEPT !.at = "link"]
           songs == [k EXCEPT !.at = "songs", !.todo = Songs[k.path]]
<1>1. task[c].at = "file" /\ k \in Calls /\ k.at = "compare" /\ UNCHANGED onlyOnFile
  BY CallsOfFile DEF CompareFile, AtStep
<1>2. HasId(lib, k.path, k.id) /\ k.path \in Files /\ k.mtime \in 0 .. MaxEvents + 1
  <2>1. 1 \in 1 .. Len(task[c].calls)
    BY <1>1, CallsOfFile
  <2>2. \A i \in 1 .. Len(task[c].calls) : task[c].calls[i].at \in {"compare", "songs", "link"} =>
          HasId(lib, task[c].calls[i].path, task[c].calls[i].id)
    BY <1>1, CallsOfFile
  <2> QED BY <1>1, <2>1, <2>2 DEF Calls
<1>3. link \in Calls /\ link.at = "link" /\ link.path = k.path /\ link.id = k.id
  BY <1>1 DEF Calls
<1>4. k.path \in Playlists => songs \in Calls /\ songs.at = "songs" /\ songs.path = k.path /\ songs.id = k.id
  BY <1>1, ScannerAssumption DEF Calls
<1> HIDE DEF link, songs
<1>5. CASE lib.db[k.path].mtime = k.mtime
  <2>1. UNCHANGED lib /\ task' = SetCall(c, link)
    BY <1>5 DEF CompareFile, link
  <2> QED BY <1>1, <1>2, <1>3, <2>1, NothingWritten, FirstCallChanges
<1>6. CASE lib.db[k.path].mtime # k.mtime
  <2>1. /\ lib' = RewriteRecord(lib, k.path, k.mtime, k.parent, k.flac)
        /\ task' = SetCall(c, IF k.path \in Playlists THEN songs ELSE link)
    BY <1>6 DEF CompareFile, link, songs
  <2>2. k.path \in DOMAIN lib.db /\ k.path \notin Dirs /\ IsLibrary(lib)
    BY <1>2, TreeAssumption DEF HasId, ScanInv, IsLibrary, MapsAgree
  <2>3. /\ IsLibrary(lib') /\ Keeps(lib, lib') /\ lib'.map = lib.map
        /\ \A p \in DOMAIN lib.db : p # k.path => lib'.db[p] = lib.db[p]
    BY <1>2, <2>1, <2>2, RewriteRecordKeeps
  <2>4. FilesWritten
    BY <1>2, <2>3, FileWritten
  <2>5. HasId(lib', k.path, k.id)
    BY <1>2, <2>3, IdsStay
  <2>6. CASE k.path \in Playlists
    <3>1. task' = SetCall(c, songs)
      BY <2>1, <2>6
    <3> QED BY <1>1, <1>4, <2>4, <2>5, <2>6, <3>1, FirstCallChanges
  <2>7. CASE k.path \notin Playlists
    <3>1. task' = SetCall(c, link)
      BY <2>1, <2>7
    <3> QED BY <1>1, <1>3, <2>4, <2>5, <3>1, FirstCallChanges
  <2> QED BY <2>6, <2>7
<1> QED BY <1>5, <1>6

LEMMA NextSongStep ==
  ASSUME ScanInv, ~aborted, NEW c \in DOMAIN task, NextSong(c)
  PROVE  ScanInv'
<1> DEFINE k == task[c].calls[1]
           rest(s) == [k EXCEPT !.todo = k.todo \ {s}]
<1>1. task[c].at = "file" /\ k \in Calls /\ k.at = "songs" /\ UNCHANGED onlyOnFile /\ UNCHANGED lib
  BY CallsOfFile DEF NextSong, AtStep
<1>2. PICK s \in k.todo : task' = IF Exists(s) THEN Nested(c, rest(s), Call(s, k.id)) ELSE SetCall(c, rest(s))
  BY DEF NextSong
<1> DEFINE r == rest(s)
<1>3. HasId(lib, k.path, k.id)
  <2>1. 1 \in 1 .. Len(task[c].calls)
    BY <1>1, CallsOfFile
  <2>2. \A i \in 1 .. Len(task[c].calls) : task[c].calls[i].at \in {"compare", "songs", "link"} =>
          HasId(lib, task[c].calls[i].path, task[c].calls[i].id)
    BY <1>1, CallsOfFile
  <2> QED BY <1>1, <2>1, <2>2
<1>4. s \in Files /\ k.id \in Nat /\ r \in Calls /\ r.path = k.path /\ r.id = k.id
  BY <1>1, <1>2 DEF Calls
<1>5. FilesWritten /\ HasId(lib', r.path, r.id)
  BY <1>1, <1>3, <1>4, NothingWritten
<1> HIDE DEF r
<1>6. CASE Exists(s)
  <2>1. Call(s, k.id) \in Calls /\ Call(s, k.id).at = "look" /\ task' = Nested(c, r, Call(s, k.id))
    BY <1>2, <1>4, <1>6, CallIsCall DEF r
  <2> QED BY <1>1, <1>4, <1>5, <2>1, CallIsNested
<1>7. CASE ~Exists(s)
  <2>1. task' = SetCall(c, r)
    BY <1>2, <1>7 DEF r
  <2> QED BY <1>1, <1>4, <1>5, <2>1, FirstCallChanges
<1> QED BY <1>6, <1>7

LEMMA EndPlaylistStep ==
  ASSUME ScanInv, ~aborted, NEW c \in DOMAIN task, EndPlaylist(c)
  PROVE  ScanInv'
<1> DEFINE k == task[c].calls[1]
           link == [k EXCEPT !.at = "link"]
<1>1. /\ task[c].at = "file" /\ k \in Calls /\ k.at = "songs" /\ UNCHANGED onlyOnFile
      /\ lib' = FinishPlaylist(lib, k.path, k.id) /\ task' = SetCall(c, link)
  BY CallsOfFile DEF EndPlaylist, AtStep
<1>2. HasId(lib, k.path, k.id) /\ k.path \in Files
  <2>1. 1 \in 1 .. Len(task[c].calls)
    BY <1>1, CallsOfFile
  <2>2. \A i \in 1 .. Len(task[c].calls) : task[c].calls[i].at \in {"compare", "songs", "link"} =>
          HasId(lib, task[c].calls[i].path, task[c].calls[i].id)
    BY <1>1, CallsOfFile
  <2> QED BY <1>1, <2>1, <2>2 DEF Calls
<1>3. link \in Calls /\ link.at = "link" /\ link.path = k.path /\ link.id = k.id
  BY <1>1 DEF Calls
<1> HIDE DEF link
<1>4. k.path \in DOMAIN lib.db /\ k.path \notin Dirs /\ IsLibrary(lib)
  BY <1>2, TreeAssumption DEF HasId, ScanInv, IsLibrary, MapsAgree
<1>5. /\ IsLibrary(lib') /\ Keeps(lib, lib') /\ lib'.map = lib.map
      /\ \A p \in DOMAIN lib.db : p # k.path => lib'.db[p] = lib.db[p]
  BY <1>1, <1>4, FinishPlaylistKeeps
<1>6. FilesWritten
  BY <1>2, <1>5, FileWritten
<1>7. HasId(lib', link.path, link.id)
  BY <1>2, <1>3, <1>5, IdsStay
<1> QED BY <1>1, <1>3, <1>6, <1>7, FirstCallChanges

LEMMA LinkToParentStep ==
  ASSUME ScanInv, ~aborted, NEW c \in DOMAIN task, LinkToParent(c)
  PROVE  ScanInv'
<1> DEFINE k == task[c].calls[1]
<1>1. /\ task[c].at = "file" /\ k \in Calls /\ k.at = "link" /\ UNCHANGED onlyOnFile
      /\ lib' = IF k.parent = 0 THEN lib ELSE AddChild(lib, k.parent, k.id)
  BY CallsOfFile DEF LinkToParent, AtStep
<1>2. HasId(lib, k.path, k.id) /\ IsLibrary(lib)
  <2>1. 1 \in 1 .. Len(task[c].calls)
    BY <1>1, CallsOfFile
  <2>2. \A i \in 1 .. Len(task[c].calls) : task[c].calls[i].at \in {"compare", "songs", "link"} =>
          HasId(lib, task[c].calls[i].path, task[c].calls[i].id)
    BY <1>1, CallsOfFile
  <2> QED BY <1>1, <2>1, <2>2 DEF ScanInv
<1>3. k.id \in IdsMet(lib)
  BY <1>2 DEF HasId, IdsMet, IsLibrary, MapsAgree
<1>4. FilesWritten
  <2>1. CASE k.parent = 0
    BY <1>1, <2>1, NothingWritten
  <2>2. CASE k.parent # 0
    <3>1. IsLibrary(lib') /\ lib'.db = lib.db /\ lib'.map = lib.map
      BY <1>1, <1>2, <1>3, <2>2, AddChildKeeps
    <3> QED BY <3>1 DEF FilesWritten, Keeps, IsLibrary, MapsAgree
  <2> QED BY <2>1, <2>2
<1>5. task' = IF Len(task[c].calls) = 1 THEN WithoutTask(c) ELSE [task EXCEPT ![c].calls = Tail(@)]
  BY DEF LinkToParent
<1> QED BY <1>1, <1>4, <1>5, FirstCallReturns

LEMMA OnFileStep ==
  ASSUME ScanInv, ~aborted, NEW c \in DOMAIN task, OnFile(c)
  PROVE  ScanInv'
BY LookInMapStep, FindRecordStep, CompareFileStep, NextSongStep, EndPlaylistStep, LinkToParentStep DEF OnFile

-----------------------------------------------------------------------------
(* The steps of a directory's task. *)

LEMMA QueuedIsDir ==
  ASSUME ScanInv, NEW c \in DOMAIN task, task[c].at \in {"queued", "waiting"}
  PROVE  /\ IsChain(c) /\ Last(c) \in Dirs /\ Last(c) \in Paths /\ Last(c) \notin Files
         /\ task[c].id \in Nat /\ task[c].calls = <<>>
         /\ task[c] = [at |-> task[c].at, id |-> task[c].id, calls |-> <<>>]
         /\ task = [n \in DOMAIN task |-> task[n]]
<1>1. IsChain(c) /\ IsTask(c, task[c]) /\ task = [n \in DOMAIN task |-> task[n]]
  BY DEF ScanInv, ChainsHold
<1>2. Last(c) \in Paths
  BY <1>1, ChainsEnd
<1>3. Last(c) \notin Files
  BY <1>1 DEF IsTask
<1> QED BY <1>1, <1>2, <1>3 DEF IsTask, Paths

\* A directory's task that has been to its directory, or has not, waits.
LEMMA Waits ==
  ASSUME ScanInv, NEW c \in DOMAIN task, task[c].at = "queued", NEW STATE id, id \in Nat,
         NEW STATE new, new = [task EXCEPT ![c] = [at |-> "waiting", id |-> id, calls |-> <<>>]]
  PROVE  /\ DOMAIN new = DOMAIN task /\ new = [n \in DOMAIN task |-> new[n]]
         /\ new[c] = [at |-> "waiting", id |-> id, calls |-> <<>>]
         /\ \A n \in DOMAIN task : n # c => new[n] = task[n]
         /\ \A n \in DOMAIN task : IsTask(n, new[n])
<1> DEFINE t == [at |-> "waiting", id |-> id, calls |-> <<>>]
<1>1. IsChain(c) /\ IsTask(c, task[c]) /\ task = [n \in DOMAIN task |-> task[n]]
  BY DEF ScanInv, ChainsHold
<1>2. t \in [at : {"file", "queued", "waiting"}, id : Nat, calls : Seq(Calls)] /\ t.at = "waiting" /\ t.calls = <<>>
  OBVIOUS
<1>3. IsTask(c, t)
  BY <1>1, <1>2 DEF IsTask
<1> HIDE DEF t
<1>4. new = [task EXCEPT ![c] = t]
  BY DEF t
<1>5. /\ DOMAIN new = DOMAIN task /\ new = [n \in DOMAIN task |-> new[n]]
      /\ new[c] = t /\ \A n \in DOMAIN task : n # c => new[n] = task[n]
  BY <1>1, <1>4
<1>6. \A n \in DOMAIN task : IsTask(n, task[n])
  BY DEF ScanInv, ChainsHold
<1>7. \A n \in DOMAIN task : IsTask(n, new[n])
  BY <1>3, <1>5, <1>6
<1> QED BY <1>5, <1>7 DEF t

\* What entering a directory leaves untouched, with the tasks new' or without.
EnteringLeaves == <<treeVars, saved, scanning, busy, changed, listening, ending, aborted>>

\* The tasks when c's has been to its directory, and found the tasks more below it.
TasksGrow(c, more) ==
  /\ more \cap DOMAIN task = {} /\ DOMAIN task' = DOMAIN task \cup more
  /\ task' = [n \in DOMAIN task' |-> task'[n]]
  /\ task'[c].at = "waiting" /\ task'[c].calls = <<>>
  /\ \A n \in DOMAIN task : IsTask(n, task'[n])
  /\ \A n \in DOMAIN task : n # c => task'[n] = task[n]
  /\ \A n \in more :
       /\ IsChain(n) /\ IsTask(n, task'[n]) /\ task'[n].at \in {"queued", "file"}
       /\ \A i \in 1 .. Len(task'[n].calls) : task'[n].calls[i].at = "look"
       /\ SubSeq(n, 1, Len(n)) = n /\ Len(n) = Len(c) + 1
       /\ \A i \in 1 .. Len(c) : SubSeq(n, 1, i) = SubSeq(c, 1, i)

\* What OnEnterDirectory does to the library.
EntryWritten(c) ==
  /\ IsLibrary(lib') /\ Keeps(lib, lib')
  /\ DOMAIN lib'.map \cap Dirs \subseteq DOMAIN lib.map \cup {Last(c)}
  /\ \A p \in DOMAIN lib.db : lib'.db[p].children = lib.db[p].children
  /\ ~Looped(c) => IF Last(c) = Root THEN task'[c].id = RootId
                    ELSE HasId(lib', Last(c), task'[c].id)

LEMMA Entered ==
  ASSUME ScanInv, ~aborted, UNCHANGED EnteringLeaves, NEW c \in DOMAIN task, task[c].at = "queued",
         events' \in events .. MaxEvents /\ failed' \in BOOLEAN,
         NEW STATE more, TasksGrow(c, more), EntryWritten(c)
  PROVE  ScanInv'
<1> USE DEF TasksGrow, EntryWritten
<1>1. ChainsHold /\ ParentsWait /\ DirIdsHold /\ CallIdsHold /\ IsChain(c) /\ Len(c) \in Nat
  BY DEF ScanInv, ChainsHold, IsChain
<1>2. ChainsHold'
  <2>1. ASSUME NEW n \in DOMAIN task', NEW i \in 1 .. Len(n)
        PROVE  SubSeq(n, 1, i) \in DOMAIN task'
    <3>1. CASE n \in DOMAIN task
      BY <1>1, <3>1 DEF ChainsHold
    <3>2. CASE n \in more
      <4>1. CASE i = Len(n)
        BY <3>2, <4>1
      <4>2. CASE i # Len(n)
        <5>1. i \in 1 .. Len(c) /\ SubSeq(n, 1, i) = SubSeq(c, 1, i)
          BY <1>1, <3>2, <4>2
        <5> QED BY <1>1, <5>1 DEF ChainsHold
      <4> QED BY <4>1, <4>2
    <3> QED BY <3>1, <3>2
  <2>2. \A n \in DOMAIN task' : IsChain(n) /\ IsTask(n, task'[n])
    BY <1>1 DEF ChainsHold
  <2> QED BY <2>1, <2>2 DEF ChainsHold
<1>3. \A n \in DOMAIN task : task[n].at = "waiting" => task'[n].at = "waiting"
  OBVIOUS
<1>4. ParentsWait'
  <2> SUFFICES ASSUME NEW n \in DOMAIN task', NEW i \in 1 .. Len(n) - 1
               PROVE  task'[SubSeq(n, 1, i)].at = "waiting"
    BY DEF ParentsWait
  <2>1. CASE n \in DOMAIN task
    <3>1. task[SubSeq(n, 1, i)].at = "waiting" /\ Len(n) \in Nat
      BY <1>1, <2>1 DEF ParentsWait, ChainsHold, IsChain
    <3>2. i \in 1 .. Len(n)
      BY <3>1
    <3>3. SubSeq(n, 1, i) \in DOMAIN task
      BY <1>1, <2>1, <3>2 DEF ChainsHold
    <3> QED BY <1>3, <3>1, <3>3
  <2>2. CASE n \in more
    <3>1. i \in 1 .. Len(c) /\ SubSeq(n, 1, i) = SubSeq(c, 1, i)
      BY <1>1, <2>2
    <3>2. CASE i = Len(c)
      <4>1. SubSeq(c, 1, i) = c
        BY <1>1, <3>2, SubSeqFull DEF IsChain
      <4> QED BY <3>1, <4>1
    <3>3. CASE i # Len(c)
      <4>1. i \in 1 .. Len(c) - 1
        BY <1>1, <3>1, <3>3
      <4>2. task[SubSeq(c, 1, i)].at = "waiting" /\ SubSeq(c, 1, i) \in DOMAIN task
        BY <1>1, <3>1, <4>1 DEF ParentsWait, ChainsHold
      <4> QED BY <1>3, <3>1, <4>2
    <3> QED BY <3>2, <3>3
  <2> QED BY <2>1, <2>2
<1>5. DirIdsHold'
  <2> SUFFICES ASSUME NEW n \in DOMAIN task', task'[n].at = "waiting", ~Looped(n)
               PROVE  IF Last(n) = Root THEN task'[n].id = RootId ELSE HasId(lib', Last(n), task'[n].id)
    BY DEF DirIdsHold, Looped, HasId
  <2>1. CASE n = c
    BY <2>1
  <2>2. CASE n # c
    <3>1. n \in DOMAIN task /\ task'[n] = task[n]
      BY <2>2
    <3>2. IF Last(n) = Root THEN task[n].id = RootId ELSE HasId(lib, Last(n), task[n].id)
      BY <1>1, <3>1 DEF DirIdsHold
    <3> QED BY <3>1, <3>2, IdsStay
  <2> QED BY <2>1, <2>2
<1>6. CallIdsHold'
  <2> SUFFICES ASSUME NEW n \in DOMAIN task', NEW i \in 1 .. Len(task'[n].calls),
                      task'[n].calls[i].at \in {"compare", "songs", "link"}
               PROVE  HasId(lib', task'[n].calls[i].path, task'[n].calls[i].id)
    BY DEF CallIdsHold, HasId
  <2>1. n # c /\ n \in DOMAIN task /\ task'[n] = task[n]
    OBVIOUS
  <2>2. HasId(lib, task[n].calls[i].path, task[n].calls[i].id)
    BY <1>1, <2>1 DEF CallIdsHold
  <2> QED BY <2>1, <2>2, IdsStay
<1>7. MetAreSettled'
  <2> SUFFICES ASSUME NEW p \in DOMAIN lib'.map \cap Dirs, ~ToBeLeft(p)' PROVE Settled(lib', p)
    BY DEF MetAreSettled, Settled, IdsMet
  <2>1. p # Last(c)
    BY DEF ToBeLeft
  <2>2. p \in DOMAIN lib.map /\ p \in DOMAIN lib.db
    BY <2>1 DEF ScanInv, IsLibrary, MapsAgree
  <2>3. ~ToBeLeft(p)
    BY <1>3 DEF ToBeLeft
  <2>4. Settled(lib, p)
    BY <2>2, <2>3 DEF ScanInv, MetAreSettled
  <2>5. IdsMet(lib) \subseteq IdsMet(lib')
    BY DEF Keeps, IdsMet, ScanInv, IsLibrary, MapsAgree
  <2> QED BY <2>2, <2>4, <2>5 DEF Settled
<1>8. PhasesHold'
  <2>1. scanning /\ ending # "sweep"
    BY DEF ScanInv, PhasesHold
  <2> QED BY <2>1 DEF ScanInv, PhasesHold, EnteringLeaves
<1>9. TreeHolds' /\ FlagsHold' /\ IsDatabase(saved)'
  <2>1. TreeHolds'
    <3>1. events \in 0 .. MaxEvents /\ events' \in 0 .. MaxEvents /\ events <= events'
      BY TreeAssumption DEF ScanInv, TreeHolds
    <3>2. \A f \in Files : mtime'[f] \in 1 .. events' + 1
      BY <3>1 DEF ScanInv, TreeHolds, EnteringLeaves, treeVars
    <3> QED BY <3>1, <3>2 DEF ScanInv, TreeHolds, EnteringLeaves, treeVars
  <2>2. FlagsHold' /\ IsDatabase(saved)'
    BY DEF ScanInv, FlagsHold, IsDatabase, IsRecord, IdsAreOwn, ChildrenAreRecords, IdsIn, EnteringLeaves
  <2> QED BY <2>1, <2>2
<1> QED BY <1>2, <1>4, <1>5, <1>6, <1>7, <1>8, <1>9 DEF ScanInv

LEMMA OneLess == \A k \in Nat \ {0} : k # 1 => k - 1 \in 1 .. k
OBVIOUS

LEMMA EnterStep ==
  ASSUME ScanInv, ~aborted, NEW c \in DOMAIN task, Enter(c)
  PROVE  ScanInv'
<1> DEFINE path   == Last(c)
           parent == IF Len(c) = 1 THEN 0 ELSE task[Parent(c)].id
           after  == OnEnterDirectory(lib, parent, path)
           id     == IF path = Root THEN RootId ELSE after.map[path]
           here   == [task EXCEPT ![c] = [@ EXCEPT !.at = "waiting", !.id = id]]
           inside == {Append(c, p) : p \in Listing(path)}
           new(n) == IF Last(n) \in Dirs THEN DirTask ELSE FileTask(Last(n), id)
           waits(i) == [task EXCEPT ![c] = [at |-> "waiting", id |-> i, calls |-> <<>>]]
<1>1. task[c].at = "queued" /\ UNCHANGED EnteringLeaves
  BY DEF Enter, EnteringLeaves
<1>2. /\ IsChain(c) /\ path \in Dirs /\ path \in Paths /\ task[c].id \in Nat
      /\ task[c] = [at |-> task[c].at, id |-> task[c].id, calls |-> <<>>]
      /\ c \in Seq(Paths) /\ Len(c) \in Nat \ {0}
      /\ task = [n \in DOMAIN task |-> task[n]]
  BY <1>1, QueuedIsDir DEF IsChain
<1>3. /\ events \in 0 .. MaxEvents /\ events \in events .. MaxEvents /\ failed \in BOOLEAN
      /\ MaxEvents \in Nat /\ IsLibrary(lib)
  BY TreeAssumption DEF ScanInv, TreeHolds, FlagsHold
<1>4. Fail => events' \in events .. MaxEvents /\ failed' \in BOOLEAN
  BY <1>3 DEF Fail, Event
<1>5. CASE Looped(c)
  <2>1. task' = waits(task[c].id) /\ NoFailure /\ UNCHANGED lib
    BY <1>2, <1>5 DEF Enter
  <2>2. FilesWritten
    BY <2>1, NothingWritten
  <2> HIDE DEF waits
  <2>3. /\ DOMAIN task' = DOMAIN task /\ task' = [n \in DOMAIN task |-> task'[n]]
        /\ task'[c] = [at |-> "waiting", id |-> task[c].id, calls |-> <<>>]
        /\ \A n \in DOMAIN task : n # c => task'[n] = task[n]
        /\ \A n \in DOMAIN task : IsTask(n, task'[n])
    BY <1>1, <1>2, <2>1, Waits DEF waits
  <2>5. TasksGrow(c, {})
    BY <2>3 DEF TasksGrow
  <2>6. events' \in events .. MaxEvents /\ failed' \in BOOLEAN
    BY <1>3, <2>1 DEF NoFailure
  <2>7. EntryWritten(c)
    BY <1>5, <2>1, <2>2 DEF EntryWritten, FilesWritten
  <2> QED BY <1>1, <2>5, <2>6, <2>7, Entered
<1>6. CASE ~Looped(c)
  <2>1. lib' = OnEnterDirectory(lib, parent, path)
    BY <1>6 DEF Enter
  <2>2. parent \in Nat
    <3>1. CASE Len(c) = 1
      BY <3>1
    <3>2. CASE Len(c) # 1
      <4>1. Parent(c) = SubSeq(c, 1, Len(c) - 1)
        BY DEF Parent, Front
      <4>2. Len(c) - 1 \in 1 .. Len(c)
        BY <1>2, <3>2, OneLess
      <4>3. Parent(c) \in DOMAIN task
        BY <4>1, <4>2 DEF ScanInv, ChainsHold
      <4> QED BY <3>2, <4>3 DEF ScanInv, ChainsHold, IsTask
    <3> QED BY <3>1, <3>2
  <2>5. here = waits(id)
    <3> HIDE DEF id
    <3> DEFINE half == [task[c] EXCEPT !.at = "waiting"]
    <3>2. half = [at |-> "waiting", id |-> task[c].id, calls |-> <<>>]
      BY <1>2
    <3> HIDE DEF half
    <3>1. [half EXCEPT !.id = id] = [at |-> "waiting", id |-> id, calls |-> <<>>]
      BY <3>2
    <3> QED BY <3>1 DEF half
  <2>10. \/ /\ task' = [n \in DOMAIN task \cup inside |-> IF n \in inside THEN new(n) ELSE here[n]]
            /\ NoFailure
         \/ task' = here /\ Fail
    BY <1>6 DEF Enter
  <2>11. lib' = after
    BY <2>1
  <2> HIDE DEF parent, here, after
  <2>3. /\ IsLibrary(lib') /\ Keeps(lib, lib')
        /\ DOMAIN lib'.map = DOMAIN lib.map \cup (IF path = Root THEN {} ELSE {path})
        /\ \A p \in DOMAIN lib.db : lib'.db[p].children = lib.db[p].children
        /\ path # Root => lib'.map[path] \in Nat
    BY <1>2, <1>3, <2>1, <2>2, EnterKeeps
  <2>4. id \in Nat /\ (path = Root => id = RootId) /\ (path # Root => HasId(lib', path, id))
    BY <2>3, <2>11 DEF HasId, RootId
  <2> DEFINE w == waits(id)
  <2>6. /\ DOMAIN w = DOMAIN task /\ w = [n \in DOMAIN task |-> w[n]]
        /\ w[c] = [at |-> "waiting", id |-> id, calls |-> <<>>]
        /\ \A n \in DOMAIN task : n # c => w[n] = task[n]
        /\ \A n \in DOMAIN task : IsTask(n, w[n])
    BY <1>1, <2>4, Waits
  <2>7. w[c].at = "waiting" /\ w[c].calls = <<>> /\ w[c].id = id
    BY <2>6
  <2> HIDE DEF id, w
  <2>12. ASSUME task'[c].id = id PROVE EntryWritten(c)
    BY <2>3, <2>4, <2>12 DEF EntryWritten
  <2>8. CASE task' = w /\ Fail
    <3>1. TasksGrow(c, {})
      BY <2>6, <2>8 DEF TasksGrow
    <3>2. EntryWritten(c)
      BY <2>7, <2>8, <2>12
    <3> QED BY <1>1, <1>4, <2>8, <3>1, <3>2, Entered
  <2>9. CASE /\ task' = [n \in DOMAIN task \cup inside |-> IF n \in inside THEN new(n) ELSE w[n]]
             /\ NoFailure
    <3>1. ASSUME NEW n \in inside
          PROVE  /\ IsChain(n) /\ Last(n) \in Paths /\ SubSeq(n, 1, Len(n)) = n /\ Len(n) = Len(c) + 1
                 /\ \A i \in 1 .. Len(c) : SubSeq(n, 1, i) = SubSeq(c, 1, i)
      <4>1. PICK p \in Listing(path) : n = Append(c, p)
        OBVIOUS
      <4>2. p \in Paths /\ <<path, p>> \in Entries
        BY DEF Listing, ScanInv, TreeHolds
      <4> QED BY <1>2, <4>1, <4>2, LongerChain
    <3>2. inside \cap DOMAIN task = {}
      <4> SUFFICES ASSUME NEW n \in inside, n \in DOMAIN task PROVE FALSE
        OBVIOUS
      <4>1. Len(c) \in 1 .. Len(n) - 1 /\ Len(c) \in 1 .. Len(c)
        BY <1>2, <3>1
      <4>2. SubSeq(n, 1, Len(c)) = c
        BY <1>2, <3>1, <4>1, SubSeqFull
      <4>3. task[SubSeq(n, 1, Len(c))].at = "waiting"
        BY <4>1 DEF ScanInv, ParentsWait
      <4> QED BY <1>1, <4>2, <4>3
    <3>3. ASSUME NEW n \in inside
          PROVE  /\ IsTask(n, new(n)) /\ new(n).at \in {"queued", "file"}
                 /\ \A i \in 1 .. Len(new(n).calls) : new(n).calls[i].at = "look"
      <4>1. CASE Last(n) \in Dirs
        <5>1. /\ DirTask \in [at : {"file", "queued", "waiting"}, id : Nat, calls : Seq(Calls)]
              /\ DirTask.at = "queued" /\ DirTask.calls = <<>>
          BY DEF DirTask
        <5>2. Last(n) \notin Files
          BY <4>1, TreeAssumption
        <5>3. new(n) = DirTask
          BY <4>1
        <5>4. IsTask(n, DirTask)
          BY <5>1, <5>2 DEF IsTask
        <5> QED BY <5>1, <5>3, <5>4
      <4>2. CASE Last(n) \notin Dirs
        <5> DEFINE k == Call(Last(n), id)
                   t == [at |-> "file", id |-> 0, calls |-> <<k>>]
        <5>1. Last(n) \in Files
          BY <3>1, <4>2 DEF Paths
        <5>2. k \in Calls /\ k.at = "look"
          BY <2>4, <5>1, CallIsCall
        <5>3. new(n) = t
          BY <4>2 DEF FileTask
        <5> HIDE DEF k
        <5>4. /\ t \in [at : {"file", "queued", "waiting"}, id : Nat, calls : Seq(Calls)]
              /\ t.at = "file" /\ t.calls = <<k>> /\ Len(t.calls) = 1 /\ t.calls[1] = k /\ t.calls # <<>>
          BY <5>2
        <5> HIDE DEF t
        <5>5. IsTask(n, t)
          BY <5>1, <5>4 DEF IsTask
        <5>6. t.at \in {"queued", "file"} /\ \A i \in 1 .. Len(t.calls) : t.calls[i].at = "look"
          BY <5>2, <5>4
        <5> QED BY <5>3, <5>5, <5>6
      <4> QED BY <4>1, <4>2
    <3> HIDE DEF new, inside
    <3>4. /\ DOMAIN task' = DOMAIN task \cup inside /\ task' = [n \in DOMAIN task' |-> task'[n]]
          /\ \A n \in inside : task'[n] = new(n)
          /\ \A n \in DOMAIN task : n \notin inside => task'[n] = w[n]
      BY <2>9
    <3>5. \A n \in DOMAIN task : task'[n] = w[n]
      BY <3>2, <3>4
    <3>6. events' \in events .. MaxEvents /\ failed' \in BOOLEAN
      BY <1>3, <2>9 DEF NoFailure
    <3>7. \A n \in DOMAIN task : IsTask(n, task'[n]) /\ (n # c => task'[n] = task[n])
      BY <2>6, <3>5
    <3>8. task'[c].at = "waiting" /\ task'[c].calls = <<>> /\ task'[c].id = id
      BY <2>7, <3>5
    <3>9. \A n \in inside :
            /\ IsChain(n) /\ IsTask(n, task'[n]) /\ task'[n].at \in {"queued", "file"}
            /\ \A i \in 1 .. Len(task'[n].calls) : task'[n].calls[i].at = "look"
            /\ SubSeq(n, 1, Len(n)) = n /\ Len(n) = Len(c) + 1
            /\ \A i \in 1 .. Len(c) : SubSeq(n, 1, i) = SubSeq(c, 1, i)
      BY <3>1, <3>3, <3>4
    <3>10. EntryWritten(c)
      BY <2>12, <3>8
    <3>11. TasksGrow(c, inside)
      BY <3>2, <3>4, <3>7, <3>8, <3>9 DEF TasksGrow
    <3> QED BY <1>1, <3>6, <3>10, <3>11, Entered
  <2> QED BY <2>5, <2>10, <2>8, <2>9 DEF w
<1> QED BY <1>5, <1>6

LEMMA LeaveStep ==
  ASSUME ScanInv, ~aborted, NEW c \in DOMAIN task, Leave(c)
  PROVE  ScanInv'
<1> DEFINE path  == Last(c)
           found == GetRecordForPath(lib, path)
<1>1. /\ task[c].at = "waiting" /\ ~HasChildren(c)
      /\ UNCHANGED <<events, failed, saved, scanning, busy, changed, listening>>
  BY DEF Leave
<1>2. IsChain(c) /\ path \in Dirs /\ path \in Paths /\ path \notin Files /\ IsLibrary(lib)
  BY <1>1, QueuedIsDir DEF ScanInv
<1>3. /\ IsLibrary(found) /\ Keeps(lib, found)
      /\ DOMAIN found.map = DOMAIN lib.map \cup {path} /\ path \in DOMAIN found.db
      /\ found.map[path] \in Nat
      /\ \A p \in DOMAIN lib.db : found.db[p] = lib.db[p]
  BY <1>2, GetRecordKeeps
<1> HIDE DEF found
<1>4. IsDatabase(saved)'
  BY <1>1 DEF ScanInv, IsDatabase, IsRecord, IdsAreOwn, ChildrenAreRecords, IdsIn
<1>5. scanning /\ ending # "sweep" /\ busy /\ ChainsHold
  BY DEF ScanInv, PhasesHold
<1>6. CASE found.map[path] # task[c].id
  <2>1. aborted' = TRUE /\ lib' = found /\ UNCHANGED <<treeVars, task, ending>>
    BY <1>6 DEF Leave, found
  <2>2. TreeHolds' /\ FlagsHold'
    BY <1>1, <2>1 DEF ScanInv, TreeHolds, FlagsHold, treeVars
  <2>3. ChainsHold' /\ ParentsWait'
    BY <2>1 DEF ScanInv, ChainsHold, ParentsWait
  <2>4. DirIdsHold' /\ CallIdsHold'
    BY <1>3, <2>1, IdsStay DEF ScanInv, DirIdsHold, CallIdsHold
  <2>5. MetAreSettled' /\ PhasesHold'
    BY <1>1, <2>1 DEF ScanInv, MetAreSettled, PhasesHold
  <2>6. IsLibrary(lib')
    BY <1>3, <2>1
  <2> QED BY <1>4, <2>2, <2>3, <2>4, <2>5, <2>6 DEF ScanInv
<1>7. CASE found.map[path] = task[c].id
  <2>1. /\ lib' = OnLeaveDirectory(found, task[c].id, path)
        /\ watched' \in {watched, watched \cup {path}}
        /\ task' = WithoutTask(c)
        /\ ending' = IF Len(c) = 1 THEN "sweep" ELSE ending
        /\ UNCHANGED <<disk, mtime, pending, aborted>>
    BY <1>7 DEF Leave, found
  <2>2. /\ IsLibrary(lib') /\ Keeps(found, lib') /\ lib'.map = found.map /\ IdsMet(lib') = IdsMet(found)
        /\ lib'.db[path].children \subseteq IdsMet(lib')
        /\ \A p \in DOMAIN found.db : p # path => lib'.db[p] = found.db[p]
    BY <1>3, <2>1, LeaveKeeps
  <2>3. Keeps(lib, lib')
    BY <1>3, <2>2 DEF Keeps
  <2>4. ChainsHold' /\ DOMAIN task' = DOMAIN task \ {c} /\ \A n \in DOMAIN task' : task'[n] = task[n]
    BY <1>1, <1>5, <2>1, NoChildrenLeft, TaskGoes
  <2>5. ParentsWait'
    BY <2>4, ParentsStillWait DEF ScanInv
  <2>6. DirIdsHold'
    <3> SUFFICES ASSUME NEW n \in DOMAIN task', task'[n].at = "waiting", ~Looped(n)
                 PROVE  IF Last(n) = Root THEN task'[n].id = RootId ELSE HasId(lib', Last(n), task'[n].id)
      BY DEF DirIdsHold, Looped, HasId
    <3>1. n \in DOMAIN task /\ task'[n] = task[n]
      BY <2>4
    <3>2. IF Last(n) = Root THEN task[n].id = RootId ELSE HasId(lib, Last(n), task[n].id)
      BY <3>1 DEF DirIdsHold, ScanInv
    <3> QED BY <2>3, <3>1, <3>2, IdsStay
  <2>7. CallIdsHold'
    <3> SUFFICES ASSUME NEW n \in DOMAIN task', NEW i \in 1 .. Len(task'[n].calls),
                        task'[n].calls[i].at \in {"compare", "songs", "link"}
                 PROVE  HasId(lib', task'[n].calls[i].path, task'[n].calls[i].id)
      BY DEF CallIdsHold, HasId
    <3>1. n \in DOMAIN task /\ task'[n] = task[n]
      BY <2>4
    <3>2. HasId(lib, task[n].calls[i].path, task[n].calls[i].id)
      BY <3>1 DEF CallIdsHold, ScanInv
    <3> QED BY <2>3, <3>1, <3>2, IdsStay
  <2>8. MetAreSettled'
    <3> SUFFICES ASSUME NEW p \in DOMAIN lib'.map \cap Dirs, ~ToBeLeft(p)' PROVE Settled(lib', p)
      BY DEF MetAreSettled, Settled, IdsMet
    <3>1. CASE p = path
      BY <2>2, <3>1 DEF Settled
    <3>2. CASE p # path
      <4>1. p \in DOMAIN lib.map /\ p \in DOMAIN lib.db /\ p \in DOMAIN found.db
        BY <1>3, <2>2, <3>2 DEF ScanInv, IsLibrary, MapsAgree, Keeps
      <4>2. ~ToBeLeft(p)
        BY <2>4, <3>2 DEF ToBeLeft
      <4>3. Settled(lib, p)
        BY <4>1, <4>2 DEF ScanInv, MetAreSettled
      <4>4. IdsMet(lib) \subseteq IdsMet(lib')
        BY <2>3 DEF Keeps, IdsMet, ScanInv, IsLibrary, MapsAgree
      <4>5. lib'.db[p] = lib.db[p]
        BY <1>3, <2>2, <3>2, <4>1
      <4> QED BY <4>3, <4>4, <4>5 DEF Settled
    <3> QED BY <3>1, <3>2
  <2>9. PhasesHold'
    <3>1. CASE Len(c) = 1
      <4>1. DOMAIN task' = {}
        BY <1>1, <1>5, <2>4, <3>1, RootIsLast
      <4> QED BY <1>1, <1>5, <2>1, <3>1, <4>1 DEF PhasesHold
    <3>2. CASE Len(c) # 1
      BY <1>1, <1>5, <2>1, <3>2 DEF PhasesHold, ScanInv
    <3> QED BY <3>1, <3>2
  <2>10. TreeHolds'
    BY <1>1, <1>2, <2>1 DEF ScanInv, TreeHolds
  <2>11. FlagsHold'
    BY <1>1, <2>1 DEF ScanInv, FlagsHold
  <2> QED BY <1>4, <2>2, <2>4, <2>5, <2>6, <2>7, <2>8, <2>9, <2>10, <2>11 DEF ScanInv
<1> QED BY <1>6, <1>7

-----------------------------------------------------------------------------
(* The steps of the updater, and those of the world. *)

LEMMA TreeGoesOn ==
  ASSUME ScanInv, events' \in events .. MaxEvents, UNCHANGED <<disk, mtime>>,
         watched' \subseteq Dirs, pending' \in BOOLEAN
  PROVE  TreeHolds'
<1>1. events \in 0 .. MaxEvents /\ MaxEvents \in Nat
  BY TreeAssumption DEF ScanInv, TreeHolds
<1>2. \A f \in Files : mtime'[f] \in 1 .. events' + 1
  BY <1>1 DEF ScanInv, TreeHolds
<1> QED BY <1>1, <1>2 DEF ScanInv, TreeHolds

LEMMA EventsGoOn ==
  ASSUME ScanInv, NoFailure \/ Fail \/ Event
  PROVE  events' \in events .. MaxEvents /\ (NoFailure \/ Fail => failed' \in BOOLEAN)
<1>1. events \in 0 .. MaxEvents /\ MaxEvents \in Nat /\ failed \in BOOLEAN
  BY TreeAssumption DEF ScanInv, TreeHolds, FlagsHold
<1>2. CASE NoFailure
  BY <1>1, <1>2 DEF NoFailure
<1>3. ASSUME Event PROVE events' \in events .. MaxEvents
  BY <1>1, <1>3 DEF Event
<1>4. Fail => Event /\ failed' \in BOOLEAN
  BY DEF Fail
<1>5. NoFailure => failed' \in BOOLEAN
  BY <1>1 DEF NoFailure
<1> QED BY <1>2, <1>3, <1>4, <1>5

LEMMA WalkStays ==
  ASSUME ScanInv, UNCHANGED <<lib, task, aborted>>
  PROVE  IsLibrary(lib') /\ ChainsHold' /\ ParentsWait' /\ DirIdsHold' /\ CallIdsHold' /\ MetAreSettled'
<1>1. IsLibrary(lib')
  BY DEF ScanInv
<1>2. ChainsHold' /\ ParentsWait' /\ DirIdsHold' /\ CallIdsHold'
  BY DEF ScanInv, ChainsHold, ParentsWait, DirIdsHold, CallIdsHold
<1>3. MetAreSettled'
  BY DEF ScanInv, MetAreSettled, ToBeLeft
<1> QED BY <1>1, <1>2, <1>3

\* A scan starts when there is none.
LEMMA ScanStarts ==
  ASSUME ScanInv, ~aborted, ~scanning, StartScan
  PROVE  /\ IsLibrary(lib') /\ ChainsHold' /\ ParentsWait' /\ DirIdsHold' /\ CallIdsHold' /\ MetAreSettled'
         /\ scanning' = TRUE /\ aborted' = FALSE
         /\ events' \in events .. MaxEvents /\ failed' \in BOOLEAN
<1>1. /\ lib' = Forget(lib) /\ scanning' = TRUE /\ aborted' = aborted
      /\ \/ task' = RootTask /\ NoFailure
         \/ Fail /\ UNCHANGED task
  BY DEF StartScan
<1>2. aborted' = FALSE
  BY <1>1 DEF ScanInv, FlagsHold
<1>3. IsLibrary(lib') /\ DOMAIN lib'.map = {}
  BY <1>1, ForgetKeeps DEF ScanInv
<1>4. events' \in events .. MaxEvents /\ failed' \in BOOLEAN
  BY <1>1, EventsGoOn
<1>5. ChainsHold' /\ ParentsWait' /\ DirIdsHold' /\ CallIdsHold'
  <2>1. CASE task' = RootTask
    BY <2>1, RootTaskHolds
  <2>2. CASE UNCHANGED task
    <3>1. DOMAIN task = {}
      BY DEF ScanInv, PhasesHold
    <3> QED BY <2>2, <3>1 DEF ScanInv, ChainsHold, ParentsWait, DirIdsHold, CallIdsHold
  <2> QED BY <1>1, <2>1, <2>2
<1>6. MetAreSettled'
  BY <1>3 DEF MetAreSettled
<1> QED BY <1>1, <1>2, <1>3, <1>4, <1>5, <1>6

LEMMA SweepStep ==
  ASSUME ScanInv, ~aborted, Sweep
  PROVE  ScanInv'
<1>1. /\ ending = "sweep" /\ lib' = DeleteMissing(lib) /\ scanning' = FALSE /\ ending' = "save"
      /\ UNCHANGED <<treeVars, events, failed, saved, task, busy, changed, listening, aborted>>
  BY DEF Sweep
<1>2. DOMAIN task = {} /\ scanning /\ busy
  BY <1>1 DEF ScanInv, PhasesHold
<1>3. IsLibrary(lib) /\ \A p \in DOMAIN lib.map \cap Dirs : Settled(lib, p)
  BY <1>2 DEF ScanInv, MetAreSettled, ToBeLeft
<1>4. IsLibrary(lib') /\ lib'.map = lib.map /\ \A p \in DOMAIN lib.map \cap Dirs : Settled(lib', p)
  BY <1>1, <1>3, DeleteMissingKeeps
<1>5. ChainsHold' /\ ParentsWait' /\ DirIdsHold' /\ CallIdsHold'
  BY <1>1, <1>2 DEF ScanInv, ChainsHold, ParentsWait, DirIdsHold, CallIdsHold
<1>6. MetAreSettled'
  BY <1>4 DEF MetAreSettled, Settled, IdsMet
<1>7. PhasesHold'
  BY <1>1, <1>2 DEF PhasesHold
<1>8. TreeHolds' /\ FlagsHold'
  BY <1>1 DEF ScanInv, TreeHolds, FlagsHold, treeVars
<1>9. IsDatabase(saved')
  BY <1>1 DEF ScanInv
<1> QED BY <1>4, <1>5, <1>6, <1>7, <1>8, <1>9 DEF ScanInv

LEMMA SaveStep ==
  ASSUME ScanInv, ~aborted, Save \/ SaveFails
  PROVE  ScanInv'
<1>1. /\ ending = "save" /\ ending' \in {"conclude", "no"} /\ saved' \in {saved, lib.db}
      /\ UNCHANGED <<lib, task, aborted>>
      /\ UNCHANGED <<treeVars, scanning, busy, changed, listening>>
  BY DEF Save, SaveFails
<1>2. events' \in events .. MaxEvents /\ failed' \in BOOLEAN
  <2>1. NoFailure \/ Fail
    BY DEF Save, SaveFails, NoFailure
  <2> QED BY <2>1, EventsGoOn
<1>3. TreeHolds'
  BY <1>1, <1>2, TreeGoesOn DEF treeVars, ScanInv, TreeHolds
<1>4. FlagsHold' /\ PhasesHold'
  BY <1>1, <1>2 DEF ScanInv, FlagsHold, PhasesHold
<1>5. IsDatabase(saved')
  BY <1>1 DEF ScanInv, IsLibrary
<1>6. IsLibrary(lib') /\ ChainsHold' /\ ParentsWait' /\ DirIdsHold' /\ CallIdsHold' /\ MetAreSettled'
  BY <1>1, WalkStays
<1> QED BY <1>3, <1>4, <1>5, <1>6 DEF ScanInv

LEMMA ConcludeStep ==
  ASSUME ScanInv, ~aborted, Conclude
  PROVE  ScanInv'
<1>1. /\ ending = "conclude" /\ ending' = "no" /\ ~scanning /\ busy
      /\ UNCHANGED <<treeVars, saved, listening>>
  BY DEF Conclude, ScanInv, PhasesHold
<1>2. IsDatabase(saved')
  BY <1>1 DEF ScanInv
<1>3. CASE changed
  <2>1. changed' = FALSE /\ StartScan /\ busy' = busy
    BY <1>3 DEF Conclude
  <2>2. /\ IsLibrary(lib') /\ ChainsHold' /\ ParentsWait' /\ DirIdsHold' /\ CallIdsHold' /\ MetAreSettled'
        /\ scanning' = TRUE /\ aborted' = FALSE
        /\ events' \in events .. MaxEvents /\ failed' \in BOOLEAN
    BY <1>1, <2>1, ScanStarts
  <2>3. TreeHolds'
    BY <1>1, <2>2, TreeGoesOn DEF treeVars, ScanInv, TreeHolds
  <2>4. FlagsHold' /\ PhasesHold'
    BY <1>1, <2>1, <2>2 DEF ScanInv, FlagsHold, PhasesHold
  <2> QED BY <1>2, <2>2, <2>3, <2>4 DEF ScanInv
<1>4. CASE ~changed
  <2>1. /\ busy' = FALSE /\ NoFailure /\ UNCHANGED <<lib, task, aborted>> /\ UNCHANGED <<changed, scanning>>
    BY <1>4 DEF Conclude
  <2>2. IsLibrary(lib') /\ ChainsHold' /\ ParentsWait' /\ DirIdsHold' /\ CallIdsHold' /\ MetAreSettled'
    BY <2>1, WalkStays
  <2>3. events' \in events .. MaxEvents /\ failed' \in BOOLEAN
    BY <2>1, EventsGoOn
  <2>4. TreeHolds'
    BY <1>1, <2>3, TreeGoesOn DEF treeVars, ScanInv, TreeHolds
  <2>5. FlagsHold' /\ PhasesHold'
    BY <1>1, <2>1, <2>3 DEF ScanInv, FlagsHold, PhasesHold
  <2> QED BY <1>2, <2>2, <2>4, <2>5 DEF ScanInv
<1> QED BY <1>3, <1>4

LEMMA OnChangeStep ==
  ASSUME ScanInv, ~aborted, OnChange, UNCHANGED <<disk, mtime, watched, saved, listening, ending>>,
         pending' \in BOOLEAN
  PROVE  ScanInv'
<1>2. IsDatabase(saved')
  BY DEF ScanInv
<1>3. CASE ~busy
  <2>1. changed' = FALSE /\ StartScan /\ busy' = TRUE /\ ~scanning /\ ending = "no"
    BY <1>3 DEF OnChange, ScanInv, PhasesHold
  <2>2. /\ IsLibrary(lib') /\ ChainsHold' /\ ParentsWait' /\ DirIdsHold' /\ CallIdsHold' /\ MetAreSettled'
        /\ scanning' = TRUE /\ aborted' = FALSE
        /\ events' \in events .. MaxEvents /\ failed' \in BOOLEAN
    BY <2>1, ScanStarts
  <2>3. TreeHolds'
    BY <2>2, TreeGoesOn DEF ScanInv, TreeHolds
  <2>4. FlagsHold' /\ PhasesHold'
    BY <2>1, <2>2 DEF ScanInv, FlagsHold, PhasesHold
  <2> QED BY <1>2, <2>2, <2>3, <2>4 DEF ScanInv
<1>4. CASE busy
  <2>1. /\ changed' = TRUE /\ NoFailure /\ UNCHANGED <<lib, task, aborted>> /\ UNCHANGED <<busy, scanning>>
    BY <1>4 DEF OnChange
  <2>2. IsLibrary(lib') /\ ChainsHold' /\ ParentsWait' /\ DirIdsHold' /\ CallIdsHold' /\ MetAreSettled'
    BY <2>1, WalkStays
  <2>3. events' \in events .. MaxEvents /\ failed' \in BOOLEAN
    BY <2>1, EventsGoOn
  <2>4. TreeHolds'
    BY <2>3, TreeGoesOn DEF ScanInv, TreeHolds
  <2>5. FlagsHold' /\ PhasesHold'
    BY <2>1, <2>3 DEF ScanInv, FlagsHold, PhasesHold
  <2> QED BY <1>2, <2>2, <2>4, <2>5 DEF ScanInv
<1> QED BY <1>3, <1>4

LEMMA RestartStep ==
  ASSUME ScanInv, ~aborted, Restart
  PROVE  ScanInv'
<1>1. /\ lib' = Reload(saved) /\ task' = RootTask /\ scanning' = TRUE /\ busy' = TRUE /\ changed' = FALSE
      /\ listening' = FALSE /\ ending' = "no" /\ watched' = {} /\ pending' = FALSE
      /\ UNCHANGED <<disk, mtime>> /\ UNCHANGED <<saved, failed, aborted>> /\ Event
  BY DEF Restart
<1>2. IsLibrary(lib') /\ DOMAIN lib'.map = {} /\ IsDatabase(saved')
  BY <1>1, ReloadKeeps DEF ScanInv
<1>3. ChainsHold' /\ ParentsWait' /\ DirIdsHold' /\ CallIdsHold'
  BY <1>1, RootTaskHolds
<1>4. MetAreSettled'
  BY <1>2 DEF MetAreSettled
<1>5. TreeHolds'
  BY <1>1, EventsGoOn, TreeGoesOn
<1>6. FlagsHold' /\ PhasesHold'
  BY <1>1 DEF ScanInv, FlagsHold, PhasesHold
<1> QED BY <1>2, <1>3, <1>4, <1>5, <1>6 DEF ScanInv

LEMMA WorldStep ==
  ASSUME ScanInv, ~aborted, World
  PROVE  ScanInv'
<1>1. ChangeDisk /\ UNCHANGED <<lib, task, aborted>>
      /\ UNCHANGED <<saved, scanning, busy, changed, listening, ending, failed>>
  BY DEF World, scanVars
<1>2. IsLibrary(lib') /\ ChainsHold' /\ ParentsWait' /\ DirIdsHold' /\ CallIdsHold' /\ MetAreSettled'
  BY <1>1, WalkStays
<1>3. FlagsHold' /\ PhasesHold' /\ IsDatabase(saved')
  BY <1>1 DEF ScanInv, FlagsHold, PhasesHold
<1>4. TreeHolds'
  <2> USE DEF ScanInv, TreeHolds
  <2>1. events \in 0 .. MaxEvents /\ MaxEvents \in Nat
    BY TreeAssumption
  <2>2. ASSUME Event PROVE events' = events + 1 /\ events' \in 0 .. MaxEvents
    BY <2>1, <2>2 DEF Event
  <2>3. ASSUME NEW e \in Entries, Appear(e[1], e[2]) PROVE TreeHolds'
    <3>1. Event /\ pending' \in BOOLEAN /\ watched' = watched
      BY <2>3 DEF Appear, ChangeIn
    <3>2. disk' \subseteq Entries
      BY <2>3 DEF Appear
    <3>3. mtime' = mtime \/ mtime' = [mtime EXCEPT ![e[2]] = @ + 1]
      BY <2>3 DEF Appear
    <3>4. mtime' \in [Files -> Nat] /\ \A f \in Files : mtime'[f] \in 1 .. events' + 1
      BY <2>1, <2>2, <3>1, <3>3
    <3> QED BY <2>2, <3>1, <3>2, <3>4
  <2>4. ASSUME NEW e \in Entries, Vanish(e[1], e[2]) PROVE TreeHolds'
    <3>1. Event /\ pending' \in BOOLEAN /\ watched' \subseteq watched /\ mtime' = mtime /\ disk' \subseteq disk
      BY <2>4 DEF Vanish, ChangeIn
    <3>2. \A f \in Files : mtime'[f] \in 1 .. events' + 1
      BY <2>1, <2>2, <3>1
    <3> QED BY <2>2, <3>1, <3>2
  <2>5. ASSUME NEW f \in Files, Modify(f) PROVE TreeHolds'
    <3>1. Event /\ pending' \in BOOLEAN /\ watched' = watched /\ disk' = disk /\ mtime' = [mtime EXCEPT ![f] = @ + 1]
      BY <2>5 DEF Modify, ChangeIn
    <3>2. mtime' \in [Files -> Nat] /\ \A g \in Files : mtime'[g] \in 1 .. events' + 1
      BY <2>1, <2>2, <3>1
    <3> QED BY <2>2, <3>1, <3>2
  <2> QED BY <1>1, <2>3, <2>4, <2>5 DEF ChangeDisk
<1> QED BY <1>2, <1>3, <1>4 DEF ScanInv

LEMMA NotifierInitStep ==
  ASSUME ScanInv, ~aborted, NotifierInit
  PROVE  ScanInv'
<1>1. /\ UNCHANGED <<lib, task, aborted>> /\ listening' = TRUE
      /\ UNCHANGED <<treeVars, events, failed, saved, scanning, busy, changed, ending>>
  BY DEF NotifierInit
<1>2. IsLibrary(lib') /\ ChainsHold' /\ ParentsWait' /\ DirIdsHold' /\ CallIdsHold' /\ MetAreSettled'
  BY <1>1, WalkStays
<1>3. TreeHolds' /\ FlagsHold' /\ PhasesHold' /\ IsDatabase(saved')
  BY <1>1 DEF ScanInv, TreeHolds, FlagsHold, PhasesHold, treeVars
<1> QED BY <1>2, <1>3 DEF ScanInv

LEMMA ScanInvStarts ==
  ASSUME ScanInit
  PROVE  ScanInv
<1>1. DOMAIN NoIds = {} /\ NoIds = [p \in DOMAIN NoIds |-> NoIds[p]]
  BY DEF NoIds
<1>2. IsDatabase(saved) /\ saved = NoIds
  <2>1. saved = NoIds /\ IsFiniteSet({})
    BY FS_EmptySet DEF ScanInit
  <2> QED BY <1>1, <2>1 DEF IsDatabase, IdsAreOwn, ChildrenAreRecords
<1>3. IsLibrary(lib) /\ DOMAIN lib.map = {}
  <2>1. lib = Reload(NoIds) /\ IsDatabase(NoIds)
    BY <1>2 DEF ScanInit
  <2> QED BY <2>1, ReloadKeeps
<1>4. TreeHolds
  <2>1. /\ disk = AtFirst /\ mtime = [f \in Files |-> 1] /\ events = 0 /\ watched = {} /\ pending = FALSE
    BY DEF ScanInit, TreeInit
  <2>2. mtime \in [Files -> Nat] /\ \A f \in Files : mtime[f] \in 1 .. events + 1
    BY <2>1
  <2>3. disk \subseteq Entries /\ watched \subseteq Dirs /\ pending \in BOOLEAN /\ events \in 0 .. MaxEvents
    <3>1. AtFirst \subseteq Entries /\ MaxEvents \in Nat
      BY TreeAssumption
    <3>2. disk \subseteq Entries /\ watched \subseteq Dirs
      BY <2>1, <3>1
    <3>3. pending \in BOOLEAN
      BY <2>1
    <3>4. events \in 0 .. MaxEvents
      BY <2>1, <3>1
    <3> QED BY <3>2, <3>3, <3>4
  <2> QED BY <2>2, <2>3 DEF TreeHolds
<1>5. FlagsHold /\ PhasesHold /\ MetAreSettled
  BY <1>3 DEF ScanInit, FlagsHold, PhasesHold, MetAreSettled
<1>6. ChainsHold /\ ParentsWait /\ DirIdsHold /\ CallIdsHold
  <2>1. task = RootTask
    BY DEF ScanInit
  <2>2. ChainsHold /\ ParentsWait /\ DirIdsHold
    BY <2>1, RootTaskIs DEF ChainsHold, ParentsWait, DirIdsHold
  <2>3. CallIdsHold
    <3>1. \A c \in DOMAIN task : \A i \in 1 .. Len(task[c].calls) : FALSE
      BY <2>1, RootTaskIs
    <3> QED BY <3>1 DEF CallIdsHold
  <2> QED BY <2>2, <2>3
<1> QED BY <1>2, <1>3, <1>4, <1>5, <1>6 DEF ScanInv

LEMMA ScanInvSteps ==
  ASSUME ScanInv, [ScanNext]_allVars
  PROVE  ScanInv'
<1>1. CASE UNCHANGED allVars
  <2>1. UNCHANGED <<disk, mtime, watched, pending, events>> /\ UNCHANGED <<lib, task, aborted>>
        /\ UNCHANGED <<saved, scanning, busy, changed, listening, ending, failed>>
    BY <1>1 DEF allVars, treeVars, scanVars
  <2>2. IsLibrary(lib') /\ ChainsHold' /\ ParentsWait' /\ DirIdsHold' /\ CallIdsHold' /\ MetAreSettled'
    BY <2>1, WalkStays
  <2>3. TreeHolds' /\ FlagsHold' /\ PhasesHold' /\ IsDatabase(saved')
    BY <2>1 DEF ScanInv, TreeHolds, FlagsHold, PhasesHold
  <2> QED BY <2>2, <2>3 DEF ScanInv
<1>2. CASE ScanNext
  <2>1. ~aborted
    BY <1>2 DEF ScanNext
  <2>2. ASSUME NEW c \in DOMAIN task, Enter(c) \/ Leave(c) \/ OnFile(c) PROVE ScanInv'
    BY <2>1, <2>2, EnterStep, LeaveStep, OnFileStep
  <2>3. ASSUME Sweep \/ Save \/ SaveFails \/ Conclude PROVE ScanInv'
    BY <2>1, <2>3, SweepStep, SaveStep, ConcludeStep
  <2>4. ASSUME NotifierRun PROVE ScanInv'
    <3>1. OnChange /\ UNCHANGED <<disk, mtime, watched, saved, listening, ending>> /\ pending' \in BOOLEAN
      BY <2>4 DEF NotifierRun
    <3> QED BY <2>1, <3>1, OnChangeStep
  <2>5. ASSUME ForceRescan PROVE ScanInv'
    <3>1. OnChange /\ UNCHANGED <<disk, mtime, watched, saved, listening, ending>> /\ pending' \in BOOLEAN
      BY <2>5 DEF ForceRescan, treeVars, ScanInv, TreeHolds
    <3> QED BY <2>1, <3>1, OnChangeStep
  <2>6. ASSUME NotifierInit \/ Restart \/ World PROVE ScanInv'
    BY <2>1, <2>6, NotifierInitStep, RestartStep, WorldStep
  <2> QED BY <1>2, <2>2, <2>3, <2>4, <2>5, <2>6 DEF ScanNext, WalkerRuns
<1> QED BY <1>1, <1>2

LEMMA ScanAlwaysInv == ScanSpec => []ScanInv
<1>1. ScanInit => ScanInv
  BY ScanInvStarts
<1>2. ScanInv /\ [ScanNext]_allVars => ScanInv'
  BY ScanInvSteps
<1> QED BY <1>1, <1>2, PTL DEF ScanSpec

LEMMA ScanInvMeans ==
  ASSUME ScanInv
  PROVE  ScanTypeOK /\ UniqueIds /\ NoDanglingChildren
<1>1. TreeTypeOK
  <2>1. MaxEvents \in Nat
    BY TreeAssumption
  <2> QED BY <2>1 DEF ScanInv, TreeHolds, TreeTypeOK
<1>2. DOMAIN lib.map \subseteq DOMAIN lib.db /\ UniqueIds /\ NoDanglingChildren
  BY DEF ScanInv, IsLibrary, MapsAgree, IsDatabase, IdsAreOwn, ChildrenAreRecords, UniqueIds, NoDanglingChildren
<1>3. /\ DOMAIN lib.db \subseteq Paths /\ DOMAIN saved \subseteq Paths
      /\ \A db \in {lib.db, saved} : \A p \in DOMAIN db :
           /\ db[p].type \in {"pending", "file", "playlist", "dir"}
           /\ db[p].mtime \in 0 .. MaxEvents + 1
           /\ db[p].id \in Nat \ {0}
  BY DEF ScanInv, IsLibrary, IsDatabase, IsRecord
<1>4. ASSUME NEW c \in DOMAIN task
      PROVE  /\ c \in Seq(Paths) /\ c[1] = Root
             /\ IF Last(c) \in Files
                  THEN task[c].at = "file" /\ task[c].calls # <<>>
                  ELSE task[c].at \in {"queued", "waiting"} /\ task[c].calls = <<>>
  BY DEF ScanInv, ChainsHold, IsChain, IsTask
<1> QED BY <1>1, <1>2, <1>3, <1>4 DEF ScanTypeOK, ScanInv, FlagsHold

(* However scans, changes to the disk, failures and restarts fall          *)
(* together, no two records of the database ever have the same id, and no  *)
(* directory's record lists a child that is not a record.                  *)
THEOREM RecordsAlwaysFit == ScanSpec => [](ScanTypeOK /\ UniqueIds /\ NoDanglingChildren)
<1>1. ScanInv => ScanTypeOK /\ UniqueIds /\ NoDanglingChildren
  BY ScanInvMeans
<1> QED BY <1>1, ScanAlwaysInv, PTL

LEMMA LeavesWithItsId ==
  ASSUME ScanInv, NoLoops, NEW c \in DOMAIN task, task[c].at = "waiting"
  PROVE  GetRecordForPath(lib, Last(c)).map[Last(c)] = task[c].id
<1> DEFINE path  == Last(c)
           found == GetRecordForPath(lib, path)
<1>1. IsChain(c) /\ path \in Paths /\ IsLibrary(lib) /\ ~Looped(c)
  BY QueuedIsDir DEF ScanInv, NoLoops
<1>2. IF path = Root THEN task[c].id = RootId ELSE HasId(lib, path, task[c].id)
  BY <1>1 DEF ScanInv, DirIdsHold
<1>3. Keeps(lib, found) /\ (path = Root => found.map[path] = RootId)
  BY <1>1, GetRecordKeeps
<1> HIDE DEF found
<1>4. found.map[path] = task[c].id
  BY <1>2, <1>3 DEF HasId, Keeps
<1> QED BY <1>4 DEF found

LEMMA NeverAborts ==
  ASSUME ScanInv, NoLoops, ~aborted, [ScanNext]_allVars
  PROVE  ~aborted'
<1>1. ASSUME NEW c \in DOMAIN task, Leave(c) PROVE ~aborted'
  BY <1>1, LeavesWithItsId DEF Leave
<1>2. ASSUME NEW c \in DOMAIN task, Enter(c) PROVE ~aborted'
  BY <1>2 DEF Enter
<1>3. ASSUME NEW c \in DOMAIN task, OnFile(c) PROVE ~aborted'
  BY <1>3 DEF OnFile, LookInMap, FindRecord, CompareFile, NextSong, EndPlaylist, LinkToParent, onlyOnFile
<1>4. (scanning => busy) /\ (ending = "conclude" => ~scanning)
  BY DEF ScanInv, PhasesHold
<1>5. ASSUME OnChange PROVE ~aborted'
  BY <1>4, <1>5 DEF OnChange, StartScan
<1>6. ASSUME Conclude PROVE ~aborted'
  BY <1>4, <1>6 DEF Conclude, StartScan
<1>7. ASSUME Sweep \/ Save \/ SaveFails \/ NotifierInit \/ Restart \/ World \/ UNCHANGED allVars PROVE ~aborted'
  BY <1>7 DEF Sweep, Save, SaveFails, NotifierInit, Restart, World, scanVars, allVars
<1> QED BY <1>1, <1>2, <1>3, <1>5, <1>6, <1>7 DEF ScanNext, WalkerRuns, NotifierRun, ForceRescan

(* As long as no chain of links leads from a directory back to itself, the *)
(* scanner's assertions hold too: every directory is left with the id that *)
(* it was entered with, and no scan starts during another.                 *)
THEOREM RecordsAlwaysConsistent ==
  ASSUME NoLoops
  PROVE  ScanSpec => []RecordsAreConsistent
<1>1. ScanInit => ~aborted
  BY DEF ScanInit
<1>2. ScanInv /\ ~aborted /\ [ScanNext]_allVars => ~aborted'
  BY NeverAborts
<1>3. ScanInv /\ ~aborted => RecordsAreConsistent
  BY ScanInvMeans DEF RecordsAreConsistent, AssertionsHold
<1> QED BY <1>1, <1>2, <1>3, ScanAlwaysInv, PTL DEF ScanSpec
=============================================================================
