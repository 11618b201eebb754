---------------------------- MODULE Synchroniser ----------------------------
(***************************************************************************)
(* mediadb::Synchroniser makes one media database, the destination, like   *)
(* another, the source.  Items are matched by title and by whether they    *)
(* are lists, from the root down; what is left over on either side may     *)
(* turn up elsewhere in the tree, so that nothing is deleted or added      *)
(* until the whole tree has been seen.  The two databases number their     *)
(* items each in its own way.                                              *)
(*                                                                         *)
(* Matching reads both databases and changes neither: it is one step.      *)
(* Each deletion, each record that is committed and each file that is      *)
(* copied is a step of its own, and the program may fail or be killed      *)
(* before any of them; it is then run again from the start, by a process   *)
(* that knows only what the destination holds.                             *)
(***************************************************************************)
EXTENDS Integers, Sequences, FiniteSets, FiniteSetsExt, SequencesExt

CONSTANTS
  Sources,   \* what the source may hold: functions of item numbers
  Root,      \* the number of the root, 0x100 on both sides
  MaxEdits,  \* bound: changes of the source
  MaxStops   \* bound: synchronisations that do not end well

SourceIds == UNION {DOMAIN s : s \in Sources}

ASSUME SynchroniserAssumption ==
  /\ Root \in Nat \ {0}
  /\ \A s \in Sources : Root \in DOMAIN s /\ s[Root].kind = "list"

VARIABLES
  src,     \* the source: for each item its title, kind, children, size and tags,
           \* and IDHIGH, the number of a better encoding of it
  dest,    \* the destination: the same, and what its file holds
  m,       \* the Synchroniser's members
  todo,    \* what Synchronise has yet to do
  status,  \* "idle", "running" or "done"
  clean,   \* history: when the synchronisation began no list named an item that was
           \* not there, or it was the second of the same source, and no two items
           \* of the source were matched with one
  split,   \* history: some time two items of the source were matched with one
  torn,    \* history: items whose record was committed and whose file was not
  edits, stops

vars == <<src, dest, m, todo, status, clean, split, torn, edits, stops>>

Nowhere == 0
Fresh == [s2d |-> [s \in SourceIds |-> Nowhere], d2s |-> {}, seen |-> {},
          maybeAdd |-> {}, maybeDelete |-> {}, addTune |-> {}, amendTune |-> {},
          amendList |-> {}, addList |-> <<>>]

-----------------------------------------------------------------------------
(* CheckPlaylistNames *)

\* GetNames leaves out what is not there, and files that are no media.
Named(db, ids) == SelectSeq(ids, LAMBDA i : i \in DOMAIN db /\ db[i].kind # "file")
Name(db, i) == <<db[i].title, db[i].kind = "list">>

\* util::Diff: the places added and deleted by the shortest way from a to b.
Diff(a, b) ==
  LET Way[i \in 0..Len(a), j \in 0..Len(b)] ==
        IF i = 0 THEN [adds |-> 1..j, dels |-> {}]
        ELSE IF j = 0 THEN [adds |-> {}, dels |-> 1..i]
        ELSE LET add == Way[i, j - 1]
                 del == Way[i - 1, j]
                 Cost(w) == Cardinality(w.adds) + Cardinality(w.dels)
             IN IF a[i] = b[j] THEN Way[i - 1, j - 1]
                ELSE IF Cost(del) < Cost(add) THEN [del EXCEPT !.dels = @ \union {i}]
                ELSE [add EXCEPT !.adds = @ \union {j}]
  IN Way[Len(a), Len(b)]

\* The members of ids whose places are not in gone.
Kept(ids, gone) == [k \in 1..(Len(ids) - Cardinality(gone)) |->
                     ids[SetToSortSeq((DOMAIN ids) \ gone, <)[k]]]

Better(s) == IF src[s].high \in DOMAIN src THEN src[s].high ELSE s

CheckTune_LowSize(st, s, d) ==
  LET h == Better(s)
  IN [st EXCEPT
       !.s2d[s] = d, !.s2d[h] = d, !.d2s = @ \union {d},
       !.addTune = IF src[s].size # dest[d].size THEN @ \union {h} ELSE @,
       !.amendTune = IF src[s].size = dest[d].size /\ src[s].tags # dest[d].tags
                     THEN @ \union {h} ELSE @]
CheckTune_TagsFirst(st, s, d) ==
  LET h == Better(s)
  IN [st EXCEPT
       !.s2d[s] = d, !.s2d[h] = d, !.d2s = @ \union {d},
       !.addTune = IF src[h].size # dest[d].size /\ src[s].tags = dest[d].tags THEN @ \union {h} ELSE @,
       !.amendTune = IF src[s].tags # dest[d].tags THEN @ \union {h} ELSE @]

\* A tune in both: a file of another size is replaced, other tags are amended.
CheckTune(st, s, d) ==
  LET h == Better(s)
  IN [st EXCEPT
       !.s2d[s] = d, !.s2d[h] = d, !.d2s = @ \union {d},
       !.addTune = IF src[h].size # dest[d].size THEN @ \union {h} ELSE @,
       !.amendTune = IF src[h].size = dest[d].size /\ src[s].tags # dest[d].tags
                     THEN @ \union {h} ELSE @]

Unify_NotAmended(st, s, d, parent) ==
  IF st.s2d[s] = d THEN st ELSE [st EXCEPT !.maybeDelete = @ \union {d}]

\* The same item of the source in a second place of the destination.
Unify(st, s, d, parent) ==
  IF st.s2d[s] = d THEN st
  ELSE [st EXCEPT !.maybeDelete = @ \union {d}, !.amendList = @ \union {parent}]

RECURSIVE Check(_, _, _, _)

CheckList(st, s, d) ==
  LET ss == Named(src, src[s].kids)
      ds == Named(dest, dest[d].kids)
      way == Diff([k \in DOMAIN ds |-> Name(dest, ds[k])], [k \in DOMAIN ss |-> Name(src, ss[k])])
      ks == Kept(ss, way.adds)
      kd == Kept(ds, way.dels)
      st1 == [st EXCEPT
               !.s2d[s] = d, !.d2s = @ \union {d},
               !.maybeAdd = @ \union {ss[k] : k \in way.adds},
               !.maybeDelete = @ \union {ds[k] : k \in way.dels},
               !.amendList = IF way.adds \union way.dels # {} THEN @ \union {s} ELSE @]
  IN FoldLeft(LAMBDA acc, k : Check(acc, ks[k], kd[k], s), st1, [k \in DOMAIN ks |-> k])

Check(st, s, d, parent) ==
  IF s \in st.seen THEN Unify(st, s, d, parent)
  ELSE LET st1 == [st EXCEPT !.seen = @ \union {s}]
       IN IF dest[d].kind = "list" THEN CheckList(st1, s, d) ELSE CheckTune(st1, s, d)

-----------------------------------------------------------------------------
(* MaybeDelete and MaybeAdd *)

\* An item that was not found elsewhere goes, after its children.
RECURSIVE Doom(_, _)
Doom(acc, d) ==
  IF d \in acc.already \/ d \in acc.found \/ d \notin DOMAIN dest
  THEN [acc EXCEPT !.already = @ \union {d}]
  ELSE LET below == FoldLeft(Doom, [acc EXCEPT !.already = @ \union {d}], dest[d].kids)
       IN [below EXCEPT !.doomed = Append(@, d)]

Doomed(st) ==
  FoldLeft(Doom, [already |-> {}, found |-> st.d2s, doomed |-> <<>>],
           SetToSortSeq(st.maybeDelete, <)).doomed

\* AllocateID: the next number that is free.
Allocate(taken) == Min({i \in (Root + 1)..(Root + 1 + Cardinality(taken)) : i \notin taken})

\* An item that was not found elsewhere is added, after its children.
RECURSIVE Gather(_, _)
Gather(acc, s) ==
  IF s \in acc.already \/ acc.s2d[s] # Nowhere \/ src[s].kind = "file"
  THEN [acc EXCEPT !.already = @ \union {s}]
  ELSE LET below == FoldLeft(Gather, [acc EXCEPT !.already = @ \union {s}], src[s].kids)
           d == Allocate(DOMAIN dest \union below.d2s)
           h == Better(s)
       IN [below EXCEPT
            !.s2d[s] = d, !.s2d[h] = d, !.d2s = @ \union {d},
            !.addList = IF src[h].kind = "list" THEN Append(@, h) ELSE @,
            !.addTune = IF src[h].kind = "list" THEN @ ELSE @ \union {h}]

Gathered(st) ==
  LET start == [already |-> {}, s2d |-> st.s2d, d2s |-> st.d2s, addList |-> st.addList, addTune |-> st.addTune]
      end == FoldLeft(Gather, start, SetToSortSeq(st.maybeAdd, <))
  IN [st EXCEPT !.s2d = end.s2d, !.d2s = end.d2s, !.addList = end.addList, !.addTune = end.addTune]

-----------------------------------------------------------------------------
(* Synchronise *)

Todo(op, items) == [k \in DOMAIN items |-> <<op, items[k]>>]

Init ==
  /\ src \in Sources
  /\ dest = (Root :> [title |-> src[Root].title, kind |-> "list", kids |-> <<>>, size |-> 0, tags |-> 0, data |-> 0])
  /\ m = Fresh /\ todo = <<>> /\ status = "idle"
  /\ clean = TRUE /\ split = FALSE /\ torn = {} /\ edits = 0 /\ stops = 0

NamesAll == \A d \in DOMAIN dest : {k \in ToSet(dest[d].kids) : k > Root} \subseteq DOMAIN dest

Split(st) == \E s, t \in st.seen : s # t /\ st.s2d[s] = st.s2d[t]

\* The two trees are compared; the deletions are known.
Begin ==
  /\ status # "running"
  /\ LET st == Check(Fresh, Root, Root, Root)
     IN /\ m' = st
        /\ todo' = Append(Todo("delete", Doomed(st)), <<"gather", Root>>)
        /\ clean' = ((NamesAll \/ status = "done") /\ ~Split(st))
        /\ split' = (split \/ Split(st))
  /\ status' = "running"
  /\ UNCHANGED <<src, dest, torn, edits, stops>>

Doing(op) == status = "running" /\ todo # <<>> /\ todo[1][1] = op
Item == todo[1][2]
Same == UNCHANGED <<src, status, clean, split, edits, stops>>

Delete ==
  /\ Doing("delete")
  /\ dest' = [d \in DOMAIN dest \ {Item} |-> dest[d]]
  /\ todo' = Tail(todo)
  /\ torn' = torn \ {Item}
  /\ UNCHANGED m /\ Same

\* What is to be added is known, and all has its number.
GatherAdditions ==
  /\ Doing("gather")
  /\ LET st == Gathered(m)
     IN /\ m' = st
        /\ todo' = Todo("list", SetToSortSeq(st.amendList, <)) \o Todo("list", st.addList)
                   \o Todo("tune", SetToSortSeq(st.addTune, <)) \o Todo("meta", SetToSortSeq(st.amendTune, <))
  /\ UNCHANGED <<dest, torn>> /\ Same

Record(d, rec) == [e \in DOMAIN dest \union {d} |-> IF e = d THEN rec ELSE dest[e]]

\* CopyPlaylist, for AmendPlaylist and AddPlaylist.
CopyPlaylist ==
  /\ Doing("list")
  /\ LET kids == SelectSeq([k \in DOMAIN src[Item].kids |-> m.s2d[src[Item].kids[k]]], LAMBDA d : d # Nowhere)
     IN dest' = Record(m.s2d[Item], [title |-> src[Item].title, kind |-> "list", kids |-> kids,
                                     size |-> 0, tags |-> 0, data |-> 0])
  /\ todo' = Tail(todo)
  /\ UNCHANGED <<m, torn>> /\ Same

\* CopyMetadata: everything but the file, its size included.
Metadata(s, d) ==
  [title |-> src[s].title, kind |-> "tune", kids |-> <<>>, size |-> src[s].size, tags |-> src[s].tags,
   data |-> IF d \in DOMAIN dest THEN dest[d].data ELSE 0]

AmendTune ==
  /\ Doing("meta")
  /\ dest' = Record(m.s2d[Item], Metadata(Item, m.s2d[Item]))
  /\ todo' = Tail(todo)
  /\ UNCHANGED <<m, torn>> /\ Same

\* AddTune commits the record before it copies the file.
AddTune ==
  /\ Doing("tune")
  /\ dest' = Record(m.s2d[Item], Metadata(Item, m.s2d[Item]))
  /\ torn' = torn \union {m.s2d[Item]}
  /\ todo' = <<<<"data", Item>>>> \o Tail(todo)
  /\ UNCHANGED m /\ Same

CopyStream ==
  /\ Doing("data")
  /\ dest' = [dest EXCEPT ![m.s2d[Item]].data = src[Item].size]
  /\ torn' = torn \ {m.s2d[Item]}
  /\ todo' = Tail(todo)
  /\ UNCHANGED m /\ Same

Done ==
  /\ status = "running" /\ todo = <<>>
  /\ status' = "done" /\ m' = Fresh
  /\ UNCHANGED <<src, dest, todo, clean, split, torn, edits, stops>>

\* A step fails, or the program is killed.
Stop ==
  /\ status = "running" /\ stops < MaxStops
  /\ stops' = stops + 1
  /\ status' = "idle" /\ m' = Fresh /\ todo' = <<>>
  /\ UNCHANGED <<src, dest, clean, split, torn, edits>>

\* Between two synchronisations the source changes.
Edit ==
  /\ status # "running" /\ edits < MaxEdits
  /\ edits' = edits + 1
  /\ src' \in Sources \ {src}
  /\ status' = "idle"
  /\ UNCHANGED <<dest, m, todo, clean, split, torn, stops>>

Next ==
  \/ Begin \/ Delete \/ GatherAdditions \/ CopyPlaylist \/ AddTune \/ CopyStream \/ AmendTune \/ Done
  \/ Stop \/ Edit

Spec == Init /\ [][Next]_vars
-----------------------------------------------------------------------------
\* Values the variables can have.
TypeOK ==
  /\ src \in Sources /\ Root \in DOMAIN dest
  /\ status \in {"idle", "running", "done"}
  /\ \A d \in DOMAIN dest : dest[d].kind \in {"list", "tune"}

\* An item as one sees it who opens it: files left out, the better encoding taken.
RECURSIVE Picture(_, _)
Picture(db, i) ==
  IF db[i].kind = "list"
  THEN LET ids == Named(db, db[i].kids) IN <<db[i].title, [k \in DOMAIN ids |-> Picture(db, ids[k])]>>
  ELSE <<db[i].title, db[i].size, db[i].tags>>
SourcePicture ==
  Picture([i \in DOMAIN src |-> [src[i] EXCEPT !.size = src[Better(i)].size]], Root)

\* The Synchroniser would find nothing to do.
Idle == LET st == Check(Fresh, Root, Root, Root)
        IN st.maybeAdd \union st.maybeDelete \union st.addTune \union st.amendTune \union st.amendList = {}

\* A synchronisation that came to its end has made the trees equal, whatever was
\* moved, renamed, linked twice or left behind by those that were stopped, and the
\* next finds nothing to do.  Where a stop left lists that name what is not there,
\* a new item may be given that number and appear in them: then it is the second
\* synchronisation that makes them equal.
Mirrors ==
  /\ TypeOK
  /\ status = "done" /\ clean => SourcePicture = Picture(dest, Root) /\ Idle

\* Every item's file is that of its record, but for those at whose copying a
\* synchronisation was stopped, if never two items of the source wrote to one.
FilesAreWhole ==
  ~split => \A d \in DOMAIN dest : dest[d].kind = "tune" /\ d \notin torn => dest[d].data = dest[d].size
=============================================================================
