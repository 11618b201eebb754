---------------------------- MODULE OutputQueue ----------------------------
(***************************************************************************)
(* output::Queue (src/liboutput/queue.cpp): the list of tracks a player    *)
(* works through, in playing order (m_queue) and in the order of entry     *)
(* (m_entries), driven by the user-interface thread and by the thread on   *)
(* which the player reports that it has moved on to the next track.        *)
(*                                                                         *)
(* The queue's mutex is released between a change of the queue, the choice *)
(* of the track to hand to the player, the note of its URL as the expected *)
(* one, and the call of the player: each of these is a step, and the other *)
(* thread may come in between.  The player is the one of gstreamer.cpp.    *)
(*                                                                         *)
(* Positions count from 1 here: cur is m_current_index + 1, and a range    *)
(* [from, to) of the code is a..b with a = from + 1 and b = to.            *)
(***************************************************************************)
EXTENDS Integers, Sequences, FiniteSets, SequencesExt

CONSTANTS
  Tracks,      (* tracks; one track is queued at most once                 *)
  MaxEntries,  (* how long the queue may get                               *)
  Ops,         (* the operations the user interface uses                   *)
  Commands,    (* the play states it asks for                              *)
  MaxRaced,    (* how long the queue may be for the player to move on      *)
               (* during such an operation                                 *)
  None         (* no URL                                                   *)

ASSUME QueueAssumption ==
  /\ MaxEntries \in Nat \ {0}
  /\ Ops \subseteq {"Add", "QueueInsert", "EntryInsert", "QueueRemove",
                    "EntryRemove", "SetShuffle", "Seek", "SetPlayState"}
  /\ Commands \subseteq {"PLAY", "PAUSE", "STOP"}
  /\ MaxRaced \in Nat
  /\ None \notin Tracks

VARIABLES
  entries,      (* m_entries: the track and its PLAYED flag                *)
  order,        (* m_queue: positions in entries                           *)
  cur,          (* m_current_index + 1                                     *)
  shuffled,     (* m_shuffled                                              *)
  expected,     (* m_expected_url                                          *)
  expectedNext, (* m_expected_next_url                                     *)
  state,        (* Impl::m_state: what the player last said it does        *)
  url,          (* the player's m_url                                      *)
  nextUrl,      (* the player's m_next_url                                 *)
  playing,      (* what the player has been told to do, or does by itself  *)
  last,         (* m_last_state: what the player's bus last reported       *)
  restarted,    (* the bus still has to report a passage through READY     *)
  job,          (* what each thread has still to do in its call            *)
  got,          (* the track a thread has chosen for the player            *)
  firing,       (* who holds the lock of the player's observer list        *)
  undefined     (* an index went out of range, or a division was by zero   *)

queueVars  == <<entries, order, cur, shuffled>>
expectVars == <<expected, expectedNext, state>>
playerVars == <<url, nextUrl, playing, last, restarted>>
threadVars == <<job, got, firing>>
vars == <<queueVars, expectVars, playerVars, threadVars, undefined>>

Threads == {"ui", "audio"}
States == {"PLAY", "PAUSE", "STOP"}
Optional == Tracks \cup {None}

SetURL     == <<"url:read", "url:expect", "url:tell", "url:fire">>
SetNextURL == <<"next:read", "next:expect", "next:tell">>
Steps == Range(SetURL) \cup Range(SetNextURL) \cup States
           \cup {"fired", "add:check", "seek:state"}

TypeOK ==
  /\ entries \in Seq([track : Tracks, played : BOOLEAN])
  /\ order \in Seq(1..MaxEntries)
  /\ cur \in 1..(MaxEntries + 3)
  /\ shuffled \in BOOLEAN
  /\ {expected, expectedNext, url, nextUrl} \subseteq Optional
  /\ {state, playing, last} \subseteq States
  /\ job \in [Threads -> Seq(Steps)]
  /\ got \in [Threads -> Optional]
  /\ firing \in Threads \cup {None}
  /\ {restarted, undefined} \subseteq BOOLEAN

Init ==
  /\ entries = <<>>
  /\ order = <<>>
  /\ cur = 1
  /\ shuffled = FALSE
  /\ expected = None
  /\ expectedNext = None
  /\ state = "STOP"
  /\ url = None
  /\ nextUrl = None
  /\ playing = "STOP"
  /\ last = "STOP"
  /\ restarted = FALSE
  /\ job = [t \in Threads |-> <<>>]
  /\ got = [t \in Threads |-> None]
  /\ firing = None
  /\ undefined = FALSE

Size == Len(entries)
TrackAt(i) == entries[order[i]].track
Queued == {e.track : e \in Range(entries)}
Idle(t) == job[t] = <<>>

(* The bound on the races that are explored: long queues are left to the   *)
(* calls that nothing interrupts.                                          *)
MayRace == Size <= MaxRaced
-----------------------------------------------------------------------------
(***************************************************************************)
(* The user interface changes the queue.  Each operation is one critical   *)
(* section and leaves the calls it goes on to make in job["ui"].           *)
(***************************************************************************)

May(op) == op \in Ops /\ Idle("ui") /\ (MayRace \/ Idle("audio"))

Then(calls) == /\ job' = [job EXCEPT !["ui"] = calls]
               /\ UNCHANGED <<expectVars, playerVars, got, firing>>

(* The calls after an edit that asks for either, both or none of them. *)
Refresh(set, setNext) == (IF set THEN SetURL ELSE <<>>)
                           \o (IF setNext THEN SetNextURL ELSE <<>>)

NewTrack(t) == Size < MaxEntries /\ t \in Tracks \ Queued

Fresh(t) == [track |-> t, played |-> FALSE]

Add(t) ==
  /\ May("Add") /\ NewTrack(t)
  /\ entries' = Append(entries, Fresh(t))
  /\ order' = Append(order, Size + 1)
  /\ Then(<<"add:check">>)
  /\ UNCHANGED <<cur, shuffled, undefined>>

(* Where QueueInsert leaves m_current_index. *)
CurrentAfterInsert(p) == IF cur >= p THEN cur + 1 ELSE cur

(* The new item becomes number p of the playing order. *)
QueueInsert(t, p) ==
  /\ May("QueueInsert") /\ NewTrack(t)
  /\ entries' = Append(entries, Fresh(t))
  /\ order' = InsertAt(order, p, Size + 1)
  /\ cur' = CurrentAfterInsert(p)
  /\ Then(Refresh(Size = 0, cur = p - 1))
  /\ UNCHANGED <<shuffled, undefined>>

(* Where EntryInsert may put the item in the playing order: at random in   *)
(* the future when shuffled.  rand() % 0 when nothing of it is left.       *)
FirstAvailable == IF state = "PLAY" THEN cur + 1 ELSE cur
InsertPositions(p) == IF shuffled THEN FirstAvailable..(Size + 1) ELSE {p}

(* The new item becomes number p of the entries. *)
EntryInsert(t, p) ==
  /\ May("EntryInsert") /\ NewTrack(t)
  /\ IF InsertPositions(p) = {}
     THEN /\ undefined' = TRUE
          /\ UNCHANGED <<queueVars, expectVars, playerVars, threadVars>>
     ELSE \E q \in InsertPositions(p) :
          /\ entries' = InsertAt(entries, p, Fresh(t))
          /\ order' = InsertAt([i \in DOMAIN order |->
                                  IF order[i] >= p THEN order[i] + 1 ELSE order[i]], q, p)
          /\ cur' = IF cur > q THEN cur + 1 ELSE cur
          /\ Then(Refresh(q = cur, cur = q - 1))
          /\ UNCHANGED <<shuffled, undefined>>

(* What is left of a sequence without some of its positions. *)
Without(s, gone) == [i \in 1..(Len(s) - Cardinality(gone)) |->
  s[CHOOSE j \in DOMAIN s \ gone : Cardinality((1..j) \ gone) = i]]

Moved_Nowhere(i, gone) == i

(* Where a position that is left has moved to. *)
Moved(i, gone) == Cardinality((1..i) \ gone)

(* Where QueueRemove leaves m_current_index. *)
CurrentAfterCut(a, b, left) ==
  CASE cur > b -> cur - (b - a + 1)
    [] cur \in a..b -> IF a = left + 1 THEN 1 ELSE a
    [] OTHER -> cur

(* Items a..b of the playing order go. *)
QueueRemove(a, b) ==
  /\ May("QueueRemove")
  /\ LET gone == {order[i] : i \in a..b}
         left == Without(order, a..b)
     IN  /\ entries' = Without(entries, gone)
         /\ order' = [i \in DOMAIN left |-> Moved(left[i], gone)]
         /\ cur' = CurrentAfterCut(a, b, Len(left))
  /\ Then(Refresh(cur \in a..b, cur \in (a - 1)..b))
  /\ UNCHANGED <<shuffled, undefined>>

(* Where EntryRemove leaves m_current_index: behind the survivors. *)
CurrentAfterPurge(kept, i) == 1 + Cardinality({j \in kept : j < i})

(* Items a..b of the entries go.  Without a next item, the code compares   *)
(* the range with the first entry instead.                                 *)
EntryRemove(a, b) ==
  /\ May("EntryRemove")
  /\ LET kept == {i \in DOMAIN order : order[i] \notin a..b}
         left == Without(order, DOMAIN order \ kept)
         nextEntry == IF cur < Len(order) THEN order[cur + 1] ELSE 1
         at == IF cur \in DOMAIN order THEN CurrentAfterPurge(kept, cur) ELSE 1
     IN  /\ entries' = Without(entries, a..b)
         /\ order' = [i \in DOMAIN left |-> Moved(left[i], a..b)]
         /\ cur' = IF at > Len(left) THEN 1 ELSE at
         /\ Then(Refresh(cur \in DOMAIN order \ kept, nextEntry \in a..b))
  /\ UNCHANGED <<shuffled, undefined>>

CurrentUnshuffled_Stale == cur

(* The playing order becomes the order of entry: the current entry's own   *)
(* number is its place.                                                    *)
CurrentUnshuffled == order[cur]

(* The entries a shuffle puts behind the current one. *)
Behind(c) == {e \in DOMAIN entries \ {c} : entries[e].played}

(* SetNextURL while the recursive mutex is held, as SetShuffle calls it.   *)
NextURLLocked(ord, c) ==
  IF c >= Size
  THEN UNCHANGED <<expectedNext, nextUrl, got>>
  ELSE /\ expectedNext' = entries[ord[c + 1]].track
       /\ nextUrl' = entries[ord[c + 1]].track
       /\ got' = [got EXCEPT !["ui"] = entries[ord[c + 1]].track]

(* Bipartite: what has been played stays behind the current item, what has *)
(* not stays ahead.  Unshuffling goes back to the order of entry.          *)
SetShuffle(whether) ==
  /\ May("SetShuffle")
  /\ whether # shuffled
  /\ shuffled' = whether
  /\ IF Size > 1 /\ cur \notin DOMAIN order
     THEN /\ undefined' = TRUE
          /\ UNCHANGED <<entries, order, cur, expectVars, playerVars, threadVars>>
     ELSE /\ IF Size <= 1
             THEN UNCHANGED <<order, cur, expectedNext, nextUrl, got>>
             ELSE /\ IF whether
                     THEN LET c == order[cur]
                              ahead == DOMAIN entries \ ({c} \cup Behind(c))
                          IN  \E b \in SetToSeqs(Behind(c)), f \in SetToSeqs(ahead) :
                                /\ order' = b \o <<c>> \o f
                                /\ cur' = Len(b) + 1
                     ELSE /\ order' = [i \in 1..Size |-> i]
                          /\ cur' = CurrentUnshuffled
                  /\ NextURLLocked(order', cur')
          /\ UNCHANGED <<entries, expected, state, url, playing, last, restarted, job, firing, undefined>>

Seek(i) ==
  /\ May("Seek")
  /\ cur' = IF i <= Size THEN i ELSE cur
  /\ Then(<<"seek:state">>)
  /\ UNCHANGED <<entries, order, shuffled, undefined>>

Play == IF Size = 0 THEN <<>> ELSE SetURL \o SetNextURL \o <<"PLAY">>

PlayStateCalls(s) == IF s = "PLAY" THEN Play ELSE <<s>>

SetPlayState(s) ==
  /\ May("SetPlayState")
  /\ Then(PlayStateCalls(s))
  /\ UNCHANGED <<queueVars, undefined>>
-----------------------------------------------------------------------------
(***************************************************************************)
(* The steps of a call in progress                                         *)
(***************************************************************************)

Rest(t) == Tail(job[t])
At(t, step) == job[t] # <<>> /\ Head(job[t]) = step

(* Add looks, without the lock, whether it has appended the next item. *)
AddCheck == /\ At("ui", "add:check")
            /\ Then(IF cur = Size - 1 THEN SetNextURL ELSE <<>>)
            /\ UNCHANGED <<queueVars, undefined>>

(* Seek goes back to the play state it finds. *)
SeekState == /\ At("ui", "seek:state")
             /\ Then(SetURL \o SetNextURL \o PlayStateCalls(state))
             /\ UNCHANGED <<queueVars, undefined>>

(* The first half of SetURL or SetNextURL: the item at position i, if any. *)
ReadItem(t, step, i, calls) ==
  /\ At(t, step)
  /\ IF i > Size
     THEN /\ job' = [job EXCEPT ![t] = SubSeq(@, calls + 1, Len(@))]
          /\ UNCHANGED got
     ELSE /\ job' = [job EXCEPT ![t] = Rest(t)]
          /\ got' = [got EXCEPT ![t] = TrackAt(i)]
  /\ UNCHANGED <<queueVars, expectVars, playerVars, firing, undefined>>

NextPosition_Current == cur

(* m_current_index + 1. *)
NextPosition == cur + 1

ReadURL(t)  == ReadItem(t, "url:read", cur, Len(SetURL))
ReadNext(t) == ReadItem(t, "next:read", NextPosition, Len(SetNextURL))

Expect(t) ==
  /\ \/ /\ At(t, "url:expect")
        /\ expected' = got[t]
        /\ UNCHANGED expectedNext
     \/ /\ At(t, "next:expect")
        /\ expectedNext' = got[t]
        /\ UNCHANGED expected
  /\ job' = [job EXCEPT ![t] = Rest(t)]
  /\ UNCHANGED <<queueVars, state, playerVars, got, firing, undefined>>

(* The player is called.  A new URL makes it forget the next one, and a    *)
(* player known to be playing goes through READY.                          *)
Tell(t) ==
  /\ \/ /\ At(t, "url:tell")
        /\ url' = got[t]
        /\ nextUrl' = None
        /\ restarted' = (restarted \/ last = "PLAY")
        /\ playing' = IF last = "PLAY" THEN "PLAY" ELSE playing
     \/ /\ At(t, "next:tell")
        /\ nextUrl' = got[t]
        /\ UNCHANGED <<url, playing, restarted>>
     \/ \E s \in States : /\ At(t, s)
                          /\ playing' = s
                          /\ UNCHANGED <<url, nextUrl, restarted>>
  /\ job' = [job EXCEPT ![t] = Rest(t)]
  /\ UNCHANGED <<queueVars, expectVars, last, got, firing, undefined>>

(* ++m_current_index. *)
Advance == cur + 1

SetPlayed(i) == entries' = [entries EXCEPT ![order[i]].played = TRUE]

(* Fire(OnURL), with the observer list locked until OnURL returns: the     *)
(* track expected, the next track expected, or somebody else's.            *)
FireOnURL(t) ==
  /\ At(t, "url:fire")
  /\ firing = None
  /\ UNCHANGED <<order, shuffled, playerVars, got>>
  /\ CASE url = expected ->
            /\ job' = [job EXCEPT ![t] = Rest(t)]
            /\ IF cur \in DOMAIN order
               THEN SetPlayed(cur) /\ UNCHANGED undefined
               ELSE undefined' = TRUE /\ UNCHANGED entries
            /\ UNCHANGED <<cur, expectVars, firing>>
       [] url # expected /\ url = expectedNext ->
            /\ cur' = Advance
            /\ expected' = expectedNext
            /\ expectedNext' = None
            /\ job' = [job EXCEPT ![t] = SetNextURL \o <<"fired">> \o Rest(t)]
            /\ firing' = t
            /\ IF Advance \in DOMAIN order
               THEN SetPlayed(Advance) /\ UNCHANGED undefined
               ELSE undefined' = TRUE /\ UNCHANGED entries
            /\ UNCHANGED state
       [] OTHER ->
            /\ state' = "STOP"
            /\ job' = [job EXCEPT ![t] = Rest(t)]
            /\ UNCHANGED <<entries, cur, expected, expectedNext, firing, undefined>>

Fired(t) ==
  /\ At(t, "fired")
  /\ job' = [job EXCEPT ![t] = Rest(t)]
  /\ firing' = None
  /\ UNCHANGED <<queueVars, expectVars, playerVars, got, undefined>>
-----------------------------------------------------------------------------
(***************************************************************************)
(* The player's own threads: the one that plays ("audio") and its bus      *)
(***************************************************************************)

(* The track ends: the next one starts, through READY, or the player goes  *)
(* to READY and stays there.                                               *)
AboutToFinish ==
  /\ Idle("audio")
  /\ MayRace \/ Idle("ui")
  /\ playing = "PLAY"
  /\ \/ /\ nextUrl # None
        /\ url' = nextUrl
        /\ nextUrl' = None
        /\ restarted' = TRUE
        /\ job' = [job EXCEPT !["audio"] = <<"url:fire">>]
        /\ UNCHANGED playing
     \/ /\ nextUrl = None
        /\ playing' = "STOP"
        /\ UNCHANGED <<url, nextUrl, restarted, job>>
  /\ UNCHANGED <<queueVars, expectVars, last, got, firing, undefined>>

Reported == IF restarted THEN "STOP" ELSE playing

(* The bus reports a change of state; Fire waits for the observers' lock. *)
OnPlayState ==
  /\ MayRace \/ \A t \in Threads : Idle(t)
  /\ restarted \/ last # playing
  /\ restarted' = FALSE
  /\ last' = Reported
  /\ IF last = Reported
     THEN UNCHANGED state
     ELSE firing = None /\ state' = Reported
  /\ UNCHANGED <<queueVars, expected, expectedNext, url, nextUrl, playing, threadVars, undefined>>
-----------------------------------------------------------------------------
Edit ==
  \/ \E t \in Tracks :
       Add(t) \/ \E p \in 1..(Size + 1) : QueueInsert(t, p) \/ EntryInsert(t, p)
  \/ \E a, b \in 1..Size : a <= b /\ (QueueRemove(a, b) \/ EntryRemove(a, b))

Control ==
  \/ \E w \in BOOLEAN : SetShuffle(w)
  \/ \E i \in 1..(Size + 1) : Seek(i)
  \/ \E s \in Commands : SetPlayState(s)

Call(t) == ReadURL(t) \/ ReadNext(t) \/ Expect(t) \/ Tell(t) \/ FireOnURL(t) \/ Fired(t)

(* After undefined behaviour nothing more is said. *)
Next ==
  /\ ~undefined
  /\ \/ Edit \/ Control
     \/ AddCheck \/ SeekState
     \/ \E t \in Threads : Call(t)
     \/ AboutToFinish \/ OnPlayState

Spec == Init /\ [][Next]_vars
-----------------------------------------------------------------------------
(***************************************************************************)
(* Properties                                                              *)
(***************************************************************************)

CurrentTrack == IF cur \in DOMAIN order THEN TrackAt(cur) ELSE None
Quiet == \A t \in Threads : Idle(t)
Starting == \E i \in DOMAIN job["ui"]' : job["ui"]'[i] = "url:read"

(* Every entry is in the playing order exactly once, through any sequence  *)
(* of inserts, removals and shuffles (CheckQueue in the test).             *)
QueueIsPermutation == TypeOK /\ Len(order) = Size /\ Range(order) = 1..Size

(* "Test that removal of non-playing items doesn't interrupt playback": if *)
(* the current track survives, it stays the current one and is not started *)
(* again.                                                                  *)
RemovalKeepsCurrent ==
  [][Len(entries') < Size /\ CurrentTrack \in {e.track : e \in Range(entries')}
       => CurrentTrack' = CurrentTrack /\ ~Starting]_vars

(* An insert leaves the current track alone, or makes the new track the    *)
(* current one and hands it to the player.                                 *)
InsertNeverSkips ==
  [][Len(entries') > Size /\ CurrentTrack # None
       => \/ CurrentTrack' = CurrentTrack
          \/ CurrentTrack' \notin Queued /\ Starting]_vars

(* Shuffling and unshuffling change the order around the current track.    *)
ShuffleKeepsCurrent == [][shuffled' # shuffled => CurrentTrack' = CurrentTrack]_vars

(* "Bipartite shuffle -- keep all the songs we've played behind us in the  *)
(* shuffled order, all the songs we haven't played yet ahead".             *)
ShuffleIsBipartite ==
  [][shuffled' /\ ~shuffled /\ Size > 1 /\ ~undefined' =>
       \A i \in DOMAIN order' : /\ i < cur' => entries'[order'[i]].played
                                /\ i > cur' => ~entries'[order'[i]].played]_vars

(* No edit takes the current track away from under the player, and no      *)
(* shuffle brings back what has been played.                               *)
EditsRespectPlayback == /\ RemovalKeepsCurrent /\ InsertNeverSkips
                        /\ ShuffleKeepsCurrent /\ ShuffleIsBipartite

(* Between calls, a track of ours that the player plays is the current one. *)
PlayerOnCurrent ==
  Quiet /\ url # None /\ url = expected /\ url \in Queued => url = CurrentTrack

(* Between calls, what the player goes on to is the track after the        *)
(* current one.                                                            *)
NextIsNext ==
  Quiet /\ url = CurrentTrack /\ nextUrl # None =>
    /\ nextUrl = expectedNext
    /\ cur < Len(order) /\ nextUrl = TrackAt(cur + 1)
=============================================================================
