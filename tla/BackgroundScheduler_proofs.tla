---------------------- MODULE BackgroundScheduler_proofs ----------------------
(***************************************************************************)
(* Proofs about BackgroundScheduler for any tasks, handles and timers, and *)
(* any number of calls by any threads and callbacks.                       *)
(***************************************************************************)
EXTENDS BackgroundScheduler, SequenceTheorems, FiniteSetTheorems, TLAPS

(* While the list has not been emptied, an array that is called valid      *)
(* lists the handles of m_pollables in their order.                        *)
ArrayIsCurrent ==
  arrayValid /\ ~cleared => array = [i \in DOMAIN pollables |-> pollables[i].h]

(* What poll() reported are entries of the array.                          *)
ReportIsInArray == revents \subseteq {0} \cup DOMAIN array

IInv == ArrayIsCurrent /\ ReportIsInArray /\ AbortsOnlyInShutdown

(* What DoCallbacks() asserts is what the invariant says.                  *)
LEMMA CurrentMatches ==
  ASSUME ArrayIsCurrent, ReportIsInArray, arrayValid, ~cleared
  PROVE  ArrayMatches
  BY DEF ArrayIsCurrent, ReportIsInArray, ArrayMatches

(* Marking a record for deletion leaves its handle.                        *)
LEMMA MarkedKeepsHandle ==
  ASSUME NEW record, NEW called
  PROVE  Marked(record, called).h = record.h
  BY DEF Marked

(* Every step keeps the array current: the calls that change the list say  *)
(* that the array is not valid any more.                                   *)
LEMMA ArrayInvariant == Spec => []IInv
<1>1. Init => IInv
  BY DEF Init, IInv, ArrayIsCurrent, ReportIsInArray, AbortsOnlyInShutdown
<1>2. IInv /\ [Next]_vars => IInv'
  <2> SUFFICES ASSUME IInv, [Next]_vars PROVE IInv'
    OBVIOUS
  <2> USE DEF IInv, ArrayIsCurrent, ReportIsInArray, AbortsOnlyInShutdown
  <2>1. ASSUME NEW p, NEW h, NEW oneshot, WaitForReadable(p, h, oneshot) PROVE IInv'
    BY <2>1 DEF WaitForReadable, exitVars, coreVars, pollerVars
  <2>2. ASSUME NEW x, Wait(x) PROVE IInv'
    BY <2>2 DEF Wait, exitVars, coreVars, pollerVars
  <2>3. ASSUME NEW p, Remove(p) PROVE IInv'
    BY <2>3 DEF Remove, exitVars, coreVars, pollerVars
  <2>4. CASE Wake
    BY <2>4 DEF Wake, listVars, exitVars, coreVars, pollerVars
  <2>5. CASE BeginShutdown
    BY <2>5 DEF BeginShutdown, listVars, coreVars, pollerVars
  <2>6. CASE EndShutdown
    BY <2>6 DEF EndShutdown, coreVars, pollerVars
  <2>7. CASE CheckExiting
    BY <2>7 DEF CheckExiting, listVars, exitVars, coreVars
  <2>8. CASE SetUp
    BY <2>8 DEF SetUp, exitVars, coreVars
  <2>9. CASE CorePoll
    BY <2>9 DEF CorePoll, AfterPoll, Signalled, listVars, exitVars
  <2>10. CASE Interrupted
    BY <2>10 DEF Interrupted, AfterPoll, listVars, exitVars
  <2>11. CASE DueTimer
    BY <2>11 DEF DueTimer, exitVars, coreVars
  <2>12. CASE NoMoreTimers
    BY <2>12 DEF NoMoreTimers, listVars, exitVars, coreVars
  <2>13. CASE DoCallbacks
    <3>1. AbortsOnlyInShutdown'
      BY <2>13, CurrentMatches DEF DoCallbacks, exitVars
    <3>2. ReportIsInArray'
      BY <2>13 DEF DoCallbacks
    <3>3. ArrayIsCurrent'
      <4>1. CASE arrayValid /\ ArrayMatches
        <5>1. /\ DOMAIN pollables' = DOMAIN pollables
              /\ \A i \in DOMAIN pollables : pollables'[i].h = pollables[i].h
          BY <2>13, <4>1, MarkedKeepsHandle DEF DoCallbacks
        <5> QED
          BY <2>13, <5>1 DEF DoCallbacks, exitVars
      <4>2. CASE ~(arrayValid /\ ArrayMatches)
        BY <2>13, <4>2 DEF DoCallbacks, exitVars
      <4> QED
        BY <4>1, <4>2
    <3> QED
      BY <3>1, <3>2, <3>3
  <2>14. CASE CallbackReturns
    BY <2>14 DEF CallbackReturns, listVars, exitVars, coreVars
  <2>15. CASE DropDone
    BY <2>15 DEF DropDone, exitVars, coreVars
  <2>16. ASSUME NEW h, Arrive(h) \/ ReadAll(h) PROVE IInv'
    <3>1. UNCHANGED <<pollables, arrayValid, cleared, array, revents, pc>>
      BY <2>16 DEF Arrive, ReadAll, listVars, exitVars, coreVars, pollerVars
    <3> QED
      BY <3>1
  <2>17. CASE Tick
    BY <2>17 DEF Tick, listVars, exitVars, coreVars, pollerVars
  <2>18. CASE UNCHANGED vars
    BY <2>18 DEF vars, listVars, exitVars, coreVars, pollerVars
  <2>19. CASE Client
    <3> HIDE DEF IInv
    <3> QED
      BY <2>19, <2>1, <2>2, <2>3, <2>4, <2>5, <2>6 DEF Client
  <2>20. CASE Poller
    BY <2>20, <2>7, <2>8, <2>9, <2>11, <2>12, <2>13, <2>14, <2>15 DEF Poller
  <2>21. CASE World
    <3> HIDE DEF IInv
    <3> QED
      BY <2>21, <2>10, <2>16, <2>17 DEF World
  <2> QED
    BY <2>18, <2>19, <2>20, <2>21 DEF Next
<1> QED
  BY <1>1, <1>2, PTL DEF Spec

(* The assertions of DoCallbacks() hold until Shutdown() empties the list, *)
(* whoever calls what between SetUpArray() and DoCallbacks().              *)
THEOREM AssertionsHoldUntilShutdown == Spec => []AbortsOnlyInShutdown
<1>1. IInv => AbortsOnlyInShutdown
  BY DEF IInv
<1> QED
  BY <1>1, ArrayInvariant, PTL

-----------------------------------------------------------------------------
(* What the arithmetic of the timers needs to know.                        *)
TimerTypes == /\ timers \in Seq(TimerCalls)
              /\ now \in Nat
              /\ nowms \in Nat \cup {Never}

LEMMA Division ==
  ASSUME NEW a \in Nat, NEW r \in Nat \ {0}
  PROVE  /\ a \div r \in Nat
         /\ (a \div r) * r \in Nat
         /\ (a \div r) * r <= a
         /\ a < (a \div r) * r + r
  OBVIOUS

LEMMA Multiples ==
  ASSUME NEW k \in Nat, NEW r \in Nat \ {0}
  PROVE  (k * r) % r = 0
  OBVIOUS

(* The next time of a repeating timer, for every first time, period and    *)
(* delay: the two assertions of Poll(), and that the rhythm is kept.       *)
LEMMA NextTimeIsNext ==
  ASSUME NEW x \in TimerCalls, x.repeat # 0, Sampled \in Nat, x.t <= Sampled
  PROVE  /\ NextTime(x) \in Nat
         /\ Sampled < NextTime(x)
         /\ NextTime(x) <= Sampled + x.repeat
         /\ x.t = 0 \/ (NextTime(x) - x.t) % x.repeat = 0
<1>1. x.t \in Nat /\ x.repeat \in Nat \ {0}
  BY DEF TimerCalls
<1>2. CASE x.t = 0
  BY <1>1, <1>2 DEF NextTime
<1>3. CASE x.t # 0
  <2> DEFINE late  == Sampled + x.repeat - x.t
             times == late \div x.repeat
  <2>1. late \in Nat
    BY <1>1
  <2>2. /\ times \in Nat /\ times * x.repeat \in Nat
        /\ times * x.repeat <= late
        /\ late < times * x.repeat + x.repeat
    BY <2>1, <1>1, Division
  <2>3. NextTime(x) = x.t + times * x.repeat
    BY <1>3 DEF NextTime
  <2>4. NextTime(x) - x.t = times * x.repeat
    BY <2>2, <2>3, <1>1
  <2>5. (NextTime(x) - x.t) % x.repeat = 0
    BY <2>2, <2>4, <1>1, Multiples
  <2> HIDE DEF times
  <2> QED
    BY <2>2, <2>3, <2>5, <1>1
<1> QED
  BY <1>2, <1>3

(* Taking an element out of a sequence.                                    *)
LEMMA WithoutType ==
  ASSUME NEW S, NEW s \in Seq(S), NEW i \in DOMAIN s
  PROVE  Without(s, i) \in Seq(S) /\ Len(Without(s, i)) = Len(s) - 1
  BY DEF Without

(* What calling a timer leaves.                                            *)
LEMMA AfterCallingType ==
  ASSUME timers \in Seq(TimerCalls), Sampled \in Nat,
         NEW i \in DOMAIN timers, timers[i].t <= Sampled
  PROVE  /\ AfterCalling(i) \in Seq(TimerCalls)
         /\ timers[i].task # NoTask /\ Len(AfterCalling(i)) = Len(timers) =>
              /\ timers[i].repeat # 0
              /\ AfterCalling(i)[i].t = NextTime(timers[i])
<1>1. timers[i] \in TimerCalls
  OBVIOUS
<1>2. CASE timers[i].repeat = 0 \/ timers[i].task = NoTask
  BY <1>2, WithoutType DEF AfterCalling
<1>3. CASE timers[i].repeat # 0 /\ timers[i].task # NoTask
  <2> DEFINE next == [timers[i] EXCEPT !.t = NextTime(timers[i])]
  <2>1. NextTime(timers[i]) \in Nat
    BY <1>1, <1>3, NextTimeIsNext
  <2>2. next \in TimerCalls /\ next.t = NextTime(timers[i])
    BY <2>1, <1>1 DEF TimerCalls
  <2>3. AfterCalling(i) = [timers EXCEPT ![i] = next]
    BY <1>3 DEF AfterCalling
  <2> HIDE DEF next
  <2> QED
    BY <2>2, <2>3, <1>3
<1> QED
  BY <1>2, <1>3

(* The time the timers are compared with is a time.                        *)
LEMMA SampledIsTime ==
  ASSUME TimerTypes
  PROVE  Sampled \in Nat
  BY DEF TimerTypes, Sampled

LEMMA TimersWithoutType ==
  ASSUME timers \in Seq(TimerCalls), NEW p
  PROVE  TimersWithout(p) \in Seq(TimerCalls)
<1>1. ASSUME NEW i \in DOMAIN timers
      PROVE  [timers[i] EXCEPT !.task = NoTask] \in TimerCalls
  <2>1. timers[i] \in TimerCalls
    BY <1>1
  <2> QED
    BY <2>1 DEF TimerCalls
<1> QED
  BY <1>1 DEF TimersWithout

LEMMA TimerTypesInvariant == Spec => []TimerTypes
<1>1. Init => TimerTypes
  BY SchedulerAssumption DEF Init, TimerTypes
<1>2. TimerTypes /\ [Next]_vars => TimerTypes'
  <2> SUFFICES ASSUME TimerTypes, [Next]_vars PROVE TimerTypes'
    OBVIOUS
  <2>1. ASSUME NEW x \in Timers, Wait(x) PROVE TimerTypes'
    <3>1. x \in TimerCalls
      BY SchedulerAssumption DEF TimerCalls
    <3>2. timers' \in Seq(TimerCalls)
      BY <2>1, <3>1, AppendProperties DEF Wait, TimerTypes
    <3> QED
      BY <2>1, <3>2 DEF Wait, TimerTypes, worldVars, pollerVars
  <2>2. ASSUME NEW p, Remove(p) PROVE TimerTypes'
    BY <2>2, TimersWithoutType DEF Remove, TimerTypes, worldVars, pollerVars
  <2>3. CASE EndShutdown
    BY <2>3 DEF EndShutdown, TimerTypes, worldVars, pollerVars
  <2>4. CASE DueTimer
    <3>1. PICK i \in Soonest : timers[i].t <= Sampled /\ timers' = AfterCalling(i)
      BY <2>4 DEF DueTimer
    <3>2. timers' \in Seq(TimerCalls)
      BY <3>1, SampledIsTime, AfterCallingType DEF TimerTypes, Soonest
    <3> QED
      BY <2>4, <3>2, SampledIsTime DEF DueTimer, TimerTypes, worldVars
  <2>5. CASE NoMoreTimers
    BY <2>5 DEF NoMoreTimers, TimerTypes, listVars, worldVars
  <2>6. CASE Tick
    BY <2>6, SchedulerAssumption DEF Tick, TimerTypes, listVars, pollerVars
  <2>7. ASSUME NEW w, NEW oneshot, WaitForReadable(w[1], w[2], oneshot) PROVE TimerTypes'
    BY <2>7 DEF WaitForReadable, TimerTypes, worldVars, pollerVars
  <2>8. CASE Wake \/ BeginShutdown
    BY <2>8 DEF Wake, BeginShutdown, TimerTypes, listVars, worldVars, pollerVars
  <2>9. CASE CheckExiting \/ SetUp \/ CorePoll \/ Interrupted
    BY <2>9 DEF CheckExiting, SetUp, CorePoll, Interrupted, AfterPoll, TimerTypes, listVars,
                worldVars
  <2>10. CASE DoCallbacks \/ CallbackReturns \/ DropDone
    BY <2>10 DEF DoCallbacks, CallbackReturns, DropDone, TimerTypes, listVars, worldVars
  <2>11. ASSUME NEW h, Arrive(h) \/ ReadAll(h) PROVE TimerTypes'
    <3>1. UNCHANGED <<timers, now, nowms>>
      BY <2>11 DEF Arrive, ReadAll, listVars, pollerVars
    <3> QED
      BY <3>1 DEF TimerTypes
  <2>12. CASE UNCHANGED vars
    BY <2>12 DEF vars, TimerTypes, listVars, worldVars, pollerVars
  <2>13. CASE Client
    BY <2>13, <2>1, <2>2, <2>3, <2>7, <2>8 DEF Client
  <2>14. CASE Poller
    BY <2>14, <2>4, <2>5, <2>9, <2>10 DEF Poller
  <2>15. CASE World
    BY <2>15, <2>6, <2>9, <2>11 DEF World
  <2> QED
    BY <2>12, <2>13, <2>14, <2>15 DEF Next
<1> QED
  BY <1>1, <1>2, PTL DEF Spec

-----------------------------------------------------------------------------
(* Whatever the first time, the period and the delay of the poller, a      *)
(* repeating timer that is called moves to the first of its times that is  *)
(* later than the time this Poll() compares with.                          *)
THEOREM RepeatingTimersKeepTime == Spec => RepeatingTimersAdvance
<1> DEFINE Calls == pc = "timers" /\ todo = <<>> /\ todo' # <<>> /\ Len(timers') = Len(timers)
<1>1. TimerTypes /\ [Next]_vars =>
        [Calls => \E i \in Soonest : Advances(timers[i], timers'[i])]_vars
  <2> SUFFICES ASSUME TimerTypes, Next, Calls
               PROVE  \E i \in Soonest : Advances(timers[i], timers'[i])
    OBVIOUS
  <2>1. DueTimer
    <3>1. ASSUME Client PROVE FALSE
      BY <3>1 DEF Client, WaitForReadable, Wait, Remove, Wake, BeginShutdown, EndShutdown,
                  pollerVars
    <3>2. ASSUME World PROVE FALSE
      BY <3>2 DEF World, Arrive, ReadAll, Tick, Interrupted, AfterPoll, pollerVars
    <3>3. CASE Poller
      BY <3>3 DEF Poller, CheckExiting, SetUp, CorePoll, AfterPoll, NoMoreTimers, DoCallbacks,
                  CallbackReturns, InCallback, DropDone
    <3> QED
      BY <3>1, <3>2, <3>3 DEF Next
  <2>2. PICK i \in Soonest : /\ timers[i].t <= Sampled
                             /\ timers' = AfterCalling(i)
                             /\ todo' = CallbackOf(timers[i])
    BY <2>1 DEF DueTimer
  <2>3. i \in DOMAIN timers /\ timers[i] \in TimerCalls
    BY <2>2 DEF Soonest, TimerTypes
  <2>4. timers[i].task # NoTask
    BY <2>2 DEF CallbackOf
  <2>5. timers[i].repeat # 0 /\ timers'[i].t = NextTime(timers[i])
    BY <2>2, <2>3, <2>4, SampledIsTime, AfterCallingType DEF TimerTypes
  <2>6. Advances(timers[i], timers'[i])
    BY <2>1, <2>2, <2>3, <2>5, SampledIsTime, NextTimeIsNext DEF Advances, DueTimer
  <2> QED
    BY <2>6
<1> QED
  BY <1>1, TimerTypesInvariant, PTL DEF Spec, RepeatingTimersAdvance

-----------------------------------------------------------------------------
(* The list and the callbacks have their types.                            *)
ListTypes == pollables \in Seq(Pollables) /\ todo \in Seq(Tasks)

(* What Remove() has left of a task: never a timer; no record, unless it   *)
(* had more than one; and no callback to come, unless it was collected by  *)
(* the round that is still being called.                                   *)
LeftOf(p) ==
  /\ gone[p] # "none" => \A i \in DOMAIN timers : timers[i].task # p
  /\ gone[p] \in {"leaving", "gone"} => \A i \in DOMAIN pollables : pollables[i].task # p
  /\ gone[p] = "leaving" => pc = "callbacks"
  /\ gone[p] = "gone" => \A k \in DOMAIN todo : k # 1 => todo[k] # p

(* Several callbacks are only made for handles.                            *)
RoundHasMany == \A k \in DOMAIN todo : k # 1 => pc = "callbacks"

GoneIsGone ==
  /\ gone \in [Tasks -> Removals] /\ RoundHasMany
  /\ \A p \in Tasks : LeftOf(p)

(* Every element of what Without() returns was there before.               *)
LEMMA WithoutElements ==
  ASSUME NEW S, NEW s \in Seq(S), NEW i \in DOMAIN s, NEW k \in DOMAIN Without(s, i)
  PROVE  \E j \in DOMAIN s : j # i /\ Without(s, i)[k] = s[j]
<1>0. k \in Nat /\ 1 <= k /\ k <= Len(s) - 1 /\ i \in 1..Len(s) /\ Len(s) \in Nat
  BY WithoutType
<1> DEFINE before == SubSeq(s, 1, i - 1)
           after  == SubSeq(s, i + 1, Len(s))
<1>1. /\ before \in Seq(S) /\ Len(before) = i - 1
      /\ \A j \in 1..(i - 1) : before[j] = s[j]
  BY <1>0
<1>2. /\ after \in Seq(S) /\ Len(after) = Len(s) - i
      /\ \A j \in 1..(Len(s) - i) : after[j] = s[i + j]
  BY <1>0
<1>3. Without(s, i)[k] = IF k <= i - 1 THEN before[k] ELSE after[k - (i - 1)]
  <2> HIDE DEF before, after
  <2>1. Without(s, i) = before \o after
    BY DEF Without, before, after
  <2> QED
    BY <2>1, <1>0, <1>1, <1>2, ConcatProperties
<1>4. CASE k < i
  BY <1>0, <1>1, <1>3, <1>4
<1>5. CASE k >= i
  <2>1. after[k - (i - 1)] = s[k + 1]
    <3>1. k - (i - 1) \in 1..(Len(s) - i) /\ i + (k - (i - 1)) = k + 1
      BY <1>0, <1>5
    <3> QED
      BY <3>1, <1>2
  <2> QED
    BY <2>1, <1>0, <1>3, <1>5
<1> QED
  BY <1>0, <1>4, <1>5

(* An increasing enumeration of some indexes of a sequence gives a         *)
(* sequence of its elements.                                               *)
LEMMA AscendingElements ==
  ASSUME NEW T, NEW s \in Seq(T), NEW S \in SUBSET DOMAIN s, NEW a \in Ascending(S)
  PROVE  /\ DOMAIN a = 1..Cardinality(S) /\ Cardinality(S) \in Nat
         /\ \A k \in DOMAIN a : a[k] \in DOMAIN s
<1>1. DOMAIN s = 1..Len(s) /\ Len(s) \in Nat
  OBVIOUS
<1>2. IsFiniteSet(1..Len(s))
  BY <1>1, FS_Interval
<1>3. IsFiniteSet(S)
  BY <1>1, <1>2, FS_Subset
<1> QED
  BY <1>3, FS_CardinalityType DEF Ascending

(* Remove() leaves records that were there before, and when a task has one *)
(* record at most, none of that task.                                      *)
LEMMA RemoveFirstRemoves ==
  ASSUME pollables \in Seq(Pollables), NEW p, RemoveFirst(p)
  PROVE  /\ pollables' \in Seq(Pollables)
         /\ \A k \in DOMAIN pollables' : \E j \in DOMAIN pollables : pollables'[k] = pollables[j]
         /\ Cardinality(RecordsOf(p)) <= 1 => \A k \in DOMAIN pollables' : pollables'[k].task # p
<1>1. CASE RecordsOf(p) = {} /\ UNCHANGED pollables
  BY <1>1 DEF RecordsOf
<1>2. CASE \E i \in RecordsOf(p) : pollables' = Without(pollables, i)
  <2>1. PICK i \in RecordsOf(p) : pollables' = Without(pollables, i)
    BY <1>2
  <2>2. i \in DOMAIN pollables
    BY <2>1 DEF RecordsOf
  <2>3. \A k \in DOMAIN pollables' : \E j \in DOMAIN pollables : j # i /\ pollables'[k] = pollables[j]
    BY <2>1, <2>2, WithoutElements
  <2>4. ASSUME Cardinality(RecordsOf(p)) <= 1, NEW k \in DOMAIN pollables'
        PROVE  pollables'[k].task # p
    <3>1. IsFiniteSet(RecordsOf(p))
      <4>1. IsFiniteSet(1..Len(pollables)) /\ RecordsOf(p) \subseteq 1..Len(pollables)
        BY FS_Interval DEF RecordsOf
      <4> QED
        BY <4>1, FS_Subset
    <3>2. Cardinality(RecordsOf(p)) = 1
      <4>1. RecordsOf(p) # {}
        BY <2>1
      <4> QED
        BY <2>4, <3>1, <4>1, FS_CardinalityType, FS_EmptySet
    <3>3. PICK n : RecordsOf(p) = {n}
      BY <3>1, <3>2, FS_Singleton
    <3>4. \A j \in DOMAIN pollables : j # i => pollables[j].task # p
      <4>1. n = i
        BY <2>1, <3>3
      <4> QED
        BY <3>3, <4>1 DEF RecordsOf
    <3> QED
      BY <2>3, <2>4, <3>4
  <2> QED
    BY <2>1, <2>2, <2>3, <2>4, WithoutType
<1> QED
  BY <1>1, <1>2 DEF RemoveFirst

RemoveInv == TimerTypes /\ IInv /\ ListTypes /\ GoneIsGone

(* A timer that stays after another was called is one of before, and has   *)
(* its task.                                                               *)
LEMMA AfterCallingTasks ==
  ASSUME TimerTypes, NEW i \in Soonest, timers[i].t <= Sampled
  PROVE  \A k \in DOMAIN AfterCalling(i) :
           \E j \in DOMAIN timers : AfterCalling(i)[k].task = timers[j].task
<1>1. timers \in Seq(TimerCalls) /\ i \in DOMAIN timers /\ timers[i] \in TimerCalls
  BY DEF TimerTypes, Soonest
<1>2. CASE timers[i].repeat = 0 \/ timers[i].task = NoTask
  BY <1>1, <1>2, WithoutElements DEF AfterCalling
<1>3. CASE timers[i].repeat # 0 /\ timers[i].task # NoTask
  <2>1. [timers[i] EXCEPT !.t = NextTime(timers[i])].task = timers[i].task
    BY <1>1 DEF TimerCalls
  <2> QED
    BY <1>1, <1>3, <2>1 DEF AfterCalling
<1> QED
  BY <1>2, <1>3

LEMMA TimersWithoutRemoves ==
  ASSUME TimerTypes, NEW p \in Tasks
  PROVE  \A k \in DOMAIN TimersWithout(p) :
           /\ k \in DOMAIN timers
           /\ TimersWithout(p)[k].task # p
           /\ TimersWithout(p)[k].task \in {timers[k].task, NoTask}
<1> SUFFICES ASSUME NEW k \in DOMAIN timers
             PROVE  /\ TimersWithout(p)[k].task # p
                    /\ TimersWithout(p)[k].task \in {timers[k].task, NoTask}
  BY DEF TimersWithout
<1>1. timers[k] \in TimerCalls
  BY DEF TimerTypes
<1>2. [timers[k] EXCEPT !.task = NoTask].task = NoTask
  BY <1>1 DEF TimerCalls
<1> QED
  BY <1>2, SchedulerAssumption DEF TimersWithout

(* What DoCallbacks() and DropDone() make of the list, and the callbacks.  *)
LEMMA CollectedLists ==
  ASSUME RemoveInv, DoCallbacks \/ DropDone
  PROVE  /\ ListTypes'
         /\ \A k \in DOMAIN pollables' :
              \E j \in DOMAIN pollables : pollables'[k].task = pollables[j].task
         /\ \A k \in DOMAIN todo' : todo' # todo =>
              \E j \in DOMAIN pollables : todo'[k] = pollables[j].task
<1> USE DEF ListTypes
<1>1. /\ pollables \in Seq(Pollables) /\ todo \in Seq(Tasks)
      /\ \A i \in DOMAIN pollables : pollables[i] \in Pollables
  BY DEF RemoveInv
<1>2. CASE DoCallbacks /\ arrayValid /\ ArrayMatches
  <2>1. PICK hit \in Ascending(revents \ {0}) :
          todo' = [k \in DOMAIN hit |-> pollables[hit[k]].task]
    BY <1>2 DEF DoCallbacks
  <2>2. revents \ {0} \subseteq DOMAIN pollables
    BY <1>2 DEF RemoveInv, IInv, ReportIsInArray, ArrayMatches
  <2>3. /\ DOMAIN hit = 1..Cardinality(revents \ {0}) /\ Cardinality(revents \ {0}) \in Nat
        /\ \A k \in DOMAIN hit : hit[k] \in DOMAIN pollables
    BY <1>1, <2>1, <2>2, AscendingElements
  <2>4. todo' \in Seq(Tasks)
    <3>1. \A i \in DOMAIN pollables : pollables[i].task \in Tasks
      BY <1>1 DEF Pollables
    <3>2. \A k \in 1..Cardinality(revents \ {0}) : pollables[hit[k]].task \in Tasks
      BY <2>3, <3>1
    <3> DEFINE n == Cardinality(revents \ {0})
    <3>3. todo' = [k \in 1..n |-> pollables[hit[k]].task] /\ n \in Nat
      BY <2>1, <2>3
    <3> HIDE DEF n
    <3>4. \A k \in 1..n : pollables[hit[k]].task \in Tasks
      BY <3>2 DEF n
    <3> QED
      BY <3>3, <3>4
  <2>5. pollables' = [i \in DOMAIN pollables |-> Marked(pollables[i], i \in revents)]
    BY <1>2 DEF DoCallbacks
  <2>6. \A i \in DOMAIN pollables :
          /\ Marked(pollables[i], i \in revents) \in Pollables
          /\ Marked(pollables[i], i \in revents).task = pollables[i].task
    BY <1>1 DEF Marked, Pollables
  <2>7. pollables' \in Seq(Pollables)
    BY <1>1, <2>5, <2>6
  <2>8. \A k \in DOMAIN pollables' :
          k \in DOMAIN pollables /\ pollables'[k].task = pollables[k].task
    BY <2>5, <2>6
  <2>9. \A k \in DOMAIN todo' :
          hit[k] \in DOMAIN pollables /\ todo'[k] = pollables[hit[k]].task
    BY <2>1, <2>3
  <2> QED
    BY <2>4, <2>7, <2>8, <2>9
<1>3. CASE DoCallbacks /\ ~(arrayValid /\ ArrayMatches)
  BY <1>1, <1>3 DEF DoCallbacks
<1>4. CASE DropDone /\ Kept = DOMAIN pollables
  BY <1>1, <1>4 DEF DropDone
<1>5. CASE DropDone /\ Kept # DOMAIN pollables
  <2>1. PICK kept \in Ascending(Kept) :
          pollables' = [k \in DOMAIN kept |-> pollables[kept[k]]]
    BY <1>5 DEF DropDone
  <2>2. /\ DOMAIN kept = 1..Cardinality(Kept) /\ Cardinality(Kept) \in Nat
        /\ \A k \in DOMAIN kept : kept[k] \in DOMAIN pollables
    <3>1. Kept \subseteq DOMAIN pollables
      BY DEF Kept
    <3> QED
      BY <1>1, <2>1, <3>1, AscendingElements
  <2>3. UNCHANGED todo
    BY <1>5 DEF DropDone
  <2> QED
    BY <1>1, <2>1, <2>2, <2>3
<1> QED
  BY <1>2, <1>3, <1>4, <1>5

(* Every step keeps the types of the list and of the callbacks, and what is*)
(* known of the tasks that were removed.                                   *)
LEMMA GoneStep ==
  ASSUME RemoveInv, [Next]_vars
  PROVE  ListTypes' /\ GoneIsGone'
<1> DEFINE Same == UNCHANGED <<pollables, timers, todo, gone>> /\ (pc = "callbacks" => pc' = "callbacks")
           Goal == ListTypes' /\ GoneIsGone'
<1>1. ASSUME Same PROVE Goal
  BY <1>1 DEF RemoveInv, ListTypes, GoneIsGone, LeftOf, RoundHasMany
<1>2. ASSUME NEW w \in Waits, NEW oneshot \in BOOLEAN, WaitForReadable(w[1], w[2], oneshot)
      PROVE  Goal
  <2> DEFINE r == [task |-> w[1], h |-> w[2], oneshot |-> oneshot, live |-> TRUE]
  <2>1. r \in Pollables /\ r.task = w[1] /\ w[1] \in Tasks
    BY SchedulerAssumption DEF Pollables
  <2> HIDE DEF r
  <2>2. /\ pollables' = Append(pollables, r) /\ gone' = [gone EXCEPT ![w[1]] = "none"]
        /\ UNCHANGED <<timers, todo, pc>>
    BY <1>2 DEF WaitForReadable, pollerVars, r
  <2>3. /\ pollables' \in Seq(Pollables) /\ Len(pollables') = Len(pollables) + 1
        /\ \A i \in 1..Len(pollables) : pollables'[i] = pollables[i]
        /\ pollables'[Len(pollables) + 1] = r
    BY <2>1, <2>2, AppendProperties DEF RemoveInv, ListTypes
  <2>4. \A i \in DOMAIN pollables' :
          pollables'[i] = r \/ (i \in DOMAIN pollables /\ pollables'[i] = pollables[i])
    BY <2>3 DEF RemoveInv, ListTypes
  <2>5. gone' \in [Tasks -> Removals] /\ gone'[w[1]] = "none" /\ \A p \in Tasks \ {w[1]} : gone'[p] = gone[p]
    BY <2>1, <2>2 DEF RemoveInv, GoneIsGone, Removals
  <2>6. \A p \in Tasks : LeftOf(p)'
    BY <2>1, <2>2, <2>4, <2>5 DEF RemoveInv, GoneIsGone, LeftOf
  <2> QED
    BY <2>2, <2>3, <2>5, <2>6 DEF RemoveInv, ListTypes, GoneIsGone, RoundHasMany
<1>3. ASSUME NEW x \in Timers, Wait(x) PROVE Goal
  <2>1. /\ timers' = Append(timers, x) /\ gone' = [gone EXCEPT ![x.task] = "none"]
        /\ UNCHANGED <<pollables, todo, pc>> /\ x.task \in Tasks
    BY <1>3, SchedulerAssumption DEF Wait, pollerVars
  <2>2. \A i \in DOMAIN timers' :
          timers'[i] = x \/ (i \in DOMAIN timers /\ timers'[i] = timers[i])
    BY <2>1 DEF RemoveInv, TimerTypes
  <2>3. gone' \in [Tasks -> Removals] /\ gone'[x.task] = "none" /\ \A p \in Tasks \ {x.task} : gone'[p] = gone[p]
    BY <2>1 DEF RemoveInv, GoneIsGone, Removals
  <2>4. \A p \in Tasks : LeftOf(p)'
    BY <2>1, <2>2, <2>3 DEF RemoveInv, GoneIsGone, LeftOf
  <2> QED
    BY <2>1, <2>3, <2>4 DEF RemoveInv, ListTypes, GoneIsGone, RoundHasMany
<1>4. ASSUME NEW p \in Tasks, Remove(p) PROVE Goal
  <2>1. /\ RemoveFirst(p) /\ timers' = TimersWithout(p)
        /\ gone' = [gone EXCEPT ![p] = Removal(p)] /\ UNCHANGED <<todo, pc>>
    BY <1>4 DEF Remove, pollerVars
  <2>2. /\ pollables' \in Seq(Pollables)
        /\ \A k \in DOMAIN pollables' : \E j \in DOMAIN pollables : pollables'[k] = pollables[j]
        /\ Cardinality(RecordsOf(p)) <= 1 => \A k \in DOMAIN pollables' : pollables'[k].task # p
    BY <2>1, RemoveFirstRemoves DEF RemoveInv, ListTypes
  <2>3. \A k \in DOMAIN timers' :
          /\ k \in DOMAIN timers /\ timers'[k].task # p
          /\ timers'[k].task \in {timers[k].task, NoTask}
    BY <2>1, TimersWithoutRemoves DEF RemoveInv
  <2>4. gone' \in [Tasks -> Removals] /\ gone'[p] = Removal(p) /\ \A q \in Tasks \ {p} : gone'[q] = gone[q]
    BY <2>1 DEF RemoveInv, GoneIsGone, Removals, Removal
  <2>5. LeftOf(p)'
    <3>1. \A k \in DOMAIN timers' : timers'[k].task # p
      BY <2>3
    <3>2. gone'[p] \in {"leaving", "gone"} => \A k \in DOMAIN pollables' : pollables'[k].task # p
      <4>1. Cardinality(RecordsOf(p)) \in Nat
        <5>1. IsFiniteSet(1..Len(pollables)) /\ RecordsOf(p) \subseteq 1..Len(pollables)
          BY FS_Interval DEF RecordsOf, RemoveInv, ListTypes
        <5> QED
          BY <5>1, FS_Subset, FS_CardinalityType
      <4> QED
        BY <2>2, <2>4, <4>1 DEF Removal
    <3>3. gone'[p] = "leaving" => pc = "callbacks"
      BY <2>4 DEF Removal, Collected, RemoveInv, GoneIsGone, RoundHasMany, ListTypes
    <3>4. gone'[p] = "gone" => \A k \in DOMAIN todo : k # 1 => todo[k] # p
      BY <2>4 DEF Removal, Collected, RemoveInv, ListTypes
    <3> QED
      BY <2>1, <3>1, <3>2, <3>3, <3>4 DEF LeftOf
  <2>6. ASSUME NEW q \in Tasks \ {p} PROVE LeftOf(q)'
    <3>1. LeftOf(q) /\ q # NoTask /\ gone'[q] = gone[q]
      BY <2>4, <2>6, SchedulerAssumption DEF RemoveInv, GoneIsGone
    <3> QED
      BY <2>1, <2>2, <2>3, <3>1 DEF LeftOf
  <2> QED
    BY <2>1, <2>2, <2>4, <2>5, <2>6 DEF RemoveInv, ListTypes, GoneIsGone, RoundHasMany
<1>5. ASSUME EndShutdown PROVE Goal
  <2>1. pollables' = <<>> /\ timers' = <<>> /\ UNCHANGED <<todo, gone, pc>>
    BY <1>5 DEF EndShutdown, pollerVars
  <2> QED
    BY <2>1 DEF RemoveInv, ListTypes, GoneIsGone, LeftOf, RoundHasMany
<1>6. ASSUME DueTimer PROVE Goal
  <2>1. PICK i \in Soonest : /\ timers[i].t <= Sampled
                             /\ timers' = AfterCalling(i)
                             /\ todo' = CallbackOf(timers[i])
    BY <1>6 DEF DueTimer
  <2>2. timers[i] \in TimerCalls
    BY <2>1 DEF RemoveInv, TimerTypes, Soonest
  <2>3. todo' \in Seq(Tasks) /\ \A k \in DOMAIN todo' : k = 1
    BY <2>1, <2>2 DEF CallbackOf, TimerCalls
  <2>4. \A k \in DOMAIN timers' : \E j \in DOMAIN timers : timers'[k].task = timers[j].task
    BY <2>1, AfterCallingTasks DEF RemoveInv
  <2>5. UNCHANGED <<pollables, gone, pc>>
    BY <1>6 DEF DueTimer
  <2> QED
    BY <2>3, <2>4, <2>5 DEF RemoveInv, ListTypes, GoneIsGone, LeftOf, RoundHasMany
<1>7. ASSUME DoCallbacks PROVE Goal
  <2>1. UNCHANGED <<timers, gone>> /\ pc = "collect" /\ (pc' # "callbacks" => todo' = todo)
    BY <1>7 DEF DoCallbacks
  <2>2. /\ ListTypes'
        /\ \A k \in DOMAIN pollables' :
             \E j \in DOMAIN pollables : pollables'[k].task = pollables[j].task
        /\ \A k \in DOMAIN todo' : todo' # todo =>
             \E j \in DOMAIN pollables : todo'[k] = pollables[j].task
    BY <1>7, CollectedLists
  <2>3. RoundHasMany'
    BY <2>1 DEF RemoveInv, GoneIsGone, RoundHasMany
  <2>4. ASSUME NEW p \in Tasks PROVE LeftOf(p)'
    <3>1. LeftOf(p)
      BY DEF RemoveInv, GoneIsGone
    <3> QED
      BY <2>1, <2>2, <3>1 DEF LeftOf
  <2> QED
    BY <2>1, <2>2, <2>3, <2>4 DEF RemoveInv, GoneIsGone
<1>8. ASSUME DropDone PROVE Goal
  <2>1. /\ UNCHANGED <<timers, todo>> /\ todo = <<>>
        /\ gone' = [p \in Tasks |-> IF gone[p] = "leaving" THEN "gone" ELSE gone[p]]
    BY <1>8 DEF DropDone
  <2>2. /\ ListTypes'
        /\ \A k \in DOMAIN pollables' :
             \E j \in DOMAIN pollables : pollables'[k].task = pollables[j].task
    BY <1>8, CollectedLists
  <2>3. gone' \in [Tasks -> Removals]
    BY <2>1 DEF RemoveInv, GoneIsGone, Removals
  <2>4. ASSUME NEW p \in Tasks PROVE LeftOf(p)'
    <3>1. LeftOf(p) /\ gone'[p] # "leaving" /\ (gone[p] = "none" <=> gone'[p] = "none")
          /\ (gone'[p] = "gone" => gone[p] \in {"leaving", "gone"})
      BY <2>1 DEF RemoveInv, GoneIsGone
    <3> QED
      BY <2>1, <2>2, <3>1 DEF LeftOf
  <2> QED
    BY <2>1, <2>2, <2>3, <2>4 DEF GoneIsGone, RoundHasMany
<1>9. ASSUME CallbackReturns PROVE Goal
  <2>1. todo' = Tail(todo) /\ todo # <<>> /\ UNCHANGED <<pollables, timers, gone, pc>>
    BY <1>9 DEF CallbackReturns, InCallback, listVars
  <2>2. /\ todo' \in Seq(Tasks)
        /\ \A k \in DOMAIN todo' : k + 1 \in DOMAIN todo /\ k + 1 # 1 /\ todo'[k] = todo[k + 1]
    BY <2>1 DEF RemoveInv, ListTypes
  <2> QED
    BY <2>1, <2>2 DEF RemoveInv, ListTypes, GoneIsGone, LeftOf, RoundHasMany
<1>10. ASSUME Wake \/ BeginShutdown PROVE Same
  BY <1>10 DEF Wake, BeginShutdown, listVars, pollerVars
<1>11. ASSUME CheckExiting \/ SetUp \/ CorePoll \/ Interrupted \/ NoMoreTimers PROVE Same
  BY <1>11 DEF CheckExiting, SetUp, CorePoll, Interrupted, AfterPoll, NoMoreTimers, listVars
<1>12. ASSUME (\E h \in Handles : Arrive(h) \/ ReadAll(h)) \/ Tick PROVE Same
  BY <1>12 DEF Arrive, ReadAll, Tick, listVars, pollerVars
<1>13. ASSUME UNCHANGED vars PROVE Same
  BY <1>13 DEF vars, listVars, pollerVars
<1> HIDE DEF Same, Goal
<1>14. ASSUME Client PROVE Goal
  BY <1>14, <1>1, <1>2, <1>3, <1>4, <1>5, <1>10 DEF Client
<1>15. ASSUME Poller PROVE Goal
  BY <1>15, <1>1, <1>6, <1>7, <1>8, <1>9, <1>11 DEF Poller
<1>16. ASSUME World PROVE Goal
  BY <1>16, <1>1, <1>11, <1>12 DEF World
<1>17. Goal
  BY <1>1, <1>13, <1>14, <1>15, <1>16 DEF Next
<1> QED
  BY <1>17 DEF Goal

(* Whatever threads and callbacks call, and however many handles a task    *)
(* waits for: no timer of a task that was removed and has not waited since *)
(* is called, and nothing else of it either, once it was removed as often  *)
(* as it had records and the round that may have collected it is over.     *)
THEOREM RemoveKeepsItsPromise == Spec => RemovedStayRemoved
<1> DEFINE Clean == ListTypes /\ GoneIsGone
           MayStart(p) == /\ gone[p] # "gone"
                          /\ gone[p] = "leaving" => pc = "callbacks"
                          /\ gone[p] = "partly" => pc # "timers"
<1>1. Init => Clean
  BY DEF Init, ListTypes, GoneIsGone, LeftOf, RoundHasMany, Removals
<1>2. TimerTypes /\ IInv /\ Clean /\ [Next]_vars => Clean'
  BY GoneStep DEF RemoveInv
<1>3. TimerTypes /\ IInv /\ Clean /\ [Next]_vars =>
        [\A p \in Tasks : Starts(p) => MayStart(p)]_vars
  <2> SUFFICES ASSUME RemoveInv, Next, NEW p \in Tasks, todo' # todo, todo' # <<>>, Head(todo') = p
               PROVE  MayStart(p)
    BY DEF RemoveInv, Starts
  <2>1. todo' \in Seq(Tasks)
    BY GoneStep DEF ListTypes
  <2>2. 1 \in DOMAIN todo' /\ todo'[1] = p
    BY <2>1
  <2>3. gone[p] \in Removals /\ LeftOf(p)
    BY DEF RemoveInv, GoneIsGone
  <2>4. CASE CallbackReturns
    <3>1. todo' = Tail(todo) /\ todo \in Seq(Tasks) /\ todo # <<>>
      BY <2>4 DEF CallbackReturns, InCallback, RemoveInv, ListTypes
    <3>2. 2 \in DOMAIN todo /\ todo[2] = p
      BY <3>1, <2>2
    <3>3. pc = "callbacks"
      BY <3>2 DEF RemoveInv, GoneIsGone, RoundHasMany
    <3> QED
      BY <2>3, <3>2, <3>3 DEF LeftOf
  <2>5. CASE DoCallbacks \/ DropDone
    <3>1. PICK j \in DOMAIN pollables : p = pollables[j].task
      BY <2>2, <2>5, CollectedLists
    <3>2. pc # "timers"
      BY <2>5 DEF DoCallbacks, DropDone
    <3> QED
      BY <2>3, <3>1, <3>2 DEF LeftOf
  <2>6. CASE DueTimer
    <3>1. PICK i \in DOMAIN timers : todo' = CallbackOf(timers[i])
      BY <2>6 DEF DueTimer, Soonest
    <3>2. todo' = <<timers[i].task>>
      BY <3>1 DEF CallbackOf
    <3>3. gone[p] = "none"
      BY <2>2, <2>3, <3>2 DEF LeftOf
    <3> QED
      BY <3>3
  <2>7. ASSUME Client PROVE FALSE
    BY <2>7 DEF Client, WaitForReadable, Wait, Remove, Wake, BeginShutdown, EndShutdown,
                pollerVars
  <2>8. ASSUME World PROVE FALSE
    BY <2>8 DEF World, Arrive, ReadAll, Tick, Interrupted, AfterPoll, pollerVars
  <2>9. CASE Poller
    BY <2>4, <2>5, <2>6, <2>9
    DEF Poller, CheckExiting, SetUp, CorePoll, AfterPoll, NoMoreTimers
  <2> QED
    BY <2>7, <2>8, <2>9 DEF Next
<1> HIDE DEF Clean
<1> QED
  BY <1>1, <1>2, <1>3, ArrayInvariant, TimerTypesInvariant, PTL DEF Spec, RemovedStayRemoved

(* What Poll() and DoCallbacks() assert holds for any tasks, handles and   *)
(* timers, and any calls between their steps.                              *)
THEOREM PollAssertionsAlwaysHold == Spec => PollAssertionsHold
  BY AssertionsHoldUntilShutdown, RepeatingTimersKeepTime, PTL DEF PollAssertionsHold
=============================================================================
