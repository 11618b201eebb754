------------------------- MODULE BackgroundScheduler -------------------------
(***************************************************************************)
(* util::BackgroundScheduler (src/libutil/scheduler.cpp) over poll()       *)
(* (src/libutil/poll_posix.cpp): tasks wait for a handle or for a time,    *)
(* and one thread, running SchedulerTask, polls and calls them back.       *)
(*                                                                         *)
(* Every client call takes the recursive lock, and so does the poller      *)
(* except while it sleeps in poll().  Callbacks run under the lock: a call *)
(* made during one comes from that callback, any other call from another   *)
(* thread.  A task stands for its one callback.  Time is whole units.      *)
(***************************************************************************)
EXTENDS Integers, Sequences, FiniteSets

CONSTANTS
  Tasks, NoTask,   (* NoTask is the callback of a timer that was removed   *)
  Handles,
  Waits,           (* the tasks and handles clients call WaitForReadable()*)
                   (* with                                                 *)
  Timers,          (* what clients call Wait() with                        *)
  MaxTime,         (* bound on the clock                                   *)
  MaxCalls         (* bound on the calls of clients                        *)

ASSUME SchedulerAssumption ==
  /\ NoTask \notin Tasks
  /\ MaxTime \in Nat /\ MaxCalls \in Nat
  /\ Waits \subseteq Tasks \X Handles
  /\ Timers \subseteq [t : Nat, repeat : Nat, task : Tasks]

VARIABLES
  pollables,  (* m_pollables; live is direction # 0                        *)
  timers,     (* m_timers, in no order: any soonest one is in front        *)
  arrayValid, (* m_array_valid                                             *)
  exiting,    (* m_exiting                                                 *)
  cleared,    (* Shutdown() has emptied the lists                          *)
  array,      (* the handles of m_array, after the waker in m_array[0]     *)
  revents,    (* the entries of m_array that poll() has reported, until the*)
              (* callbacks are made; 0 is the waker                        *)
  pipe,       (* there is something in the waker's pipe                    *)
  ready,      (* the handles that can be read                              *)
  now,        (* gettimeofday()                                            *)
  pc,         (* where the poller is                                       *)
  deadline,   (* when poll() will time out, or Never                      *)
  nowms,      (* the time the timers are compared with, or Never           *)
  todo,       (* the callbacks being made; the first one is running        *)
  gone,       (* history: what the last Remove of a task that has not      *)
              (* waited since has come to                                  *)
  calls       (* history: how many calls clients have made                 *)

listVars   == <<pollables, timers, arrayValid>>
exitVars   == <<exiting, cleared>>
coreVars   == <<array, revents>>
worldVars  == <<ready, now>>
pollerVars == <<pc, deadline, nowms, todo>>
vars == <<listVars, exitVars, coreVars, pipe, worldVars, pollerVars, gone, calls>>

Never == -1

TimerCalls == [t : Nat, repeat : Nat, task : Tasks \cup {NoTask}]

(* Remove leaves a second record, or a callback that the round has already *)
(* collected, or nothing.                                                  *)
Removals == {"none", "partly", "leaving", "gone"}

Pollables == [task : Tasks, h : Handles, oneshot : BOOLEAN, live : BOOLEAN]

TypeOK ==
  /\ pollables \in Seq(Pollables)
  /\ timers \in Seq(TimerCalls)
  /\ arrayValid \in BOOLEAN /\ exiting \in BOOLEAN /\ cleared \in BOOLEAN
  /\ array \in Seq(Handles)
  /\ revents \subseteq 0..Len(array)
  /\ pipe \in BOOLEAN
  /\ ready \subseteq Handles
  /\ now \in 0..MaxTime
  /\ pc \in {"loop", "setup", "poll", "timers", "collect", "callbacks", "done", "aborted"}
  /\ deadline \in Nat \cup {Never}
  /\ nowms \in 0..MaxTime \cup {Never}
  /\ todo \in Seq(Tasks)
  /\ gone \in [Tasks -> Removals]
  /\ calls \in 0..MaxCalls

Init ==
  /\ pollables = <<>> /\ timers = <<>>
  /\ arrayValid = FALSE /\ exiting = FALSE /\ cleared = FALSE
  /\ array = <<>> /\ revents = {} /\ pipe = FALSE
  /\ ready = {} /\ now = 0
  /\ pc = "loop" /\ deadline = Never /\ nowms = Never /\ todo = <<>>
  /\ gone = [p \in Tasks |-> "none"] /\ calls = 0

-----------------------------------------------------------------------------
(* The calls of clients, on their own threads or in callbacks. *)

(* Mutant: nothing is written into the pipe. *)
WakeCore_Silent == UNCHANGED pipe

WakeCore == pipe' = TRUE

LockFree   == todo = <<>> /\ pc # "callbacks"
InCallback == todo # <<>>

Call == /\ LockFree \/ InCallback
        /\ calls < MaxCalls
        /\ calls' = calls + 1

(* The code asserts that nothing else waits for the handle. *)
WaitForReadable(p, h, oneshot) ==
  /\ Call
  /\ ~exiting
  /\ \A i \in DOMAIN pollables : pollables[i].live => pollables[i].h # h
  /\ pollables' = Append(pollables,
                         [task |-> p, h |-> h, oneshot |-> oneshot, live |-> TRUE])
  /\ arrayValid' = FALSE
  /\ WakeCore
  /\ gone' = [gone EXCEPT ![p] = "none"]
  /\ UNCHANGED <<timers, exitVars, coreVars, worldVars, pollerVars>>

Wait(x) ==
  /\ Call
  /\ ~exiting
  /\ timers' = Append(timers, x)
  /\ WakeCore
  /\ gone' = [gone EXCEPT ![x.task] = "none"]
  /\ UNCHANGED <<pollables, arrayValid, exitVars, coreVars, worldVars, pollerVars>>

(* Remove() finds the first record of a task only, and it does not know    *)
(* the callbacks DoCallbacks() has already copied.                         *)
RecordsOf(p) == {i \in DOMAIN pollables : pollables[i].task = p}

Collected(p) == \E i \in 2..Len(todo) : todo[i] = p

Removal(p) == IF Cardinality(RecordsOf(p)) > 1 THEN "partly"
              ELSE IF Collected(p) THEN "leaving" ELSE "gone"

Without(s, i) == SubSeq(s, 1, i - 1) \o SubSeq(s, i + 1, Len(s))

RemoveFirst(p) ==
  \/ RecordsOf(p) = {} /\ UNCHANGED pollables
  \/ \E i \in RecordsOf(p) :
       /\ \A j \in RecordsOf(p) : i <= j
       /\ pollables' = Without(pollables, i)

(* Mutant: the timers of a task keep its callback. *)
TimersWithout_Kept(p) == timers

TimersWithout(p) ==
  [i \in DOMAIN timers |->
     IF timers[i].task = p THEN [timers[i] EXCEPT !.task = NoTask] ELSE timers[i]]

(* m_exiting is looked at before the lock is taken: a call that got past   *)
(* the check may still find that it is set.  One that did not does nothing.*)
Remove(p) ==
  /\ Call
  /\ timers' = TimersWithout(p)
  /\ RemoveFirst(p)
  /\ arrayValid' = FALSE
  /\ WakeCore
  /\ gone' = [gone EXCEPT ![p] = Removal(p)]
  /\ UNCHANGED <<exitVars, coreVars, worldVars, pollerVars>>

Wake ==
  /\ calls < MaxCalls /\ calls' = calls + 1
  /\ ~pipe
  /\ WakeCore
  /\ UNCHANGED <<listVars, exitVars, coreVars, worldVars, pollerVars, gone>>

(* Shutdown() sets m_exiting first and only then takes the lock. *)
BeginShutdown ==
  /\ ~exiting
  /\ exiting' = TRUE
  /\ UNCHANGED <<listVars, cleared, coreVars, pipe, worldVars, pollerVars, gone, calls>>

EndShutdown ==
  /\ exiting /\ ~cleared
  /\ LockFree
  /\ cleared' = TRUE
  /\ WakeCore
  /\ timers' = <<>> /\ pollables' = <<>>
  /\ UNCHANGED <<arrayValid, exiting, coreVars, worldVars, pollerVars, gone, calls>>

-----------------------------------------------------------------------------
(* SchedulerTask::Run() and BackgroundScheduler::Poll(). *)

CheckExiting ==
  /\ pc = "loop"
  /\ pc' = IF exiting THEN "done" ELSE "setup"
  /\ UNCHANGED <<listVars, exitVars, coreVars, pipe, worldVars, deadline, nowms, todo, gone, calls>>

Soonest == {i \in DOMAIN timers : \A j \in DOMAIN timers : timers[i].t <= timers[j].t}

Deadline == IF timers = <<>> THEN Never ELSE timers[CHOOSE i \in Soonest : TRUE].t

SetUp ==
  /\ pc = "setup"
  /\ IF arrayValid
     THEN UNCHANGED coreVars
     ELSE /\ array' = [i \in DOMAIN pollables |-> pollables[i].h]
          /\ revents' = {}
  /\ arrayValid' = TRUE
  /\ deadline' = Deadline
  /\ pc' = "poll"
  /\ UNCHANGED <<pollables, timers, exitVars, pipe, worldVars, nowms, todo, gone, calls>>

Signalled == {i \in DOMAIN array : array[i] \in ready} \cup (IF pipe THEN {0} ELSE {})

AfterPoll ==
  /\ pc = "poll"
  /\ pc' = IF exiting THEN "loop" ELSE "timers"
  /\ deadline' = Never
  /\ UNCHANGED <<listVars, exitVars, array, pipe, worldVars, nowms, todo, gone, calls>>

CorePoll ==
  /\ Signalled # {} \/ (deadline # Never /\ deadline <= now)
  /\ revents' = Signalled
  /\ AfterPoll

(* poll() finds nothing and is interrupted, or times out early: Poll()     *)
(* never sleeps longer than ten minutes while there are timers.            *)
Interrupted ==
  /\ Signalled = {}
  /\ revents' = {}
  /\ AfterPoll

(* The time is taken once, when the loop first finds a timer. *)
Sampled == IF nowms = Never THEN now ELSE nowms

(* Mutant: the last time of the timer that is not later than now. *)
NextTime_Past(x) ==
  IF x.t = 0 THEN Sampled + x.repeat
  ELSE x.t + ((Sampled - x.t) \div x.repeat) * x.repeat

NextTime(x) ==
  IF x.t = 0 THEN Sampled + x.repeat
  ELSE x.t + ((Sampled + x.repeat - x.t) \div x.repeat) * x.repeat

AfterCalling(i) ==
  IF timers[i].repeat = 0 \/ timers[i].task = NoTask THEN Without(timers, i)
  ELSE [timers EXCEPT ![i].t = NextTime(timers[i])]

CallbackOf(x) == IF x.task = NoTask THEN <<>> ELSE <<x.task>>

DueTimer ==
  /\ pc = "timers" /\ todo = <<>>
  /\ \E i \in Soonest :
       /\ timers[i].t <= Sampled
       /\ timers' = AfterCalling(i)
       /\ todo' = CallbackOf(timers[i])
  /\ nowms' = Sampled
  /\ UNCHANGED <<pollables, arrayValid, exitVars, coreVars, pipe, worldVars, pc, deadline, gone, calls>>

NoMoreTimers ==
  /\ pc = "timers" /\ todo = <<>>
  /\ \A i \in DOMAIN timers : timers[i].t > Sampled
  /\ nowms' = Never
  /\ pc' = "collect"
  /\ UNCHANGED <<listVars, exitVars, coreVars, pipe, worldVars, deadline, todo, gone, calls>>

(* The assertions of DoCallbacks(): m_array still matches the list. *)
ArrayMatches ==
  /\ DOMAIN pollables = DOMAIN array
  /\ \A i \in revents \ {0} : pollables[i].h = array[i]

(* The elements of a set of indexes, in order. *)
Ascending(S) ==
  {s \in [1..Cardinality(S) -> S] : \A j, k \in DOMAIN s : j < k => s[j] < s[k]}

(* What is to be called once is marked for deletion. *)
Marked(record, called) ==
  [task |-> record.task, h |-> record.h, oneshot |-> record.oneshot,
   live |-> record.live /\ ~(called /\ record.oneshot)]

DoCallbacks ==
  /\ pc = "collect"
  /\ IF arrayValid => ArrayMatches THEN pc' = "callbacks" ELSE pc' = "aborted"
  /\ IF arrayValid /\ ArrayMatches
     THEN /\ pipe' = (pipe /\ 0 \notin revents)
          /\ pollables' = [i \in DOMAIN pollables |-> Marked(pollables[i], i \in revents)]
          /\ \E hit \in Ascending(revents \ {0}) :
               todo' = [k \in DOMAIN hit |-> pollables[hit[k]].task]
     ELSE UNCHANGED <<pipe, pollables, todo>>
  /\ revents' = {}
  /\ UNCHANGED <<timers, arrayValid, exitVars, array, worldVars, deadline, nowms, gone, calls>>

(* The running callback returns, and the next one starts. *)
CallbackReturns ==
  /\ InCallback
  /\ todo' = Tail(todo)
  /\ UNCHANGED <<listVars, exitVars, coreVars, pipe, worldVars, pc, deadline, nowms, gone, calls>>

(* Mutant: what is called once is dropped, called or not. *)
Live_Persistent(record) == ~record.oneshot

Live(record) == record.live

Kept == {i \in DOMAIN pollables : Live(pollables[i])}

DropDone ==
  /\ pc = "callbacks" /\ todo = <<>>
  /\ IF Kept = DOMAIN pollables
     THEN UNCHANGED <<pollables, arrayValid>>
     ELSE /\ \E kept \in Ascending(Kept) :
               pollables' = [k \in DOMAIN kept |-> pollables[kept[k]]]
          /\ arrayValid' = FALSE
  /\ pc' = "loop"
  /\ gone' = [p \in Tasks |-> IF gone[p] = "leaving" THEN "gone" ELSE gone[p]]
  /\ UNCHANGED <<timers, exitVars, coreVars, pipe, worldVars, deadline, nowms, todo, calls>>

-----------------------------------------------------------------------------
(* The world: data arrives, a callback reads it, and time passes. *)
Arrive(h) ==
  /\ h \notin ready /\ ready' = ready \cup {h}
  /\ UNCHANGED <<listVars, exitVars, coreVars, pipe, now, pollerVars, gone, calls>>

ReadAll(h) ==
  /\ InCallback
  /\ h \in ready /\ ready' = ready \ {h}
  /\ UNCHANGED <<listVars, exitVars, coreVars, pipe, now, pollerVars, gone, calls>>

Tick ==
  /\ now < MaxTime /\ now' = now + 1
  /\ UNCHANGED <<listVars, exitVars, coreVars, pipe, ready, pollerVars, gone, calls>>

Poller == \/ CheckExiting \/ SetUp \/ CorePoll
          \/ DueTimer \/ NoMoreTimers \/ DoCallbacks \/ CallbackReturns \/ DropDone

Client == \/ \E w \in Waits, oneshot \in BOOLEAN : WaitForReadable(w[1], w[2], oneshot)
          \/ \E x \in Timers : Wait(x)
          \/ \E p \in Tasks : Remove(p)
          \/ Wake \/ BeginShutdown \/ EndShutdown

World == \/ \E h \in Handles : Arrive(h) \/ ReadAll(h)
         \/ Tick \/ Interrupted

Next == Poller \/ Client \/ World

Spec == Init /\ [][Next]_vars

(* The poller's thread runs, and so do callbacks; a thread that has begun  *)
(* Shutdown() ends it.  Nothing makes poll() return without a reason.      *)
FairSpec == Spec /\ WF_vars(Poller) /\ WF_vars(EndShutdown) /\ WF_vars(Tick)

-----------------------------------------------------------------------------
(* The assertions of DoCallbacks() (poll_posix.cpp) hold until Shutdown()  *)
(* empties the list, whatever is called between the moment the array is    *)
(* built from the list and the moment the two are compared.                *)
AbortsOnlyInShutdown == pc = "aborted" => cleared

(* "Once this function returns, no new timers or poll callbacks will be    *)
(* started for this task" (scheduler.h, Remove()), unless it waits again:  *)
(* no timer is, whatever Remove() finds, and once a task is removed as     *)
(* often as it has records nothing is, from the end of the callbacks that  *)
(* are being made, which may be collected already.                         *)
Starts(p) == todo' # todo /\ todo' # <<>> /\ Head(todo') = p

RemovedStayRemoved ==
  [][\A p \in Tasks : Starts(p) =>
       /\ gone[p] # "gone"
       /\ gone[p] = "leaving" => pc = "callbacks"
       /\ gone[p] = "partly" => pc # "timers"]_vars

(* The waits of a task and the callbacks it is about to get.               *)
TimersOf(p) == {i \in DOMAIN timers : timers[i].task = p}

Outstanding(p) == Cardinality({i \in RecordsOf(p) : pollables[i].live})
                  + Cardinality(TimersOf(p))
                  + Cardinality({k \in DOMAIN todo : todo[k] = p})

Repeating(p) == \/ \E i \in RecordsOf(p) : ~pollables[i].oneshot
                \/ \E i \in TimersOf(p) : timers[i].repeat # 0

(* A wait ends in its callback and in nothing else, except a Remove() or   *)
(* the Shutdown(), and one that does not repeat ends in one callback only. *)
WaitsAreConserved ==
  [][\A p \in Tasks :
       /\ Outstanding(p)' < Outstanding(p) =>
            \/ calls' > calls /\ gone'[p] # "none"
            \/ cleared'
            \/ todo # <<>> /\ Head(todo) = p /\ Outstanding(p)' = Outstanding(p) - 1
       /\ Outstanding(p)' > Outstanding(p) => calls' > calls \/ Repeating(p)]_vars

(* A repeating timer that is called moves to the first of its times that   *)
(* is later than the time this Poll() compares with, so that it "is called *)
(* at most once per invocation of Poll()" and keeps its rhythm.            *)
Advances(x, y) == /\ nowms' < y.t /\ y.t <= nowms' + x.repeat
                  /\ x.t = 0 \/ (y.t - x.t) % x.repeat = 0

RepeatingTimersAdvance ==
  [][pc = "timers" /\ todo = <<>> /\ todo' # <<>> /\ Len(timers') = Len(timers) =>
       \E i \in Soonest : Advances(timers[i], timers'[i])]_vars

Running(p) == todo # <<>> /\ Head(todo) = p

(* What Poll() and DoCallbacks() assert.                                   *)
PollAssertionsHold == []AbortsOnlyInShutdown /\ RepeatingTimersAdvance

(* A task that waits for a handle with something to read is called back,   *)
(* even if it began to wait while the poller was going to sleep.           *)
CanRead(p) == \E i \in RecordsOf(p) : pollables[i].live /\ pollables[i].h \in ready

WaitersAreCalled ==
  \A p \in Tasks : CanRead(p) ~> (~CanRead(p) \/ Running(p) \/ exiting)

(* A task whose time has come is called back, even if the timer is new and *)
(* sooner than what the poller sleeps for.                                 *)
IsDue(p) == \E i \in TimersOf(p) : timers[i].t <= now

TimersAreCalled ==
  \A p \in Tasks : IsDue(p) ~> (~IsDue(p) \/ Running(p) \/ exiting)

(* Shutdown() ends the poller's thread, wherever it is.                    *)
ShutdownEndsPoller == exiting ~> pc \in {"done", "aborted"}

(* No wake-up is lost, whoever asks for it and wherever the poller is.     *)
NobodyIsForgotten == WaitersAreCalled /\ TimersAreCalled /\ ShutdownEndsPoller
=============================================================================
