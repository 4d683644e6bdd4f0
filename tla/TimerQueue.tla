----------------------------- MODULE TimerQueue -----------------------------
(***************************************************************************)
(* TimerQueue and Timer (src/src/timer_queue.cc, timer.h, timer.cc): the   *)
(* timers of one loop, multiplexed on a one-shot timerfd.                  *)
(*                                                                         *)
(* A Timer object lives at an address that malloc may hand out again once  *)
(* the object is deleted; a TimerId is the pair of address and sequence    *)
(* number.  The loop's thread calls AddTimer() and Cancel() at any time it *)
(* is not busy here, timer callbacks included, and they act at once; calls *)
(* of Others go through RunInLoop() and wait in pending, the part of       *)
(* task_list_ (EventLoop.tla) that concerns timers.                        *)
(***************************************************************************)
EXTENDS Integers, Sequences, FiniteSets

CONSTANTS
  Others,       \* threads other than the loop's
  Addrs,        \* addresses malloc may return
  Whens,        \* expiration times asked for
  Intervals,    \* intervals asked for; zero is a one-shot timer
  MinDelay,     \* the 100 microseconds of HowManyTimeLeftNow()
  MaxTime,      \* bound on the clock
  MaxTimers,    \* bound on s_numCreated_
  MaxPending    \* bound on the queued calls

ASSUME TimeAssumption ==
  /\ Whens \subseteq Nat /\ Intervals \subseteq Nat /\ MinDelay \in Nat
  /\ MaxTime \in Nat /\ MaxTimers \in Nat /\ MaxPending \in Nat

VARIABLES
  clock,                             \* Timestamp::Now()
  allocated,                         \* addresses that hold a Timer
  expiration_, interval_, sequence_, \* its members, by address
  s_numCreated_,
  timers_,                           \* set of <<expiration, address>>
  active_timers_,                    \* set of TimerIds
  calling_expired_timers_,
  canceling_timers_,                 \* set of TimerIds
  armed,                             \* when the timerfd expires, as {t}; {} if disarmed
  reported,                          \* has Poll() reported the timerfd in this round?
  now, expired, todo,                \* HandleRead(): its locals, and what is left to run
  running,                           \* {entry} while a timer's callback runs
  pending,                           \* queued AddTimerInLoop() and CancelInLoop()
  adding,                            \* AddTimer() of a thread not yet returned: its TimerId
  known,                             \* TimerIds the users hold
  gone,                              \* was the queue destroyed?
  cancelled, fired                   \* history: cancelled in the loop; one-shots run

heapvars == <<allocated, expiration_, interval_, sequence_, s_numCreated_>>
setvars  == <<timers_, active_timers_, canceling_timers_>>
readvars == <<calling_expired_timers_, reported, now, expired, todo, running, fired>>
uservars == <<pending, adding, known>>
vars == <<clock, armed, gone, cancelled, heapvars, setvars, readvars, uservars>>

Id(a) == <<a, sequence_[a]>>
Earliest(S) == CHOOSE e \in S : \A f \in S : e[1] <= f[1]
Later(x, y) == IF x >= y THEN x ELSE y

Init ==
  /\ clock = 0 /\ armed = {} /\ gone = FALSE /\ cancelled = {}
  /\ allocated = {} /\ s_numCreated_ = 0
  /\ expiration_ = [a \in Addrs |-> 0] /\ interval_ = [a \in Addrs |-> 0]
  /\ sequence_ = [a \in Addrs |-> 0]
  /\ timers_ = {} /\ active_timers_ = {} /\ canceling_timers_ = {}
  /\ calling_expired_timers_ = FALSE /\ reported = FALSE
  /\ now = 0 /\ expired = {} /\ todo = {} /\ running = {} /\ fired = {}
  /\ pending = <<>> /\ adding = [t \in Others |-> {}] /\ known = {}

Tick ==
  /\ clock < MaxTime /\ clock' = clock + 1
  /\ UNCHANGED <<armed, cancelled, heapvars, setvars, readvars, uservars>>

\* ResetTimerfd(): never less than MinDelay from now.
ResetTimerfd(when) == armed' = {Later(when, clock + MinDelay)}

\* The loop's thread runs users' code: outside HandleRead(), or in a callback.
InLoop == calling_expired_timers_ => running # {}

-----------------------------------------------------------------------------
(* AddTimer() *)

\* new Timer(cb, when, intervalS)
NewTimer(a, when, iv) ==
  /\ a \notin allocated /\ s_numCreated_ < MaxTimers
  /\ allocated' = allocated \cup {a}
  /\ expiration_' = [expiration_ EXCEPT ![a] = when]
  /\ interval_' = [interval_ EXCEPT ![a] = iv]
  /\ sequence_' = [sequence_ EXCEPT ![a] = s_numCreated_]
  /\ s_numCreated_' = s_numCreated_ + 1

\* What Insert() returns, besides inserting into both sets.
IsEarliest(when) == \A e \in timers_ : when < e[1]

\* AddTimerInLoop(), with its Insert().
AddTimerInLoop(a, seq, when) ==
  /\ timers_' = timers_ \cup {<<when, a>>}
  /\ active_timers_' = active_timers_ \cup {<<a, seq>>}
  /\ IF IsEarliest(when) THEN ResetTimerfd(when) ELSE UNCHANGED armed
  /\ UNCHANGED canceling_timers_

\* Called in the loop's thread.
AddTimer(a, when, iv) ==
  /\ InLoop /\ NewTimer(a, when, iv)
  /\ AddTimerInLoop(a, s_numCreated_, when)
  /\ known' = known \cup {<<a, s_numCreated_>>}
  /\ UNCHANGED <<clock, cancelled, readvars, pending, adding>>

\* Called by another thread, up to the end of RunInLoop().
AddTimerFrom(t, a, when, iv) ==
  /\ adding[t] = {} /\ Len(pending) < MaxPending
  /\ NewTimer(a, when, iv)
  /\ pending' = Append(pending, [add |-> TRUE, id |-> <<a, s_numCreated_>>])
  /\ adding' = [adding EXCEPT ![t] = {<<a, s_numCreated_>>}]
  /\ UNCHANGED <<clock, armed, cancelled, setvars, readvars, known>>

\* return TimerId(timer, timer->sequence()).  Whatever is at the address now
\* is read; the loop's thread may have run and deleted the timer meanwhile.
AddTimerReturn(t) ==
  /\ \E id \in adding[t] : known' = known \cup {Id(id[1])}
  /\ adding' = [adding EXCEPT ![t] = {}]
  /\ UNCHANGED <<clock, armed, cancelled, heapvars, setvars, readvars, pending>>

-----------------------------------------------------------------------------
(* Cancel() *)

\* The timers that have reached the loop and are not deleted.
InLoopIds == active_timers_ \cup {Id(e[2]) : e \in expired}

\* Fault: an id that is not active is never remembered.
CancelInLoop_Forget(id) ==
  /\ \/ /\ id \in active_timers_
        /\ timers_' = timers_ \ {<<expiration_[id[1]], id[1]>>}
        /\ active_timers_' = active_timers_ \ {id}
        /\ allocated' = allocated \ {id[1]}
     \/ id \notin active_timers_ /\ UNCHANGED <<timers_, active_timers_, allocated>>
  /\ cancelled' = cancelled \cup ({id} \cap InLoopIds)
  /\ UNCHANGED canceling_timers_

\* Fault: the entry stays in timers_.
CancelInLoop_KeepEntry(id) ==
  /\ \/ /\ id \in active_timers_
        /\ active_timers_' = active_timers_ \ {id}
        /\ allocated' = allocated \ {id[1]}
     \/ id \notin active_timers_ /\ UNCHANGED <<active_timers_, allocated>>
  /\ cancelled' = cancelled \cup ({id} \cap InLoopIds)
  /\ UNCHANGED <<timers_, canceling_timers_>>

\* Fault: a timer of the running batch is deleted at once.
CancelInLoop_DeleteRunning(id) ==
  /\ id \in InLoopIds
  /\ timers_' = timers_ \ {<<expiration_[id[1]], id[1]>>}
  /\ active_timers_' = active_timers_ \ {id}
  /\ allocated' = allocated \ {id[1]}
  /\ cancelled' = cancelled \cup {id}
  /\ UNCHANGED canceling_timers_

\* An active timer is deleted.  One that is being run, or waits to be run in
\* this HandleRead(), is remembered so that Reset() does not restart it.
CancelInLoop(id) ==
  /\ \/ /\ id \in active_timers_
        /\ timers_' = timers_ \ {<<expiration_[id[1]], id[1]>>}
        /\ active_timers_' = active_timers_ \ {id}
        /\ allocated' = allocated \ {id[1]}
        /\ UNCHANGED canceling_timers_
     \/ /\ id \notin active_timers_
        /\ canceling_timers_' = IF calling_expired_timers_ THEN canceling_timers_ \cup {id}
                                                          ELSE canceling_timers_
        /\ UNCHANGED <<timers_, active_timers_, allocated>>
  /\ cancelled' = cancelled \cup ({id} \cap InLoopIds)

Cancel(id) ==
  /\ InLoop /\ CancelInLoop(id)
  /\ UNCHANGED <<clock, armed, expiration_, interval_, sequence_, s_numCreated_>>
  /\ UNCHANGED <<readvars, uservars>>

CancelFrom(t, id) ==
  /\ adding[t] = {} /\ Len(pending) < MaxPending
  /\ pending' = Append(pending, [add |-> FALSE, id |-> id])
  /\ UNCHANGED <<clock, armed, cancelled, heapvars, setvars, readvars, adding, known>>

\* DoPendingTasks() runs the first of the queued calls, after the events.
RunPending ==
  /\ ~reported /\ ~calling_expired_timers_ /\ pending # <<>>
  /\ LET id == Head(pending).id IN
     \/ /\ Head(pending).add /\ AddTimerInLoop(id[1], id[2], expiration_[id[1]])
        /\ UNCHANGED <<allocated, cancelled>>
     \/ /\ ~Head(pending).add /\ CancelInLoop(id)
        /\ UNCHANGED armed
  /\ pending' = Tail(pending)
  /\ UNCHANGED <<clock, expiration_, interval_, sequence_, s_numCreated_>>
  /\ UNCHANGED <<readvars, adding, known>>

-----------------------------------------------------------------------------
(* HandleRead() *)

\* getExpired(): the entries up to and including t.
Due(t) == {e \in timers_ : e[1] <= t}

\* Poll() finds the timerfd readable.  Callbacks of other channels may come
\* first in the round and set it anew.
Poll ==
  /\ ~reported /\ ~calling_expired_timers_ /\ \E t \in armed : t <= clock
  /\ reported' = TRUE
  /\ UNCHANGED <<clock, armed, cancelled, heapvars, setvars, uservars>>
  /\ UNCHANGED <<calling_expired_timers_, now, expired, todo, running, fired>>

\* ReadTimer() leaves a timerfd that has expired disarmed, and fails if it was
\* set anew; either way the timers that are due are run.
HandleRead ==
  /\ reported /\ ~calling_expired_timers_ /\ reported' = FALSE
  /\ armed' = {t \in armed : t > clock} /\ now' = clock
  /\ expired' = Due(clock) /\ todo' = expired'
  /\ timers_' = timers_ \ expired'
  /\ active_timers_' = active_timers_ \ {Id(e[2]) : e \in expired'}
  /\ calling_expired_timers_' = TRUE /\ canceling_timers_' = {}
  /\ UNCHANGED <<clock, cancelled, heapvars, uservars, running, fired>>

\* The next timer of the batch, by expiration and then by address.
RunTimer(e) ==
  /\ calling_expired_timers_ /\ running = {}
  /\ e \in todo /\ \A f \in todo : e[1] <= f[1]
  /\ running' = {e} /\ todo' = todo \ {e}
  /\ fired' = IF interval_[e[2]] = 0 THEN fired \cup {Id(e[2])} ELSE fired
  /\ UNCHANGED <<clock, armed, cancelled, heapvars, setvars, uservars>>
  /\ UNCHANGED <<calling_expired_timers_, reported, now, expired>>

TimerReturn ==
  /\ running # {} /\ running' = {}
  /\ UNCHANGED <<clock, armed, cancelled, heapvars, setvars, uservars>>
  /\ UNCHANGED <<calling_expired_timers_, reported, now, expired, todo, fired>>

\* The entries Reset() restarts; the others are deleted.
Restarted == {e \in expired : interval_[e[2]] > 0 /\ Id(e[2]) \notin canceling_timers_}

\* Timer::Restart(): the next expiration of an interval timer.
Restart(a) == now + interval_[a]

\* Fault: the timerfd is left as it is.
Rearm_Not(entries) == UNCHANGED armed

Rearm(entries) ==
  IF entries = {} THEN UNCHANGED armed ELSE ResetTimerfd(Earliest(entries)[1])

\* calling_expired_timers_ = false and Reset().
Reset ==
  /\ calling_expired_timers_ /\ running = {} /\ todo = {}
  /\ calling_expired_timers_' = FALSE /\ expired' = {} /\ now' = 0
  /\ LET again == {e[2] : e \in Restarted} IN
     /\ expiration_' = [a \in Addrs |-> IF a \in again THEN Restart(a) ELSE expiration_[a]]
     /\ timers_' = timers_ \cup {<<Restart(a), a>> : a \in again}
     /\ active_timers_' = active_timers_ \cup {Id(a) : a \in again}
     /\ allocated' = allocated \ {e[2] : e \in expired \ Restarted}
  /\ Rearm(timers_')
  /\ UNCHANGED <<clock, cancelled, interval_, sequence_, s_numCreated_, canceling_timers_>>
  /\ UNCHANGED <<reported, todo, running, fired, uservars>>

\* ~TimerQueue(), with the loop: Loop() has run what was queued, and nobody
\* else uses the loop any more.
Destroy ==
  /\ ~gone /\ gone' = TRUE
  /\ ~reported /\ ~calling_expired_timers_ /\ pending = <<>> /\ \A t \in Others : adding[t] = {}
  /\ allocated' = allocated \ {e[2] : e \in timers_}
  /\ timers_' = {} /\ active_timers_' = {} /\ armed' = {}
  /\ UNCHANGED <<clock, cancelled, expiration_, interval_, sequence_, s_numCreated_>>
  /\ UNCHANGED <<canceling_timers_, readvars, uservars>>

-----------------------------------------------------------------------------
Step ==
  \/ Tick \/ RunPending \/ Poll \/ HandleRead \/ TimerReturn \/ Reset
  \/ \E e \in todo : RunTimer(e)
  \/ \E id \in known : Cancel(id) \/ \E t \in Others : CancelFrom(t, id)
  \/ \E a \in Addrs, when \in Whens, iv \in Intervals :
       AddTimer(a, when, iv) \/ \E t \in Others : AddTimerFrom(t, a, when, iv)
  \/ \E t \in Others : AddTimerReturn(t)

Next == Destroy \/ (~gone /\ Step /\ UNCHANGED gone)

Spec == Init /\ [][Next]_vars

-----------------------------------------------------------------------------
(***************************************************************************)
(* timers_ and active_timers_ hold the same timers, under their current    *)
(* expiration and sequence number: the assertions on their sizes in        *)
(* Insert(), CancelInLoop() and getExpired() hold, and the erase() of      *)
(* CancelInLoop() finds its entry.                                         *)
(***************************************************************************)
SetsAgree ==
  /\ timers_ = {<<expiration_[id[1]], id[1]>> : id \in active_timers_}
  /\ \A id \in active_timers_ : id = Id(id[1])

(***************************************************************************)
(* Every Timer object has one owner: a queued AddTimerInLoop(), timers_ or *)
(* the batch HandleRead() works on.  None is leaked, none is deleted       *)
(* twice, and none is deleted while its callback runs or waits to run.     *)
(* Nothing is left when the queue is gone.                                 *)
(***************************************************************************)
Ownership ==
  LET queued == {pending[i].id[1] : i \in {j \in DOMAIN pending : pending[j].add}}
      held   == {e[2] : e \in timers_}
      batch  == {e[2] : e \in expired}
  IN /\ allocated = queued \cup held \cup batch /\ (gone => allocated = {})
     /\ queued \cap held = {} /\ queued \cap batch = {} /\ held \cap batch = {}

(***************************************************************************)
(* A timer cancelled in the loop is gone for good: Reset() does not bring  *)
(* back an interval timer that a callback of the same batch, its own       *)
(* included, cancelled, even when its address is reused.  Its callback is  *)
(* called after the cancellation only if getExpired() had taken it before, *)
(* as HandleRead() does not look at canceling_timers_.  A one-shot timer   *)
(* that was run is gone, too.                                              *)
(***************************************************************************)
CancelSticks ==
  /\ cancelled \cap active_timers_ = {}
  /\ cancelled \cap {Id(e[2]) : e \in todo} \subseteq canceling_timers_
  /\ fired \cap (active_timers_ \cup {Id(e[2]) : e \in todo}) = {}

(***************************************************************************)
(* The timerfd is never forgotten: outside HandleRead() it is set to go    *)
(* off at the latest when the earliest timer is due, or MinDelay from now. *)
(***************************************************************************)
TimerfdArmed ==
  (~calling_expired_timers_ /\ timers_ # {}) =>
    \E t \in armed : t <= Later(Earliest(timers_)[1], clock + MinDelay)

=============================================================================
