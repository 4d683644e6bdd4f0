----------------------------- MODULE EventLoop -----------------------------
(***************************************************************************)
(* EventLoop (src/src/event_loop.cc): the poll / dispatch / pending-task   *)
(* cycle of one loop, the eventfd that wakes it, and the calls other       *)
(* threads and the loop's own callbacks make on it.                        *)
(*                                                                         *)
(* The thread that created the loop is Owner, the rest are Others.  A call *)
(* that is not atomic in the code is split where another thread can get in *)
(* between: op[t] is what thread t still has to do of its current call.    *)
(* What a callback or a task does is not modelled beyond the calls it may  *)
(* make back into the loop, any number of them, before it returns.         *)
(***************************************************************************)
EXTENDS Naturals, Sequences, FiniteSets

CONSTANTS
  Owner,            \* the thread that created the loop and calls Loop()
  Others,           \* the other threads of the process
  Tasks,            \* functions that may be handed to the loop, each once
  Signals,          \* the numbers of the signals of SetHandleSingnal()
  OwnerQueuesIdle   \* may Owner call QueueInLoop() outside Loop()?

ASSUME ThreadAssumption == Owner \notin Others
ASSUME IdleAssumption == OwnerQueuesIdle \in BOOLEAN
ASSUME SignalAssumption == Signals \subseteq Nat

VARIABLES
  looping_, quit_, need_wakup_,
  task_list_,       \* tasks not yet taken by DoPendingTasks()
  tasks,            \* the local list of DoPendingTasks()
  wakeupfd,         \* is the eventfd counter nonzero, i.e. readable?
  pc,               \* where Owner is inside Loop(); "idle" outside of it
  draining,         \* in the last DoPendingTasks(), after the while loop?
  active,           \* channels Poll() reported and Loop() has not handled
  op,               \* the rest of the call each thread is making
  sig_channel_,     \* has SetHandleSingnal() been called?
  sigPending,       \* blocked signals waiting in the signalfd
  sigHandled,       \* {s} while HandleSignal() handles s
  submitted,        \* history: tasks in the order they entered task_list_
  executed,         \* history: tasks in the order DoPendingTasks() ran them
  immediate,        \* history: tasks RunInLoop() ran on the spot
  drainMark         \* history: Len(submitted) when Loop() saw quit_

loopvars == <<looping_, quit_, pc, draining, active, drainMark>>
taskvars == <<task_list_, tasks, submitted, executed, immediate>>
sigvars  == <<sig_channel_, sigPending, sigHandled>>
vars == <<loopvars, taskvars, sigvars, need_wakup_, wakeupfd, op>>

Threads == Others \cup {Owner}
Channels == {"wakeup", "signal", "event"}

Elems(s) == {s[i] : i \in DOMAIN s}
Used == Elems(submitted) \cup immediate

(***************************************************************************)
(* The constructor.  need_wakup_ is a std::atomic<bool> that no            *)
(* constructor initialises, so its first value is arbitrary.               *)
(***************************************************************************)
Init ==
  /\ looping_ = FALSE /\ quit_ = FALSE
  /\ need_wakup_ \in BOOLEAN
  /\ task_list_ = <<>> /\ tasks = <<>>
  /\ wakeupfd = FALSE
  /\ pc = "idle" /\ draining = FALSE /\ active = {}
  /\ op = [t \in Threads |-> "none"]
  /\ sig_channel_ = FALSE /\ sigPending = {} /\ sigHandled = {}
  /\ submitted = <<>> /\ executed = <<>> /\ immediate = {}
  /\ drainMark = 0

-----------------------------------------------------------------------------
(* Loop() and Poll(), run by Owner. *)

\* looping_ = true.  quit_ is cleared by a statement of its own.
Loop ==
  /\ pc = "idle" /\ op[Owner] = "none"
  /\ looping_' = TRUE /\ pc' = "begin"
  /\ UNCHANGED <<quit_, draining, active, drainMark>>
  /\ UNCHANGED <<taskvars, sigvars, need_wakup_, wakeupfd, op>>

LoopClearQuit ==
  /\ pc = "begin"
  /\ quit_' = FALSE /\ pc' = "test"
  /\ UNCHANGED <<looping_, draining, active, drainMark>>
  /\ UNCHANGED <<taskvars, sigvars, need_wakup_, wakeupfd, op>>

\* Fault: leaving the loop without the last DoPendingTasks().
LoopTest_NoDrain ==
  /\ pc = "test"
  /\ \/ ~quit_ /\ pc' = "poll" /\ UNCHANGED <<draining, drainMark>>
     \/ quit_ /\ pc' = "end" /\ draining' = TRUE /\ drainMark' = Len(submitted)
  /\ UNCHANGED <<looping_, quit_, active>>
  /\ UNCHANGED <<taskvars, sigvars, need_wakup_, wakeupfd, op>>

\* while(!quit_): once more around, or on to the last DoPendingTasks().
LoopTest ==
  /\ pc = "test"
  /\ \/ ~quit_ /\ pc' = "poll" /\ UNCHANGED <<draining, drainMark>>
     \/ quit_ /\ pc' = "mark" /\ draining' = TRUE /\ drainMark' = Len(submitted)
  /\ UNCHANGED <<looping_, quit_, active>>
  /\ UNCHANGED <<taskvars, sigvars, need_wakup_, wakeupfd, op>>

\* The loop's own descriptors that epoll_wait() finds readable.
Ready ==
  (IF wakeupfd THEN {"wakeup"} ELSE {}) \cup
  (IF sig_channel_ /\ sigPending # {} THEN {"signal"} ELSE {})

PollReturns(chans) ==
  /\ pc = "poll"
  /\ active' = chans /\ pc' = "dispatch"
  /\ UNCHANGED <<looping_, quit_, draining, drainMark>>
  /\ UNCHANGED <<taskvars, sigvars, need_wakup_, wakeupfd, op>>

\* Poll() returns because of the eventfd or the signalfd, perhaps together
\* with sockets or the timerfd.
PollReady == Ready # {} /\ \E ev \in SUBSET {"event"} : PollReturns(Ready \cup ev)

\* Only a socket or the timerfd is ready.
PollEvent == Ready = {} /\ PollReturns({"event"})

\* Nothing is ready when the timeout of epoll_wait() expires.
PollTimeout == Ready = {} /\ PollReturns({})

-----------------------------------------------------------------------------
(* for(auto channel : active_channels) channel->HandleEvent(): the channels
   are handled one after the other, in whatever order epoll listed them. *)

HandleWakeup ==
  /\ pc = "dispatch" /\ "wakeup" \in active
  /\ wakeupfd' = FALSE /\ active' = active \ {"wakeup"}
  /\ UNCHANGED <<looping_, quit_, pc, draining, drainMark>>
  /\ UNCHANGED <<taskvars, sigvars, need_wakup_, op>>

\* Fault: all that is pending is read, and one callback called.
HandleSignal_ReadAll ==
  /\ pc = "dispatch" /\ "signal" \in active
  /\ \E s \in sigPending : sigHandled' = {s} /\ \A r \in sigPending : s <= r
  /\ sigPending' = {}
  /\ active' = active \ {"signal"} /\ pc' = "callback"
  /\ UNCHANGED <<looping_, quit_, draining, drainMark, sig_channel_>>
  /\ UNCHANGED <<taskvars, need_wakup_, wakeupfd, op>>

\* One siginfo is read, of the lowest signal that is pending, and its callback
\* called; further signals stay readable.
HandleSignal ==
  /\ pc = "dispatch" /\ "signal" \in active
  /\ \E s \in sigPending :
       /\ \A r \in sigPending : s <= r
       /\ sigPending' = sigPending \ {s} /\ sigHandled' = {s}
  /\ active' = active \ {"signal"} /\ pc' = "callback"
  /\ UNCHANGED <<looping_, quit_, draining, drainMark, sig_channel_>>
  /\ UNCHANGED <<taskvars, need_wakup_, wakeupfd, op>>

\* The callback of any other channel.
HandleEvent ==
  /\ pc = "dispatch" /\ "event" \in active
  /\ active' = active \ {"event"} /\ pc' = "callback"
  /\ UNCHANGED <<looping_, quit_, draining, drainMark>>
  /\ UNCHANGED <<taskvars, sigvars, need_wakup_, wakeupfd, op>>

CallbackReturn ==
  /\ pc = "callback" /\ op[Owner] = "none"
  /\ pc' = "dispatch" /\ sigHandled' = {}
  /\ UNCHANGED <<looping_, quit_, draining, active, drainMark, sig_channel_, sigPending>>
  /\ UNCHANGED <<taskvars, need_wakup_, wakeupfd, op>>

-----------------------------------------------------------------------------
(* DoPendingTasks() *)

MarkWakeup ==
  /\ \/ pc = "dispatch" /\ active = {}
     \/ pc = "mark"
  /\ need_wakup_' = TRUE /\ pc' = "swap"
  /\ UNCHANGED <<looping_, quit_, draining, active, drainMark>>
  /\ UNCHANGED <<taskvars, sigvars, wakeupfd, op>>

\* Fault: the list is copied and not emptied.
SwapTasks_Copy ==
  /\ pc = "swap"
  /\ tasks' = task_list_ /\ pc' = "run"
  /\ UNCHANGED <<looping_, quit_, draining, active, drainMark>>
  /\ UNCHANGED <<task_list_, submitted, executed, immediate>>
  /\ UNCHANGED <<sigvars, need_wakup_, wakeupfd, op>>

\* tasks.swap(task_list_) under mutex_.
SwapTasks ==
  /\ pc = "swap"
  /\ tasks' = task_list_ /\ task_list_' = <<>> /\ pc' = "run"
  /\ UNCHANGED <<looping_, quit_, draining, active, drainMark>>
  /\ UNCHANGED <<submitted, executed, immediate>>
  /\ UNCHANGED <<sigvars, need_wakup_, wakeupfd, op>>

RunTask ==
  /\ pc = "run" /\ tasks # <<>>
  /\ executed' = Append(executed, Head(tasks)) /\ tasks' = Tail(tasks)
  /\ pc' = "task"
  /\ UNCHANGED <<looping_, quit_, draining, active, drainMark>>
  /\ UNCHANGED <<task_list_, submitted, immediate>>
  /\ UNCHANGED <<sigvars, need_wakup_, wakeupfd, op>>

TaskReturn ==
  /\ pc = "task" /\ op[Owner] = "none"
  /\ pc' = "run"
  /\ UNCHANGED <<looping_, quit_, draining, active, drainMark>>
  /\ UNCHANGED <<taskvars, sigvars, need_wakup_, wakeupfd, op>>

TasksDone ==
  /\ pc = "run" /\ tasks = <<>>
  /\ need_wakup_' = FALSE
  /\ pc' = IF draining THEN "end" ELSE "test"
  /\ UNCHANGED <<looping_, quit_, draining, active, drainMark>>
  /\ UNCHANGED <<taskvars, sigvars, wakeupfd, op>>

\* looping_ = false; Loop() returns and may be called again.
LoopEnd ==
  /\ pc = "end"
  /\ looping_' = FALSE /\ draining' = FALSE /\ pc' = "idle"
  /\ UNCHANGED <<quit_, active, drainMark>>
  /\ UNCHANGED <<taskvars, sigvars, need_wakup_, wakeupfd, op>>

-----------------------------------------------------------------------------
(* Calls on the loop.  Owner makes them outside Loop(), from a channel's
   callback or from a task. *)

CanCall(t) ==
  /\ op[t] = "none"
  /\ t = Owner => pc \in {"idle", "callback", "task"}

QueueInLoop(t, k) ==
  /\ CanCall(t) /\ k \notin Used
  /\ (t = Owner /\ pc = "idle") => OwnerQueuesIdle
  /\ task_list_' = Append(task_list_, k)
  /\ submitted' = Append(submitted, k)
  /\ op' = [op EXCEPT ![t] = "queue"]
  /\ UNCHANGED <<tasks, executed, immediate>>
  /\ UNCHANGED <<loopvars, sigvars, need_wakup_, wakeupfd>>

\* Fault: only the flag decides, as if every caller were the loop's thread.
QueueInLoopWakeup_FlagOnly(t) ==
  /\ op[t] = "queue"
  /\ wakeupfd' = (wakeupfd \/ need_wakup_)
  /\ op' = [op EXCEPT ![t] = "none"]
  /\ UNCHANGED <<loopvars, taskvars, sigvars, need_wakup_>>

\* if(!IsInLoopThread() || need_wakup_) Wakeup(), after the mutex is released.
QueueInLoopWakeup(t) ==
  /\ op[t] = "queue"
  /\ wakeupfd' = (wakeupfd \/ t # Owner \/ need_wakup_)
  /\ op' = [op EXCEPT ![t] = "none"]
  /\ UNCHANGED <<loopvars, taskvars, sigvars, need_wakup_>>

RunInLoop(t, k) ==
  \/ /\ t = Owner /\ CanCall(t) /\ k \notin Used
     /\ immediate' = immediate \cup {k}
     /\ UNCHANGED <<task_list_, tasks, submitted, executed>>
     /\ UNCHANGED <<loopvars, sigvars, need_wakup_, wakeupfd, op>>
  \/ t # Owner /\ QueueInLoop(t, k)

Quit(t) ==
  /\ CanCall(t)
  /\ quit_' = TRUE
  /\ op' = [op EXCEPT ![t] = "quit"]
  /\ UNCHANGED <<looping_, pc, draining, active, drainMark>>
  /\ UNCHANGED <<taskvars, sigvars, need_wakup_, wakeupfd>>

\* Fault: no Wakeup() in Quit().
QuitWakeup_None(t) ==
  /\ op[t] = "quit"
  /\ op' = [op EXCEPT ![t] = "none"]
  /\ UNCHANGED <<loopvars, taskvars, sigvars, need_wakup_, wakeupfd>>

QuitWakeup(t) ==
  /\ op[t] = "quit"
  /\ wakeupfd' = (wakeupfd \/ t # Owner)
  /\ op' = [op EXCEPT ![t] = "none"]
  /\ UNCHANGED <<loopvars, taskvars, sigvars, need_wakup_>>

SetHandleSingnal ==
  /\ CanCall(Owner) /\ ~sig_channel_
  /\ sig_channel_' = TRUE
  /\ UNCHANGED <<sigPending, sigHandled, loopvars, taskvars, need_wakup_, wakeupfd, op>>

\* A signal arrives; InitSignal() blocked it, so it stays pending.
RaiseSignal(s) ==
  /\ sigPending' = sigPending \cup {s}
  /\ UNCHANGED <<sig_channel_, sigHandled, loopvars, taskvars, need_wakup_, wakeupfd, op>>

-----------------------------------------------------------------------------
\* What the loop's thread does by itself, once it is inside Loop().
LoopStep ==
  \/ LoopClearQuit \/ LoopTest \/ PollReady
  \/ HandleWakeup \/ HandleSignal \/ HandleEvent
  \/ MarkWakeup \/ SwapTasks \/ RunTask \/ TasksDone \/ LoopEnd

Call(t) ==
  \/ QueueInLoopWakeup(t) \/ Quit(t) \/ QuitWakeup(t)
  \/ \E k \in Tasks : QueueInLoop(t, k) \/ RunInLoop(t, k)

Next ==
  \/ Loop \/ LoopStep \/ CallbackReturn \/ TaskReturn
  \/ PollEvent \/ PollTimeout
  \/ SetHandleSingnal
  \/ \E s \in Signals : RaiseSignal(s)
  \/ \E t \in Threads : Call(t)

Spec == Init /\ [][Next]_vars

(***************************************************************************)
(* The loop's thread keeps running, callbacks and tasks return, and a call *)
(* that was begun is completed.  Nothing is assumed of PollTimeout and     *)
(* PollEvent: progress may not depend on the five seconds of Poll(5) or on *)
(* unrelated traffic.  Nobody has to call Loop() or Quit().                *)
(***************************************************************************)
Fairness ==
  /\ WF_vars(LoopStep)
  /\ SF_vars(CallbackReturn \/ TaskReturn)
  /\ \A t \in Threads : WF_vars(QueueInLoopWakeup(t) \/ QuitWakeup(t))

FairSpec == Spec /\ Fairness

-----------------------------------------------------------------------------
(***************************************************************************)
(* Type invariant; looping_ and draining say where Loop() is.              *)
(***************************************************************************)
PCs == {"idle", "begin", "test", "poll", "dispatch", "callback",
        "mark", "swap", "run", "task", "end"}

TypeOK ==
  /\ quit_ \in BOOLEAN /\ need_wakup_ \in BOOLEAN /\ wakeupfd \in BOOLEAN
  /\ task_list_ \in Seq(Tasks) /\ tasks \in Seq(Tasks)
  /\ submitted \in Seq(Tasks) /\ executed \in Seq(Tasks)
  /\ immediate \in SUBSET Tasks
  /\ pc \in PCs /\ active \in SUBSET Channels
  /\ op \in [Threads -> {"none", "queue", "quit"}]
  /\ sig_channel_ \in BOOLEAN /\ sigPending \in SUBSET Signals
  /\ sigHandled \in SUBSET Signals
  /\ drainMark \in Nat
  /\ looping_ \in BOOLEAN /\ (looping_ <=> pc # "idle")
  /\ draining \in BOOLEAN

(***************************************************************************)
(* The loop never blocks in epoll_wait() while a task waits or quit_ is    *)
(* set, unless the eventfd is readable or some thread is about to write    *)
(* it.  Otherwise the request would wait for the poll timeout.             *)
(***************************************************************************)
NoLostWakeup ==
  /\ (pc = "poll" /\ task_list_ # <<>>) => wakeupfd \/ \E t \in Others : op[t] = "queue"
  /\ (pc = "poll" /\ quit_) => wakeupfd \/ \E t \in Others : op[t] = "quit"

(***************************************************************************)
(* Every task handed to QueueInLoop() is in exactly one place, and tasks   *)
(* are run once each, in the order of their insertion under mutex_.        *)
(***************************************************************************)
FifoOnce ==
  /\ submitted = executed \o (tasks \o task_list_)
  /\ \A i, j \in DOMAIN submitted : submitted[i] = submitted[j] => i = j

(***************************************************************************)
(* When Loop() returns, every task queued before it noticed quit_ has been *)
(* run by the last DoPendingTasks().                                       *)
(***************************************************************************)
DrainOnReturn == pc = "end" => Len(executed) >= drainMark

(***************************************************************************)
(* A queued task is run, or the loop is stopped, without the help of the   *)
(* poll timeout.                                                           *)
(***************************************************************************)
QueuedTaskRuns ==
  \A k \in Tasks :
    (looping_ /\ k \in Elems(submitted)) ~> (k \in Elems(executed) \/ ~looping_)

(***************************************************************************)
(* A Quit() that comes after Loop() cleared quit_ ends the loop, whichever *)
(* thread makes it.                                                        *)
(***************************************************************************)
QuitEndsLoop == (quit_ /\ pc \notin {"idle", "begin"}) ~> ~looping_

(***************************************************************************)
(* A signal that is pending once SetHandleSingnal() was called gets its    *)
(* callback, although others may be pending with it and one siginfo is     *)
(* read per round.  Only lower signals come first, so that it may wait for *)
(* ever only if those are raised for ever.                                 *)
(***************************************************************************)
SignalHandled ==
  \A s \in Signals :
    <>[][\A r \in sigPending' : r < s => r \in sigPending]_vars =>
      ((looping_ /\ sig_channel_ /\ s \in sigPending) ~> (s \in sigHandled \/ ~looping_))

(***************************************************************************)
(* The loop implements the task queue of TaskQueue.tla: what waits there   *)
(* is the batch being run followed by task_list_.                          *)
(***************************************************************************)
TQ == INSTANCE TaskQueue WITH waiting <- tasks \o task_list_, finished <- executed

ImplementsTaskQueue == TQ!TQSpec
=============================================================================
