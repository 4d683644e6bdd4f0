-------------------------- MODULE EventLoopThread --------------------------
(***************************************************************************)
(* EventLoopThread (src/src/event_loop_thread.cc): a thread that owns an   *)
(* EventLoop on its stack.  Starter, one of the other threads, calls       *)
(* StartLoop() and StopLoop(); the thread Owner constructs the loop,       *)
(* publishes its address, runs Loop() once and destroys it.  The loop is   *)
(* the one of EventLoop.tla, and every step of it is a step here.          *)
(***************************************************************************)
EXTENDS EventLoop

CONSTANTS
  Starter,          \* the thread that calls StartLoop() and StopLoop()
  StopWhenLooping   \* does Starter wait for the loop to turn before StopLoop()?

ASSUME StarterAssumption == Starter \in Others
ASSUME UseAssumption == StopWhenLooping \in BOOLEAN

VARIABLES
  event_loop_,      \* is the pointer set?
  running_,
  thread,           \* where OnEventLoop() is
  spc,              \* where Starter is
  beforeStop        \* history: tasks queued when StopLoop() was called

tvars == <<event_loop_, running_, thread, spc, beforeStop>>
allvars == <<vars, tvars>>

ThreadInit ==
  /\ Init
  /\ event_loop_ = FALSE /\ running_ = FALSE
  /\ thread = "none" /\ spc = "new" /\ beforeStop = {}

-----------------------------------------------------------------------------
(* StartLoop() *)

\* thread_.Start(); then wait on cond_ until event_loop_ is set.
StartLoop ==
  /\ spc = "new" /\ ~running_
  /\ thread' = "started" /\ spc' = "waiting"
  /\ UNCHANGED <<event_loop_, running_, beforeStop, vars>>

StartLoopReturn ==
  /\ spc = "waiting" /\ event_loop_
  /\ running_' = TRUE /\ spc' = "running"
  /\ UNCHANGED <<event_loop_, thread, beforeStop, vars>>

(* OnEventLoop() *)

\* The EventLoop is constructed and its address published under mutex_.
OnEventLoop ==
  /\ thread = "started"
  /\ event_loop_' = TRUE /\ thread' = "published"
  /\ UNCHANGED <<running_, spc, beforeStop, vars>>

CallLoop ==
  /\ thread = "published" /\ Loop
  /\ thread' = "looping"
  /\ UNCHANGED <<event_loop_, running_, spc, beforeStop>>

\* Loop() has returned: the destructor of the EventLoop runs (it asserts
\* !looping_) and the thread ends.
DestroyLoop ==
  /\ thread = "looping" /\ pc = "idle"
  /\ thread' = "ended"
  /\ UNCHANGED <<event_loop_, running_, spc, beforeStop, vars>>

(* StopLoop() *)

\* Fault: the flag is cleared before the thread is joined.
StopLoopJoin_NoJoin ==
  /\ spc = "joining"
  /\ running_' = FALSE /\ event_loop_' = FALSE /\ spc' = "stopped"
  /\ UNCHANGED <<thread, beforeStop, vars>>

\* event_loop_->Quit(), first statement.
StopLoop ==
  /\ spc = "running" /\ running_
  /\ StopWhenLooping => thread = "looping" /\ pc # "begin"
  /\ Quit(Starter)
  /\ spc' = "quitting" /\ beforeStop' = Elems(submitted)
  /\ UNCHANGED <<event_loop_, running_, thread>>

\* The Wakeup() of Quit().
StopLoopWakeup ==
  /\ spc = "quitting" /\ QuitWakeup(Starter)
  /\ spc' = "joining"
  /\ UNCHANGED <<event_loop_, running_, thread, beforeStop>>

\* thread_.Join() returns when OnEventLoop() has.
StopLoopJoin ==
  /\ spc = "joining" /\ thread = "ended"
  /\ running_' = FALSE /\ event_loop_' = FALSE /\ spc' = "stopped"
  /\ UNCHANGED <<thread, beforeStop, vars>>

-----------------------------------------------------------------------------
(* Everybody who was given the pointer may queue tasks until StopLoop() is
   called; a call that was begun before is completed.  Quit() is left to
   StopLoop(), the only caller it has on the loop of an EventLoopThread. *)

\* The loop's own thread, from inside Loop().
LoopThread ==
  /\ thread = "looping" /\ pc # "idle"
  /\ \/ LoopStep \/ CallbackReturn \/ TaskReturn \/ PollEvent \/ PollTimeout
     \/ QueueInLoopWakeup(Owner)
     \/ \E k \in Tasks : QueueInLoop(Owner, k) \/ RunInLoop(Owner, k)
  /\ UNCHANGED tvars

User(t) ==
  /\ \/ spc = "running" /\ \E k \in Tasks : QueueInLoop(t, k) \/ RunInLoop(t, k)
     \/ QueueInLoopWakeup(t)
  /\ UNCHANGED tvars

ThreadNext ==
  \/ StartLoop \/ StartLoopReturn \/ StopLoop \/ StopLoopWakeup \/ StopLoopJoin
  \/ OnEventLoop \/ CallLoop \/ DestroyLoop
  \/ LoopThread
  \/ \E t \in Others : User(t)
  \/ spc = "stopped" /\ UNCHANGED allvars

ThreadSpec == ThreadInit /\ [][ThreadNext]_allvars

(***************************************************************************)
(* The threads are scheduled and calls that were begun are completed;      *)
(* StartLoop() and StopLoop() need not be called.  As in EventLoop.tla,    *)
(* nothing is assumed of the poll timeout and of other traffic.            *)
(***************************************************************************)
ThreadFairness ==
  /\ WF_allvars(StartLoopReturn) /\ WF_allvars(OnEventLoop) /\ WF_allvars(CallLoop)
  /\ WF_allvars(DestroyLoop) /\ WF_allvars(StopLoopWakeup) /\ WF_allvars(StopLoopJoin)
  /\ WF_allvars(LoopThread /\ LoopStep)
  /\ SF_allvars(LoopThread /\ CallbackReturn) /\ SF_allvars(LoopThread /\ TaskReturn)
  /\ WF_allvars(LoopThread /\ QueueInLoopWakeup(Owner))
  /\ \A t \in Others : WF_allvars(User(t) /\ QueueInLoopWakeup(t))

FairThreadSpec == ThreadSpec /\ ThreadFairness

-----------------------------------------------------------------------------
(***************************************************************************)
(* While running_ is set and StopLoop() was not called, event_loop_ points *)
(* to a living EventLoop; once StopLoop() returned nothing of the thread   *)
(* is left and the pointer is cleared.                                     *)
(***************************************************************************)
PointerValid ==
  /\ spc = "running" => event_loop_ /\ running_ /\ thread \in {"published", "looping"}
  /\ spc = "stopped" => ~event_loop_ /\ thread = "ended"

(***************************************************************************)
(* StopLoop() returns only after every task queued before it was called    *)
(* has been run.                                                           *)
(***************************************************************************)
StopDrains == spc = "stopped" => beforeStop \subseteq Elems(executed)

(***************************************************************************)
(* StopLoop() returns: the Quit() it makes from another thread ends the    *)
(* loop, and Join() does not wait for ever.                                *)
(***************************************************************************)
StopLoopReturns == (spc = "quitting") ~> (spc = "stopped")
=============================================================================
