------------------------ MODULE EventLoopThreadPool ------------------------
(***************************************************************************)
(* EventLoopThreadPool (src/src/event_loop_thread_pool.cc): the loops a    *)
(* TCPServer hands its connections to, in turn.  A loop is known by its    *)
(* index in loops_; its own life is the subject of EventLoopThread.tla.    *)
(* The pool is used by the thread of the main loop only.                   *)
(***************************************************************************)
EXTENDS Integers, FiniteSets

CONSTANTS
  MaxThreads,   \* bound on the argument of set_thread_nums()
  MaxNext       \* bound on next_, below the largest int

ASSUME PoolAssumption == MaxThreads \in Nat /\ MaxNext \in Nat

VARIABLES
  loop_main_,   \* is the pointer still set?
  running_, thread_nums_, next_,
  loops_,       \* the indexes of loops_
  alive,        \* the loops whose thread runs
  stopping,     \* is Stop() joining the threads?
  picked        \* {i} if the last GetNextEventLoop() returned loops_[i], else {}

poolvars == <<loop_main_, running_, thread_nums_, next_, loops_, alive, stopping, picked>>

PoolInit ==
  /\ loop_main_ = TRUE /\ running_ = FALSE
  /\ thread_nums_ = 0 /\ next_ = 0
  /\ loops_ = {} /\ alive = {} /\ stopping = FALSE /\ picked = {}

\* Called before Start(), as TCPServer::set_event_loop_nums() is.
SetThreadNums(n) ==
  /\ loop_main_ /\ ~running_
  /\ thread_nums_' = n
  /\ UNCHANGED <<loop_main_, running_, next_, loops_, alive, stopping, picked>>

PoolStart ==
  /\ loop_main_ /\ ~running_
  /\ loops_' = 0..(thread_nums_ - 1) /\ alive' = loops_'
  /\ running_' = TRUE
  /\ UNCHANGED <<loop_main_, thread_nums_, next_, stopping, picked>>

\* Stop(), also called by the destructor.
PoolStop ==
  /\ running_ /\ ~stopping
  /\ stopping' = TRUE
  /\ UNCHANGED <<loop_main_, running_, thread_nums_, next_, loops_, alive, picked>>

\* The StopLoop() calls of Stop(), one thread after the other.
StopLoop(i) ==
  /\ stopping /\ i \in alive /\ \A j \in alive : i <= j
  /\ alive' = alive \ {i}
  /\ UNCHANGED <<loop_main_, running_, thread_nums_, next_, loops_, stopping, picked>>

\* Stop() returns.  loops_ keeps its dangling pointers.
PoolStopReturn ==
  /\ stopping /\ alive = {}
  /\ running_' = FALSE /\ loop_main_' = FALSE /\ stopping' = FALSE
  /\ UNCHANGED <<thread_nums_, next_, loops_, alive, picked>>

Index == next_ % thread_nums_

GetNextEventLoop ==
  /\ running_ /\ ~stopping /\ loop_main_ /\ next_ < MaxNext
  /\ \/ /\ loops_ = {}
        /\ picked' = {} /\ UNCHANGED next_
     \/ /\ loops_ # {}
        /\ picked' = {Index}
        /\ next_' = next_ + 1
  /\ UNCHANGED <<loop_main_, running_, thread_nums_, loops_, alive, stopping>>
=============================================================================
