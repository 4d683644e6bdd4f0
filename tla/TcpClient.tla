----------------------------- MODULE TcpClient -----------------------------
(***************************************************************************)
(* TCPClient (src/src/tcp_client.cc) with its TCPConnector and the life of *)
(* its connections.  A connection is known by its descriptor.              *)
(*                                                                         *)
(* The loop's thread polls, handles the reported events in any order, then *)
(* runs the tasks that were queued by then (EventLoop.tla, Epoller.tla).   *)
(* Its handlers are split where the user's thread can come in between: pc  *)
(* says where in a handler it is and cur for which connection.  The user's *)
(* thread calls Connect() once, Disconnect(), connection() and, on a       *)
(* connection it holds, ForceClose(); op says where in a call it is.       *)
(***************************************************************************)
EXTENDS TcpConnector

CONSTANTS
  StopInCallback,  \* may a callback call Disconnect() in a round in which a write
                   \* event of the connector's channel is still to be handled?
  MaxTasks         \* bound on the tasks queued by ForceClose()

ASSUME ClientAssumption == StopInCallback \in BOOLEAN /\ MaxTasks \in Nat

VARIABLES
  retry_, connect_, connection_,
  phase, active, batch,   \* Loop(): where it is, events and tasks still to handle
  pc, cur,
  op, arg,                \* the user's thread
  held,                   \* connections it holds
  started, stopped        \* history: Connect() was called; StopInLoop() was run

clientvars == <<retry_, connect_, connection_>>
loopvars == <<phase, active, batch, pc, cur>>
uservars == <<op, arg, held, started>>
attemptvars == <<state_, retry_delay_, channel_, watching, timers>>
vars == <<ctorvars, clientvars, loopvars, uservars, stopped>>

Items(q) == {q[i] : i \in DOMAIN q}

\* The tasks still to run.
Queued == Items(tasks) \cup Items(batch)

\* The connections somebody has a TCPConnectionPtr to.
Alive == ({connection_, cur, arg} \cup held \cup {t.sock : t \in Queued}) \ {NULL}

\* What socket() may return: the last reference closes a connection's.
Free == {s \in Socks \ Alive : sock[s] \notin {"attempt", "lost"}}

Init ==
  /\ ConnectorInit
  /\ retry_ = FALSE /\ connect_ = FALSE /\ connection_ = NULL
  /\ phase = "tasks" /\ active = {} /\ batch = <<>> /\ pc = "idle" /\ cur = NULL
  /\ op = "none" /\ arg = NULL /\ held = {} /\ started = FALSE /\ stopped = FALSE

EnableRetry ==
  /\ ~started /\ ~retry_ /\ retry_' = TRUE
  /\ UNCHANGED <<ctorvars, connect_, connection_, loopvars, uservars, stopped>>

-----------------------------------------------------------------------------
(* Loop() *)

\* The connector's channel is writable or has an error, the retry timer is due,
\* a connection is closed by its peer.  A timer set in a round is due in a later one.
Ready ==
  (IF watching THEN {"write", "error"} ELSE {}) \cup (IF timers > 0 THEN {"timer"} ELSE {})
    \cup {s \in Socks : sock[s] = "CONNECTED"}

Poll(events) ==
  /\ phase = "tasks" /\ batch = <<>> /\ pc = "idle"
  /\ ~({"write", "error"} \subseteq events)
  /\ phase' = "dispatch" /\ active' = events
  /\ UNCHANGED <<batch, pc, cur, ctorvars, clientvars, uservars, stopped>>

\* DoPendingTasks() takes the list.
SwapTasks ==
  /\ phase = "dispatch" /\ active = {} /\ pc = "idle"
  /\ phase' = "tasks" /\ batch' = tasks /\ tasks' = <<>>
  /\ UNCHANGED <<running_, attemptvars, sock, active, pc, cur, clientvars, uservars, stopped>>

Handles(e) ==
  /\ phase = "dispatch" /\ pc = "idle" /\ e \in active
  /\ active' = active \ {e} /\ UNCHANGED <<phase, batch>>

-----------------------------------------------------------------------------
(* The connector's events *)

HandleError ==
  /\ Handles("error")
  /\ \/ state_ = "CONNECTING" /\ AttemptFails /\ UNCHANGED <<running_, channel_>>
     \/ state_ # "CONNECTING" /\ UNCHANGED ctorvars
  /\ UNCHANGED <<pc, cur, clientvars, uservars, stopped>>

HandleWrite ==
  /\ Handles("write")
  /\ \/ AttemptFails /\ UNCHANGED <<pc, cur>>
     \/ /\ AttemptSucceeds
        /\ \/ running_ /\ pc' = "new" /\ cur' = channel_
           \/ ~running_ /\ UNCHANGED <<pc, cur>>
  /\ UNCHANGED <<running_, channel_, clientvars, uservars, stopped>>

\* The timer's callback, called also for a timer that another one of the same
\* batch has cancelled.
RetryTimer ==
  /\ Handles("timer")
  /\ StartInLoop(Free, IF timers > 0 THEN timers - 1 ELSE 0)
  /\ UNCHANGED <<tasks, pc, cur, clientvars, uservars, stopped>>

\* StartInLoop() as called by Restart(), or by Start() in the loop's thread.
StartsInLoop ==
  /\ pc = "start" /\ pc' = "idle"
  /\ StartInLoop(Free, timers)
  /\ UNCHANGED <<tasks, phase, active, batch, cur, clientvars, uservars, stopped>>

-----------------------------------------------------------------------------
(* NewConnection(), RemoveConnection(): mutex_ is free unless op is "force" *)

NewConnection ==
  /\ pc = "new" /\ op # "force"
  /\ sock' = [sock EXCEPT ![cur] = "CONNECTING"] /\ connection_' = cur
  /\ pc' = "establish"
  /\ UNCHANGED <<running_, attemptvars, tasks, retry_, connect_, phase, active, batch, cur, uservars, stopped>>

ConnectionEstablished ==
  /\ pc = "establish"
  /\ sock' = [sock EXCEPT ![cur] = "CONNECTED"]
  /\ pc' = "idle" /\ cur' = NULL
  /\ UNCHANGED <<running_, attemptvars, tasks, phase, active, batch, clientvars, uservars, stopped>>

\* TCPConnection::HandleClose(), up to remove_cb_.
HandleClose(s) ==
  /\ sock' = [sock EXCEPT ![s] = "DISCONNECTING"]
  /\ pc' = "remove" /\ cur' = s

CloseEvent(s) ==
  /\ Handles(s) /\ HandleClose(s)
  /\ UNCHANGED <<running_, attemptvars, tasks, clientvars, uservars, stopped>>

RemoveConnection ==
  /\ pc = "remove" /\ op # "force"
  /\ connection_' = NULL /\ tasks' = Append(tasks, Task("destroy", cur))
  /\ pc' = IF retry_ /\ connect_ THEN "restart" ELSE "idle"
  /\ cur' = NULL
  /\ UNCHANGED <<running_, attemptvars, sock, retry_, connect_, phase, active, batch, uservars, stopped>>

RemoveRestarts ==
  /\ pc = "restart" /\ pc' = "start" /\ Restart
  /\ UNCHANGED <<phase, active, batch, cur, clientvars, uservars, stopped>>

-----------------------------------------------------------------------------
(* Tasks *)

Runs(kind) ==
  /\ phase = "tasks" /\ pc = "idle" /\ batch # <<>> /\ Head(batch).kind = kind
  /\ batch' = Tail(batch) /\ UNCHANGED <<phase, active>>

TaskStart ==
  /\ Runs("start") /\ StartInLoop(Free, timers)
  /\ UNCHANGED <<tasks, pc, cur, clientvars, uservars, stopped>>

TaskStop ==
  /\ Runs("stop") /\ StopInLoop(tasks) /\ stopped' = TRUE
  /\ UNCHANGED <<running_, pc, cur, clientvars, uservars>>

TaskReset ==
  /\ Runs("reset") /\ ResetChannel
  /\ UNCHANGED <<running_, state_, retry_delay_, watching, timers, sock, tasks>>
  /\ UNCHANGED <<pc, cur, clientvars, uservars, stopped>>

\* Fault: nothing is closed.
ForceCloseInLoop_Never(s) == UNCHANGED <<sock, pc, cur>>

ForceCloseInLoop(s) ==
  \/ sock[s] \notin {"DISCONNECTING", "DISCONNECTED"} /\ HandleClose(s)
  \/ sock[s] \in {"DISCONNECTING", "DISCONNECTED"} /\ UNCHANGED <<sock, pc, cur>>

TaskClose ==
  /\ Runs("close") /\ ForceCloseInLoop(Head(batch).sock)
  /\ UNCHANGED <<running_, attemptvars, tasks, clientvars, uservars, stopped>>

ConnectionDestroy ==
  /\ Runs("destroy")
  /\ sock' = [sock EXCEPT ![Head(batch).sock] = "DISCONNECTED"]
  /\ UNCHANGED <<running_, attemptvars, tasks, pc, cur, clientvars, uservars, stopped>>

-----------------------------------------------------------------------------
(* Users *)

BeginConnect ==
  /\ ~started /\ started' = TRUE
  /\ connect_' = TRUE /\ running_' = TRUE
  /\ UNCHANGED <<attemptvars, sock, retry_, connection_, phase, active, batch, cur, op, arg, held, stopped>>

\* Connect(): RunInLoop() queues StartInLoop(), or calls it in the loop's thread.
ClientConnect == BeginConnect /\ tasks' = Append(tasks, Task("start", NULL)) /\ UNCHANGED pc

ClientConnectInLoop == BeginConnect /\ pc = "idle" /\ pc' = "start" /\ UNCHANGED tasks

Room == Len(tasks) < MaxTasks

Disconnect ==
  /\ op = "none" /\ started /\ Room
  /\ connect_' = FALSE /\ op' = "look"
  /\ UNCHANGED <<ctorvars, retry_, connection_, loopvars, arg, held, started, stopped>>

\* mutex_ is taken; ForceClose() looks at the state of connection_.
DisconnectLook ==
  /\ op = "look"
  /\ \/ /\ connection_ # NULL /\ sock[connection_] = "CONNECTED"
        /\ op' = "force" /\ arg' = connection_
     \/ /\ connection_ # NULL => sock[connection_] # "CONNECTED"
        /\ op' = "stop" /\ UNCHANGED arg
  /\ UNCHANGED <<ctorvars, clientvars, loopvars, held, started, stopped>>

\* ForceClose() of a connection the user holds looks at the state ...
ForceClose(s) ==
  /\ op = "none" /\ s \in held /\ sock[s] = "CONNECTED" /\ Room
  /\ op' = "late" /\ arg' = s
  /\ UNCHANGED <<ctorvars, clientvars, loopvars, held, started, stopped>>

\* ... and then queues ForceCloseInLoop().
ForceCloseQueues ==
  /\ op \in {"force", "late"}
  /\ tasks' = Append(tasks, Task("close", arg))
  /\ op' = (IF op = "force" THEN "stop" ELSE "none") /\ arg' = NULL
  /\ UNCHANGED <<running_, attemptvars, sock, clientvars, loopvars, held, started, stopped>>

\* TCPConnector::Stop()
Stop ==
  /\ op = "stop" /\ running_' = FALSE /\ op' = "queue"
  /\ UNCHANGED <<attemptvars, sock, tasks, clientvars, loopvars, arg, held, started, stopped>>

StopQueues ==
  /\ op = "queue" /\ tasks' = Append(tasks, Task("stop", NULL)) /\ op' = "none"
  /\ UNCHANGED <<running_, attemptvars, sock, clientvars, loopvars, arg, held, started, stopped>>

\* Disconnect() in a callback or a task: StopInLoop() is called at once.  The
\* retry timer it cancels does not run, unless it is in the batch being run.
DisconnectInLoop ==
  /\ pc = "idle" /\ op # "force" /\ started /\ Room
  /\ "write" \in active => StopInCallback
  /\ connect_' = FALSE /\ running_' = FALSE /\ stopped' = TRUE
  /\ \/ /\ connection_ # NULL /\ sock[connection_] = "CONNECTED"
        /\ StopInLoop(Append(tasks, Task("close", connection_)))
     \/ /\ connection_ # NULL => sock[connection_] # "CONNECTED"
        /\ StopInLoop(tasks)
  /\ active' \in {active, active \ {"timer"}}
  /\ UNCHANGED <<retry_, connection_, phase, batch, pc, cur, uservars>>

\* connection()
Hold ==
  /\ op = "none" /\ connection_ # NULL /\ connection_ \notin held
  /\ held' = held \cup {connection_}
  /\ UNCHANGED <<ctorvars, clientvars, loopvars, op, arg, started, stopped>>

Release(s) ==
  /\ s \in held /\ held' = held \ {s}
  /\ UNCHANGED <<ctorvars, clientvars, loopvars, op, arg, started, stopped>>

-----------------------------------------------------------------------------
LoopStep ==
  \/ \E events \in SUBSET Ready : Poll(events)
  \/ SwapTasks \/ HandleError \/ HandleWrite \/ RetryTimer \/ StartsInLoop
  \/ NewConnection \/ ConnectionEstablished \/ RemoveConnection \/ RemoveRestarts
  \/ (\E s \in Socks : CloseEvent(s))
  \/ TaskStart \/ TaskStop \/ TaskReset \/ TaskClose \/ ConnectionDestroy

UserStep == DisconnectLook \/ ForceCloseQueues \/ Stop \/ StopQueues

Next ==
  \/ LoopStep \/ UserStep
  \/ EnableRetry \/ ClientConnect \/ ClientConnectInLoop
  \/ Disconnect \/ DisconnectInLoop \/ Hold
  \/ \E s \in Socks : ForceClose(s) \/ Release(s)

Spec == Init /\ [][Next]_vars

\* Both threads are scheduled: the loop turns and calls that began return.
FairSpec == Spec /\ WF_vars(LoopStep) /\ WF_vars(UserStep)

-----------------------------------------------------------------------------
(***************************************************************************)
(* The assertions of the two classes hold where they are next: an attempt  *)
(* starts from DISCONNECTED, without a channel left from the last one;     *)
(* HandleWrite() finds CONNECTING; RemoveConnection() is called for the    *)
(* connection the client has.  At most one retry timer is set, the one     *)
(* timer_id_ names.                                                        *)
(***************************************************************************)
Starts == pc = "start" \/ "timer" \in active \/ (batch # <<>> /\ Head(batch).kind = "start")

AssertsHold ==
  /\ Starts => state_ = "DISCONNECTED" /\ (running_ => channel_ = NULL)
  /\ "write" \in active => state_ = "CONNECTING"
  /\ pc = "remove" => connection_ = cur
  /\ timers <= 1

(***************************************************************************)
(* Every descriptor has one owner: that of an attempt is the watched       *)
(* channel's until NewConnection() takes it over, and an open connection   *)
(* is the one the client has, so that none is left behind, unknown to it.  *)
(* StopInLoop() is the exception: it leaves the descriptor of the attempt. *)
(* A connection is freed only when it is DISCONNECTED (the assertion of    *)
(* ~TCPConnection()), also when the user keeps it over a reconnect.        *)
(***************************************************************************)
SocketsOwned ==
  \A s \in Socks :
    /\ sock[s] = "attempt" <=>
         (state_ = "CONNECTING" /\ watching /\ channel_ = s) \/ (pc = "new" /\ cur = s)
    /\ sock[s] \in {"CONNECTING", "CONNECTED"} => connection_ = s
    /\ sock[s] = "DISCONNECTING" => s \in Alive

(***************************************************************************)
(* Once StopInLoop() was run for a Disconnect(), no attempt is under way   *)
(* and no retry is set, although Restart() may have set running_ again     *)
(* after Stop() had cleared it.                                            *)
(***************************************************************************)
StoppedQuiet == stopped => state_ # "CONNECTING" /\ timers = 0

(***************************************************************************)
(* A client that is to connect is never idle: between handlers there is an *)
(* attempt, a retry timer or, with EnableRetry(), a connection.  The       *)
(* back-off stays within its limits.                                       *)
(***************************************************************************)
KeepsTrying ==
  /\ retry_delay_ \in InitDelay..MaxDelay
  /\ (connect_ /\ running_ /\ pc = "idle" /\ Task("start", NULL) \notin Queued) =>
    /\ state_ = "DISCONNECTED" => timers = 1
    /\ state_ = "CONNECTED" /\ retry_ => connection_ # NULL

(***************************************************************************)
(* A Disconnect() that finds the connection CONNECTED closes it, whatever  *)
(* the loop's thread does between the look and the queueing.               *)
(***************************************************************************)
DisconnectCloses ==
  \A s \in Socks : (op = "force" /\ arg = s) ~> (sock[s] # "CONNECTED")

(***************************************************************************)
(* After a Disconnect() the client comes to rest for good: no attempt and  *)
(* no retry any more.                                                      *)
(***************************************************************************)
DisconnectEnds == (op = "look") ~> [](state_ # "CONNECTING" /\ timers = 0)
=============================================================================
