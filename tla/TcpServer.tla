----------------------------- MODULE TcpServer -----------------------------
(***************************************************************************)
(* TCPServer (src/src/tcp_server.cc) with the life cycle of its            *)
(* connections (src/src/tcp_connection.cc): accepted in the server's loop, *)
(* served in a loop of the pool, removed by a round trip between the two,  *)
(* and freed with the last shared_ptr, which closes the descriptor and     *)
(* lets accept() hand it out again.                                        *)
(*                                                                         *)
(* The loops come from EventLoopThreadPool.tla; with no threads set, all   *)
(* connections stay in the server's.  A loop is its task queue             *)
(* (TaskQueue.tla); RunInLoop() from the loop's own thread is immediate.   *)
(* The bytes of a connection are the subject of TcpConnection.tla: of its  *)
(* events only the one that closes it is here.                             *)
(***************************************************************************)
EXTENDS EventLoopThreadPool, Acceptor, Sequences

CONSTANTS
  NULL,         \* no connection
  StopInUse,    \* may Stop() be called while the pool's loops have connections?
  MaxTasks      \* ForceClose() is called while fewer tasks than this are queued

ASSUME NullAssumption == NULL \notin Conns
ASSUME StopAssumption == StopInUse \in BOOLEAN /\ MaxTasks \in Nat

Base == -1      \* the server's loop, owner_loop_
Loops == 0..(MaxThreads - 1) \cup {Base}

VARIABLES
  state_,           \* by connection; "none" before it is constructed
  fd_, owner_loop_,
  listening,        \* by connection: is its channel registered with epoll?
  tcp_conn_list_, tcp_conn_count_,
  queue,            \* the task_list_ of every loop
  held,             \* connections the users keep a TCPConnectionPtr to
  stage,            \* of the server: "new", "serving", "stopped" or "gone"
  downs             \* history: calls of disconnection_cb_, by connection

connvars == <<state_, fd_, owner_loop_, listening, downs>>
listvars == <<tcp_conn_list_, tcp_conn_count_>>
servervars == <<connvars, listvars, queue, held, stage>>
vars == <<servervars, poolvars, accvars>>

Task(kind, c) == [kind |-> kind, conn |-> c]
Queued(l) == {queue[l][i].conn : i \in DOMAIN queue[l]}

\* A connection lives as long as a shared_ptr to it: in the list, bound into
\* a queued task, or kept by a user.  Its descriptor is open as long.
Alive ==
  ({tcp_conn_list_[f] : f \in Fds} \ {NULL}) \cup (UNION {Queued(l) : l \in Loops}) \cup held

Created == {c \in Conns : state_[c] # "none"}

Init ==
  /\ state_ = [c \in Conns |-> "none"]
  /\ fd_ = [c \in Conns |-> -1] /\ owner_loop_ = [c \in Conns |-> Base]
  /\ listening = [c \in Conns |-> FALSE] /\ downs = [c \in Conns |-> 0]
  /\ tcp_conn_list_ = [f \in Fds |-> NULL] /\ tcp_conn_count_ = 0
  /\ queue = [l \in Loops |-> <<>>] /\ held = {}
  /\ stage = "new" /\ PoolInit /\ AcceptorInit

\* Base's thread is in Loop() between Start() and Stop(), and not again.
Serving == running_ /\ ~stopping

\* Can loop l turn to an event or a task?  Base's thread may be in HandleRead().
Runs(l) == IF l = Base THEN Serving /\ step = "poll" ELSE l \in alive

SetEventLoopNums(n) == SetThreadNums(n) /\ UNCHANGED <<servervars, accvars>>

Start ==
  /\ stage = "new" /\ PoolStart /\ stage' = "serving"
  /\ UNCHANGED <<connvars, listvars, queue, held, accvars>>

-----------------------------------------------------------------------------
(* The acceptor, in Base's thread, and OnNewConnection(), which it calls *)

\* The descriptors of connections.
Used == {fd_[c] : c \in Alive}

NewClient(c) ==
  /\ Serving /\ state_[c] = "none" /\ Connect(c)
  /\ UNCHANGED <<servervars, poolvars>>

OtherThreads ==
  /\ Serving /\ \E f \in Fds : OthersOpen(f, Used) \/ OthersClose(f)
  /\ UNCHANGED <<servervars, poolvars>>

AcceptorStep ==
  /\ Serving /\ HandleReadFails(Used)
  /\ UNCHANGED <<servervars, poolvars>>

\* ConnectionEstablished(): the state, and EnableReading().
Established(c) ==
  /\ state_' = [state_ EXCEPT ![c] = "CONNECTED"]
  /\ listening' = [listening EXCEPT ![c] = TRUE]

\* The list has a slot for every descriptor: kConnSize is the system's limit.
AddConnListItem(c, f) ==
  /\ tcp_conn_list_' = [tcp_conn_list_ EXCEPT ![f] = c]
  /\ tcp_conn_count_' = tcp_conn_count_ + 1

OnNewConnection(c, f) ==
  /\ Serving /\ Accept(c, f, Used) /\ GetNextEventLoop
  /\ AddConnListItem(c, f)
  /\ fd_' = [fd_ EXCEPT ![c] = f]
  /\ \/ /\ picked' = {}
        /\ owner_loop_' = [owner_loop_ EXCEPT ![c] = Base]
        /\ Established(c) /\ UNCHANGED queue
     \/ \E l \in picked' :
        /\ owner_loop_' = [owner_loop_ EXCEPT ![c] = l]
        /\ state_' = [state_ EXCEPT ![c] = "CONNECTING"]
        /\ queue' = [queue EXCEPT ![l] = Append(@, Task("established", c))]
        /\ UNCHANGED listening
  /\ UNCHANGED <<downs, held, stage>>

-----------------------------------------------------------------------------
(* HandleClose() and the removal it starts *)

\* Fault: DelConnListItem() counts but keeps the entry.
DelConnListItem_Keep(c) ==
  /\ tcp_conn_count_' = tcp_conn_count_ - 1
  /\ UNCHANGED tcp_conn_list_

DelConnListItem(c) ==
  /\ tcp_conn_list_' = [tcp_conn_list_ EXCEPT ![fd_[c]] = NULL]
  /\ tcp_conn_count_' = tcp_conn_count_ - 1

\* OnConnectionRemove(), from a loop of the pool: on to Base.
OnConnectionRemove(c, rest) ==
  /\ queue' = [rest EXCEPT ![Base] = Append(@, Task("remove", c))]
  /\ UNCHANGED listvars

\* DisableAll(), disconnection_cb_ and remove_cb_.  On Base itself the whole
\* removal, up to ConnectionDestroy(), is done by nested calls.
HandleClose(c, rest) ==
  /\ listening' = [listening EXCEPT ![c] = FALSE]
  /\ downs' = [downs EXCEPT ![c] = @ + 1]
  /\ \/ /\ owner_loop_[c] = Base
        /\ DelConnListItem(c)
        /\ state_' = [state_ EXCEPT ![c] = "DISCONNECTED"]
        /\ queue' = rest
     \/ /\ owner_loop_[c] # Base
        /\ state_' = [state_ EXCEPT ![c] = "DISCONNECTING"]
        /\ OnConnectionRemove(c, rest)
  /\ UNCHANGED <<fd_, owner_loop_>>

\* The loop of c finds the connection closed by the peer.
CloseEvent(c) ==
  /\ listening[c] /\ c \in Alive /\ Runs(owner_loop_[c])
  /\ HandleClose(c, queue)
  /\ UNCHANGED <<held, stage, poolvars, accvars>>

-----------------------------------------------------------------------------
(* Users.  A callback hands them the TCPConnectionPtr, which they may keep. *)

Keep(c) ==
  /\ Serving /\ c \in Alive \ held /\ state_[c] = "CONNECTED"
  /\ held' = held \cup {c}
  /\ UNCHANGED <<connvars, listvars, queue, stage, poolvars, accvars>>

Release(c) ==
  /\ c \in held /\ held' = held \ {c}
  /\ UNCHANGED <<connvars, listvars, queue, stage, poolvars, accvars>>

ForceClose(c) ==
  /\ Serving /\ c \in held /\ state_[c] = "CONNECTED"
  /\ Len(queue[owner_loop_[c]]) < MaxTasks
  /\ queue' = [queue EXCEPT ![owner_loop_[c]] = Append(@, Task("close", c))]
  /\ UNCHANGED <<connvars, listvars, held, stage, poolvars, accvars>>

-----------------------------------------------------------------------------
(* Tasks: DoPendingTasks() of loop l runs the first *)

\* Fault: the closed connection is closed again.
ForceCloseInLoop_Again(c, rest) == HandleClose(c, rest)

ForceCloseInLoop(c, rest) ==
  \/ state_[c] \notin {"DISCONNECTING", "DISCONNECTED"} /\ HandleClose(c, rest)
  \/ /\ state_[c] \in {"DISCONNECTING", "DISCONNECTED"}
     /\ queue' = rest /\ UNCHANGED <<connvars, listvars>>

\* Fault: ConnectionDestroy() is not handed back to the connection's loop.
OnConnectionRemoveInLoop_NoDestroy(c, rest) ==
  /\ DelConnListItem(c) /\ queue' = rest
  /\ UNCHANGED connvars

OnConnectionRemoveInLoop(c, rest) ==
  /\ DelConnListItem(c)
  /\ queue' = [rest EXCEPT ![owner_loop_[c]] = Append(@, Task("destroy", c))]
  /\ UNCHANGED connvars

\* ConnectionDestroy(): the state, and Channel::Remove().
ConnectionDestroy(c) ==
  /\ state_' = [state_ EXCEPT ![c] = "DISCONNECTED"]
  /\ listening' = [listening EXCEPT ![c] = FALSE]

RunTask(l) ==
  /\ Runs(l) /\ queue[l] # <<>>
  /\ LET task == Head(queue[l])
         rest == [queue EXCEPT ![l] = Tail(@)]
     IN \/ /\ task.kind = "established" /\ Established(task.conn) /\ queue' = rest
           /\ UNCHANGED <<fd_, owner_loop_, downs, listvars>>
        \/ task.kind = "close" /\ ForceCloseInLoop(task.conn, rest)
        \/ task.kind = "remove" /\ OnConnectionRemoveInLoop(task.conn, rest)
        \/ /\ task.kind = "destroy" /\ ConnectionDestroy(task.conn) /\ queue' = rest
           /\ UNCHANGED <<fd_, owner_loop_, downs, listvars>>
  /\ UNCHANGED <<held, stage, poolvars, accvars>>

-----------------------------------------------------------------------------
(* Stop(), in Base's thread when its Loop() has returned *)

Listed == {tcp_conn_list_[f] : f \in Fds} \ {NULL}

\* Fault: the connections are left alone.
ToDestroy_None == {}

\* The connections Stop() destroys.
ToDestroy == Listed

\* The tasks it queues in loop l.  Their order is left open, as nobody runs them.
DestroyTasks(l) ==
  LET S == {c \in ToDestroy : owner_loop_[c] = l}
      conns == CHOOSE s \in [1..Cardinality(S) -> S] : \A c \in S : \E i \in DOMAIN s : s[i] = c
  IN [i \in DOMAIN conns |-> Task("destroy", conns[i])]

Stop ==
  /\ PoolStop /\ queue[Base] = <<>> /\ step = "poll"
  /\ loops_ # {} /\ Listed # {} => StopInUse
  /\ UNCHANGED <<servervars, accvars>>

\* The thread of l ends: its loop ran the tasks it had and is destroyed.
LoopExit(l) ==
  /\ StopLoop(l) /\ queue[l] = <<>>
  /\ UNCHANGED <<servervars, accvars>>

\* loop_thread_pool_->Stop() has returned: ConnectionDestroy() is handed to
\* the loop of every connection that is still listed.
StopConnections ==
  /\ PoolStopReturn /\ stage' = "stopped"
  /\ \/ /\ loops_ = {}
        /\ state_' = [c \in Conns |-> IF c \in ToDestroy THEN "DISCONNECTED" ELSE state_[c]]
        /\ listening' = [c \in Conns |-> listening[c] /\ c \notin ToDestroy]
        /\ UNCHANGED queue
     \/ /\ loops_ # {}
        /\ queue' = [l \in Loops |-> queue[l] \o DestroyTasks(l)]
        /\ UNCHANGED <<state_, listening>>
  /\ UNCHANGED <<fd_, owner_loop_, downs, listvars, held, accvars>>

\* ~TCPServer()
DestroyServer ==
  /\ stage = "stopped" /\ stage' = "gone" /\ DestroyAcceptor
  /\ tcp_conn_list_' = [f \in Fds |-> NULL] /\ tcp_conn_count_' = 0
  /\ UNCHANGED <<connvars, queue, held, poolvars>>

-----------------------------------------------------------------------------
Next ==
  \/ (\E n \in 0..MaxThreads : SetEventLoopNums(n)) \/ Start
  \/ OtherThreads \/ AcceptorStep
  \/ \E c \in Conns : NewClient(c) \/ \E f \in Fds : OnNewConnection(c, f)
  \/ \E c \in Conns : CloseEvent(c) \/ Keep(c) \/ Release(c) \/ ForceClose(c)
  \/ \E l \in Loops : RunTask(l)
  \/ Stop \/ (\E l \in alive : LoopExit(l)) \/ StopConnections \/ DestroyServer

Spec == Init /\ [][Next]_vars

\* Every loop's thread runs its tasks, and Base's the acceptor; between two
\* HandleRead() of the acceptor Base runs its tasks.
FairSpec ==
  /\ Spec /\ (\A l \in Loops \ {Base} : WF_vars(RunTask(l))) /\ SF_vars(RunTask(Base))
  /\ WF_vars(AcceptorStep \/ \E c \in Conns, f \in Fds : OnNewConnection(c, f))

-----------------------------------------------------------------------------
\* What DumpConnections() asserts after every removal.
DumpConnections ==
  /\ \A f \in Fds : tcp_conn_list_[f] # NULL => fd_[tcp_conn_list_[f]] = f
  /\ tcp_conn_count_ = Cardinality(Listed)

(***************************************************************************)
(* The list is indexed by descriptor and counted (DumpConnections()), its  *)
(* slots are empty when AddConnListItem() fills them, and a removal under  *)
(* way finds its own connection in the slot, although descriptors are      *)
(* reused: DelConnListItem() never drops another one.  A connection is in  *)
(* a loop of the pool, or in the server's if there is none.                *)
(***************************************************************************)
ListConsistent ==
  /\ DumpConnections
  /\ \A f \in Free(Used) : tcp_conn_list_[f] = NULL
  /\ \A c \in Listed : owner_loop_[c] \in loops_ \cup {Base}
  /\ \A c \in Conns : (state_[c] = "DISCONNECTING" /\ Serving) =>
       (tcp_conn_list_[fd_[c]] = c <=> Task("remove", c) \in {queue[Base][i] : i \in DOMAIN queue[Base]})

(***************************************************************************)
(* A connection is freed only when it is DISCONNECTED (the assertion of    *)
(* ~TCPConnection()) and its channel is no longer registered with epoll.   *)
(***************************************************************************)
FreedClean ==
  \A c \in Created \ Alive : state_[c] = "DISCONNECTED" /\ ~listening[c]

(***************************************************************************)
(* disconnection_cb_ is called at most once for a connection, however      *)
(* closing by the peer, ForceClose() and the removal interleave, and only  *)
(* after it was CONNECTED.                                                 *)
(***************************************************************************)
DownOnce ==
  \A c \in Conns :
    /\ downs[c] <= 1
    /\ state_[c] \in {"none", "CONNECTING", "CONNECTED"} => downs[c] = 0

(***************************************************************************)
(* A connection that went down is removed from the list and destroyed, as  *)
(* long as the server runs.                                                *)
(***************************************************************************)
RemovalCompletes ==
  \A c \in Conns : (downs[c] = 1) ~>
    ((state_[c] = "DISCONNECTED" /\ c \notin Listed) \/ ~Serving)

(***************************************************************************)
(* Whenever HandleRead() may close idle_fd_, it names the one descriptor   *)
(* that the acceptor has open, or none: however other threads open and     *)
(* close descriptors, the acceptor neither leaks one nor closes one that a *)
(* connection or another thread has got in the meantime.                   *)
(***************************************************************************)
IdleOwned ==
  step \in {"poll", "accept"} /\ stage # "gone" =>
    opened = {idle_fd_} \ {-1} /\ idle_fd_ \notin Used \cup others

(***************************************************************************)
(* A client that waits is accepted or dropped, also when no descriptor is  *)
(* left, as long as the server runs and no other thread has taken the idle *)
(* descriptor while it was given up.                                       *)
(***************************************************************************)
BacklogServed ==
  \A c \in Conns : (c \in backlog) ~> (c \notin backlog \/ idle_fd_ = -1 \/ ~Serving)

(***************************************************************************)
(* ConnectionDestroy() is run in the connection's own thread: nothing is   *)
(* handed to a loop that was destroyed.                                    *)
(***************************************************************************)
DestroyedInLoop == \A l \in loops_ \ alive : queue[l] = <<>>
=============================================================================
