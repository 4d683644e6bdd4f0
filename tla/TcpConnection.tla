--------------------------- MODULE TcpConnection ---------------------------
(***************************************************************************)
(* TCPConnection (src/src/tcp_connection.cc): one connection, its loop's   *)
(* thread, the threads that use it and the kernel's side of the socket.    *)
(*                                                                         *)
(* tasks is the part of the loop's task_list_ (EventLoop.tla) that         *)
(* concerns the connection.  A message m is MsgLen[m] bytes, a byte        *)
(* being the pair of message and position, so that bytes lost,             *)
(* repeated or reordered show.  The loop's thread makes calls of its own   *)
(* from callbacks and tasks, at any time: none of the handlers gives way.  *)
(***************************************************************************)
EXTENDS Naturals, Sequences, FiniteSets

CONSTANTS
  Others,       \* threads other than the loop's
  Msgs,         \* messages, each sent at most once
  MsgLen,       \* their lengths
  SndBuf,       \* capacity of the kernel's send buffer
  MaxIn,        \* bound on the packets the peer sends
  MaxTasks      \* calls are made while fewer tasks than this are queued

ASSUME LengthAssumption == MsgLen \in [Msgs -> Nat \ {0}] /\ SndBuf \in Nat \ {0}
ASSUME BoundAssumption == MaxIn \in Nat /\ MaxTasks \in Nat

VARIABLES
  state_,
  reading, writing,     \* the channel's events_
  buffer_output_,
  tasks,                \* queued calls on the connection
  pc,                   \* the loop's thread
  revents,              \* what HandleEvent_() still has to look at
  calls,                \* what a thread that saw CONNECTED is going to queue
  used,                 \* messages handed to Send()
  removing,             \* remove_cb_ was called, ConnectionDestroy() not queued yet
  inbound, fin, rst,    \* kernel: packets to read, FIN and RST of the peer
  sndbuf,               \* kernel: bytes not yet taken by the peer
  wrClosed,             \* kernel: shutdown(SHUT_WR) was done
  received,             \* history: bytes the peer got
  accepted,             \* history: bytes _Send() took, in order
  failed,               \* history: a send() of _Send() returned an error
  closeAsked,           \* history: ForceClose() while CONNECTED
  downs                 \* history: calls of disconnection_cb_ and remove_cb_

connvars == <<state_, reading, writing, buffer_output_>>
loopvars == <<tasks, pc, revents>>
uservars == <<calls, used, closeAsked>>
kernvars == <<inbound, fin, rst, sndbuf, wrClosed, received>>
histvars == <<accepted, failed, downs, removing>>
vars == <<connvars, loopvars, uservars, kernvars, histvars>>

Bytes(m) == [i \in 1..MsgLen[m] |-> <<m, i>>]
NoMsg == {}
Task(kind, m) == [kind |-> kind, msg |-> m]

\* The constructor, Initialize(), and ConnectionEstablished() queued by
\* OnNewConnection().
Init ==
  /\ state_ = "CONNECTING" /\ reading = FALSE /\ writing = FALSE
  /\ buffer_output_ = <<>>
  /\ tasks = <<Task("established", NoMsg)>> /\ pc = "loop" /\ revents = {}
  /\ calls = [t \in Others |-> {}] /\ used = {}
  /\ removing = FALSE
  /\ inbound = 0 /\ fin = FALSE /\ rst = FALSE
  /\ sndbuf = <<>> /\ wrClosed = FALSE
  /\ received = <<>> /\ accepted = <<>> /\ failed = FALSE
  /\ closeAsked = FALSE /\ downs = 0

-----------------------------------------------------------------------------
(* The peer and the kernel *)

PeerSends ==
  /\ inbound < MaxIn /\ ~fin /\ ~rst /\ inbound' = inbound + 1
  /\ UNCHANGED <<connvars, loopvars, uservars, histvars, fin, rst, sndbuf, wrClosed, received>>

PeerReads ==
  /\ sndbuf # <<>> /\ ~rst
  /\ received' = Append(received, Head(sndbuf)) /\ sndbuf' = Tail(sndbuf)
  /\ UNCHANGED <<connvars, loopvars, uservars, histvars, inbound, fin, rst, wrClosed>>

PeerCloses ==
  /\ ~fin /\ ~rst /\ fin' = TRUE
  /\ UNCHANGED <<connvars, loopvars, uservars, histvars, inbound, rst, sndbuf, wrClosed, received>>

\* The peer is gone; what the kernel still had to send is lost.
PeerResets ==
  /\ ~rst /\ rst' = TRUE
  /\ UNCHANGED <<connvars, loopvars, uservars, histvars, inbound, fin, sndbuf, wrClosed, received>>

Space == SndBuf - Len(sndbuf)
CanSend == ~rst /\ ~wrClosed /\ Space > 0

\* send() takes as much as there is room for, when it takes anything.
Sendable(len) == IF len <= Space THEN len ELSE Space

-----------------------------------------------------------------------------
(* _Send(), in the loop's thread *)

\* Fault: a partial send() buffers the message from its start.
Rest_Whole(bytes, n) == bytes

\* What _SendDatQueueInBuffer() is given.
Rest(bytes, n) == SubSeq(bytes, n + 1, Len(bytes))

\* Fault: EnableWriting() is forgotten.
SendDatQueueInBuffer_NoEnable(rest) ==
  /\ buffer_output_' = buffer_output_ \o rest
  /\ UNCHANGED <<state_, reading, writing>>

SendDatQueueInBuffer(rest) ==
  /\ buffer_output_' = buffer_output_ \o rest /\ writing' = TRUE
  /\ UNCHANGED <<state_, reading>>

\* _Send() when the state is CONNECTED.  Output that waits goes first; else
\* send() is tried, and an error, EAGAIN included, drops the message.  The
\* write-complete and high-water-mark callbacks are queued for the users.
SendMsg(m) ==
  \/ /\ writing
     /\ SendDatQueueInBuffer(Bytes(m))
     /\ accepted' = accepted \o Bytes(m)
     /\ UNCHANGED <<sndbuf, failed>>
  \/ /\ ~writing /\ ~CanSend
     /\ failed' = TRUE
     /\ UNCHANGED <<connvars, sndbuf, accepted>>
  \/ /\ ~writing /\ CanSend
     /\ LET n == Sendable(MsgLen[m]) IN
        /\ sndbuf' = sndbuf \o SubSeq(Bytes(m), 1, n)
        /\ IF n = MsgLen[m] THEN UNCHANGED connvars ELSE SendDatQueueInBuffer(Rest(Bytes(m), n))
     /\ accepted' = accepted \o Bytes(m)
     /\ UNCHANGED failed

-----------------------------------------------------------------------------
(* Calls.  Another thread looks at state_ and then queues; the loop's thread
   sends at once and queues the rest.  Calls are ignored unless CONNECTED. *)

AskedBy(kind) == closeAsked' = (closeAsked \/ kind = "close")

\* Send(), ShutdownWirte() or ForceClose(), by another thread: the test of state_.
CallCheck(t, task) ==
  /\ pc # "aborted" /\ calls[t] = {} /\ state_ = "CONNECTED" /\ Len(tasks) < MaxTasks
  /\ calls' = [calls EXCEPT ![t] = {task}]
  /\ used' = IF task.kind = "send" THEN used \cup {task.msg} ELSE used
  /\ UNCHANGED <<closeAsked, connvars, loopvars, kernvars, histvars>>

\* ... and its QueueInLoop().
CallQueue(t) ==
  /\ pc # "aborted"
  /\ \E task \in calls[t] : tasks' = Append(tasks, task) /\ AskedBy(task.kind)
  /\ calls' = [calls EXCEPT ![t] = {}]
  /\ UNCHANGED <<used, pc, revents, connvars, kernvars, histvars>>

Send(m) ==
  /\ pc # "aborted" /\ state_ = "CONNECTED" /\ SendMsg(m)
  /\ used' = used \cup {m}
  /\ UNCHANGED <<calls, closeAsked, loopvars, downs, removing>>
  /\ UNCHANGED <<inbound, fin, rst, wrClosed, received>>

\* ShutdownWirte() or ForceClose() by the loop's thread.
CallInLoop(kind) ==
  /\ pc # "aborted" /\ state_ = "CONNECTED" /\ Len(tasks) < MaxTasks
  /\ tasks' = Append(tasks, Task(kind, NoMsg)) /\ AskedBy(kind)
  /\ UNCHANGED <<calls, used, pc, revents, connvars, kernvars, histvars>>

-----------------------------------------------------------------------------
(* Tasks of the connection, run by DoPendingTasks() *)

ConnectionEstablished ==
  /\ state_' = "CONNECTED" /\ reading' = TRUE
  /\ UNCHANGED <<writing, buffer_output_, sndbuf, wrClosed, histvars>>

SendInLoop(m) ==
  /\ \/ state_ = "CONNECTED" /\ SendMsg(m)
     \/ state_ # "CONNECTED" /\ UNCHANGED <<connvars, sndbuf, accepted, failed>>
  /\ UNCHANGED <<wrClosed, downs, removing>>

\* Fault: the write side is closed over waiting output.
ShutdownWriteInLoop_Always ==
  /\ wrClosed' = TRUE
  /\ UNCHANGED <<connvars, sndbuf, histvars>>

ShutdownWriteInLoop ==
  /\ wrClosed' = (wrClosed \/ ~writing)
  /\ UNCHANGED <<connvars, sndbuf, histvars>>

\* DisableAll(), disconnection_cb_ and remove_cb_.
HandleClose ==
  /\ state_' = "DISCONNECTING" /\ reading' = FALSE /\ writing' = FALSE
  /\ downs' = downs + 1 /\ removing' = TRUE
  /\ UNCHANGED <<buffer_output_, accepted, failed>>

\* Fault: the connection is closed again.
ForceCloseInLoop_Again == HandleClose /\ UNCHANGED <<sndbuf, wrClosed>>

\* Fault: like ShutdownWriteInLoop(), it does nothing while output waits.
ForceCloseInLoop_NotWriting ==
  /\ IF writing \/ state_ \in {"DISCONNECTING", "DISCONNECTED"}
       THEN UNCHANGED <<connvars, histvars>> ELSE HandleClose
  /\ UNCHANGED <<sndbuf, wrClosed>>

ForceCloseInLoop ==
  /\ IF state_ \in {"DISCONNECTING", "DISCONNECTED"}
       THEN UNCHANGED <<connvars, histvars>> ELSE HandleClose
  /\ UNCHANGED <<sndbuf, wrClosed>>

ConnectionDestroy ==
  /\ state_' = "DISCONNECTED"
  /\ UNCHANGED <<reading, writing, buffer_output_, sndbuf, wrClosed, histvars>>

RunTask ==
  /\ pc = "loop" /\ tasks # <<>>
  /\ \/ Head(tasks).kind = "established" /\ ConnectionEstablished
     \/ Head(tasks).kind = "send" /\ SendInLoop(Head(tasks).msg)
     \/ Head(tasks).kind = "shutdown" /\ ShutdownWriteInLoop
     \/ Head(tasks).kind = "close" /\ ForceCloseInLoop
     \/ Head(tasks).kind = "destroy" /\ ConnectionDestroy
  /\ tasks' = Tail(tasks)
  /\ UNCHANGED <<pc, revents, uservars, inbound, fin, rst, received>>

\* TCPServer::OnConnectionRemoveInLoop(), in the server's thread.
RemoveConnection ==
  /\ removing /\ removing' = FALSE /\ pc # "aborted"
  /\ tasks' = Append(tasks, Task("destroy", NoMsg))
  /\ UNCHANGED <<pc, revents, connvars, uservars, kernvars, accepted, failed, downs>>

-----------------------------------------------------------------------------
(* Events *)

\* What epoll reports of the socket: a hang-up always, the rest on request.
Ready ==
  {e \in {"hup", "in", "out"} :
     \/ e = "hup" /\ (rst \/ (fin /\ wrClosed))
     \/ e = "in" /\ reading /\ (inbound > 0 \/ fin)
     \/ e = "out" /\ writing /\ Space > 0}

Poll ==
  /\ pc = "loop" /\ (reading \/ writing) /\ Ready # {}
  /\ revents' = Ready /\ pc' = "polled"
  /\ UNCHANGED <<tasks, connvars, uservars, kernvars, histvars>>

\* HandleEvent_() has looked at everything.
EventDone ==
  /\ pc = "polled" /\ revents = {} /\ pc' = "loop"
  /\ UNCHANGED <<tasks, revents, connvars, uservars, kernvars, histvars>>

\* HandleEvent_(): a hang-up comes first and is all that is looked at.
HandleHup ==
  /\ pc = "polled" /\ "hup" \in revents
  /\ HandleClose /\ revents' = {}
  /\ UNCHANGED <<tasks, pc, uservars, kernvars>>

\* read_cb_ is called with what there is to read; the end of the stream closes
\* the connection; an error is only logged.
HandleRead ==
  /\ pc = "polled" /\ "hup" \notin revents /\ "in" \in revents
  /\ revents' = revents \ {"in"}
  /\ \/ inbound > 0 /\ ~rst /\ inbound' \in 0..(inbound - 1) /\ UNCHANGED <<connvars, histvars>>
     \/ inbound = 0 /\ fin /\ ~rst /\ HandleClose /\ UNCHANGED inbound
     \/ rst /\ UNCHANGED <<inbound, connvars, histvars>>
  /\ UNCHANGED <<tasks, pc, uservars, fin, rst, sndbuf, wrClosed, received>>

Retrieve(n) == SubSeq(buffer_output_, n + 1, Len(buffer_output_))

\* Starts with assert(CONNECTED == state_).
HandleWrite ==
  /\ pc = "polled" /\ revents = {"out"}
  /\ revents' = {}
  /\ \/ state_ # "CONNECTED" /\ pc' = "aborted" /\ UNCHANGED <<connvars, sndbuf>>
     \/ state_ = "CONNECTED" /\ ~CanSend /\ UNCHANGED <<pc, connvars, sndbuf>>
     \/ /\ state_ = "CONNECTED" /\ CanSend
        /\ LET n == Sendable(Len(buffer_output_)) IN
           /\ sndbuf' = sndbuf \o SubSeq(buffer_output_, 1, n)
           /\ buffer_output_' = Retrieve(n)
           /\ writing' = (n # Len(buffer_output_))
        /\ UNCHANGED <<pc, state_, reading>>
  /\ UNCHANGED <<tasks, uservars, histvars, inbound, fin, rst, wrClosed, received>>

-----------------------------------------------------------------------------
UserCalls ==
  {Task("send", m) : m \in Msgs \ used} \cup {Task(k, NoMsg) : k \in {"shutdown", "close"}}

HandleEvent == HandleHup \/ HandleRead \/ HandleWrite \/ EventDone
Peer == PeerSends \/ PeerReads \/ PeerCloses \/ PeerResets

Next ==
  \/ Peer \/ Poll \/ HandleEvent \/ RunTask \/ RemoveConnection
  \/ \E m \in Msgs \ used : Send(m)
  \/ \E k \in {"shutdown", "close"} : CallInLoop(k)
  \/ \E t \in Others : CallQueue(t) \/ \E task \in UserCalls : CallCheck(t, task)

Spec == Init /\ [][Next]_vars

(***************************************************************************)
(* The loop's thread goes around: it dispatches what Poll() reported and   *)
(* runs the queued tasks after every dispatch.  Threads finish calls they  *)
(* began, the server's thread runs its tasks, and the peer keeps reading.  *)
(***************************************************************************)
Fairness ==
  /\ WF_vars(Poll) /\ WF_vars(HandleEvent) /\ SF_vars(RunTask)
  /\ WF_vars(RemoveConnection) /\ WF_vars(PeerReads)
  /\ \A t \in Others : WF_vars(CallQueue(t))

FairSpec == Spec /\ Fairness

-----------------------------------------------------------------------------
(***************************************************************************)
(* The byte stream is intact: what _Send() took without an error is, in    *)
(* this order, what the peer has, what the kernel has and what waits in    *)
(* buffer_output_, whatever mix of direct, queued and partial sends.       *)
(***************************************************************************)
StreamIntact == accepted = received \o sndbuf \o buffer_output_

(***************************************************************************)
(* Write events are wanted exactly while output waits (the assertion of    *)
(* _SendMostPossible()), and the write side is never shut over it.         *)
(***************************************************************************)
WritingMatches ==
  state_ = "CONNECTED" =>
    /\ writing <=> buffer_output_ # <<>>
    /\ writing => ~wrClosed

(***************************************************************************)
(* The connection goes down once: disconnection_cb_ and remove_cb_ are     *)
(* called at most once, never before the connection was up, and no task    *)
(* destroys it before they were.                                           *)
(***************************************************************************)
DownOnce ==
  /\ downs = (IF state_ \in {"DISCONNECTING", "DISCONNECTED"} THEN 1 ELSE 0)
  /\ Cardinality({i \in DOMAIN tasks : tasks[i].kind = "destroy"})
       + (IF removing THEN 1 ELSE 0) + (IF state_ = "DISCONNECTED" THEN 1 ELSE 0) = downs

(***************************************************************************)
(* Waiting output is sent, as long as the peer reads and the connection    *)
(* stays up.                                                               *)
(***************************************************************************)
OutputDrains ==
  (buffer_output_ # <<>>) ~> (buffer_output_ = <<>> \/ state_ # "CONNECTED")

(***************************************************************************)
(* A ForceClose() of a connection that is up leads to its destruction,     *)
(* unless an assertion stops the program before.                           *)
(***************************************************************************)
CloseCompletes == closeAsked ~> (state_ = "DISCONNECTED" \/ pc = "aborted")

(***************************************************************************)
(* assert(CONNECTED == state_) in HandleWrite() holds.                     *)
(***************************************************************************)
WriteAssertHolds == pc # "aborted"

(***************************************************************************)
(* After a send() of _Send() failed the connection is closed.  A write     *)
(* side the user shut down before is not held against it.                  *)
(***************************************************************************)
SendFailureCloses == (failed /\ ~wrClosed) ~> (state_ # "CONNECTED" \/ wrClosed)
=============================================================================
