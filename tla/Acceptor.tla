------------------------------ MODULE Acceptor ------------------------------
(***************************************************************************)
(* Acceptor (src/src/acceptor.cc): the accept loop of HandleRead(), with   *)
(* the descriptor idle_fd_ that is given up when the process has no other  *)
(* left, so that a waiting connection can be taken and dropped.  The       *)
(* server that composes these operators says which descriptors its         *)
(* connections use (used); other threads open and close descriptors at any *)
(* point.  step is where the acceptor's thread is:                         *)
(*   "poll"    not in HandleRead()                                         *)
(*   "accept"  about to call accept4() again                               *)
(*   "drop"    accept4() failed with EMFILE, idle_fd_ was closed           *)
(*   "reopen"  about to open /dev/null                                     *)
(***************************************************************************)
EXTENDS Integers, FiniteSets

CONSTANTS
  Conns,        \* connections of clients, each used once
  Fds,          \* the descriptors the process may have, besides 0, 1 and 2
  MaxOthers     \* bound on the descriptors of other threads

ASSUME FdAssumption ==
  /\ Fds \subseteq Nat \ 0..2 /\ IsFiniteSet(Fds)
  /\ MaxOthers \in Nat

VARIABLES
  step,
  idle_fd_,     \* -1 if it could not be opened
  opened,       \* the descriptors that HandleRead() opened and did not close
  backlog,      \* connections that wait at the listening socket
  refused,      \* connections that were dropped
  others        \* descriptors opened by other threads

accvars == <<step, idle_fd_, opened, backlog, refused, others>>

\* The system hands out the lowest descriptor that is free.
Least(f, S) == f \in S /\ \A g \in S : f <= g

\* Initialize(): idle_fd_ is opened, or the process exits.
AcceptorInit ==
  /\ step = "poll" /\ Least(idle_fd_, Fds) /\ opened = {idle_fd_}
  /\ backlog = {} /\ refused = {} /\ others = {}

Free(used) == Fds \ (used \cup opened \cup others)

\* A new descriptor is the lowest that is free.
NewFd(f, used) == Least(f, Free(used))

-----------------------------------------------------------------------------
(* Clients and other threads *)

Connect(c) ==
  /\ c \notin backlog \cup refused /\ backlog' = backlog \cup {c}
  /\ UNCHANGED <<step, idle_fd_, opened, refused, others>>

OthersOpen(f, used) ==
  /\ NewFd(f, used) /\ Cardinality(others) < MaxOthers
  /\ others' = others \cup {f}
  /\ UNCHANGED <<step, idle_fd_, opened, backlog, refused>>

OthersClose(f) ==
  /\ f \in others /\ others' = others \ {f}
  /\ UNCHANGED <<step, idle_fd_, opened, backlog, refused>>

-----------------------------------------------------------------------------
(* HandleRead() *)

\* accept4() is called: the event of a waiting connection, or the loop.
Accepting == step = "accept" \/ (step = "poll" /\ backlog # {})

\* The connection is handed to new_conn_cb_ with descriptor f.
Accept(c, f, used) ==
  /\ Accepting /\ c \in backlog /\ NewFd(f, used)
  /\ backlog' = backlog \ {c} /\ step' = "accept"
  /\ UNCHANGED <<idle_fd_, opened, refused, others>>

Refuse(c) == backlog' = backlog \ {c} /\ refused' = refused \cup {c}

\* CheckConnection() fails and the descriptor is closed.
AcceptBad(c, used) ==
  /\ Accepting /\ c \in backlog /\ Free(used) # {}
  /\ Refuse(c) /\ step' = "accept"
  /\ UNCHANGED <<idle_fd_, opened, others>>

\* EAGAIN
AcceptNone(used) ==
  /\ step = "accept" /\ backlog = {} /\ Free(used) # {}
  /\ step' = "poll"
  /\ UNCHANGED <<idle_fd_, opened, backlog, refused, others>>

\* Another error, such as ECONNABORTED
AcceptError(c, used) ==
  /\ Accepting /\ c \in backlog /\ Free(used) # {}
  /\ Refuse(c) /\ step' = "poll"
  /\ UNCHANGED <<idle_fd_, opened, others>>

\* EMFILE: Linux looks for a free descriptor before it looks for a connection.
AcceptFull(used) ==
  /\ Accepting /\ Free(used) = {}
  /\ opened' = opened \ {idle_fd_} /\ step' = "drop"
  /\ UNCHANGED <<idle_fd_, backlog, refused, others>>

\* Fault: the waiting connection is left where it is.
DropConnection_Not(used) ==
  /\ step = "drop" /\ step' = "reopen"
  /\ UNCHANGED <<idle_fd_, opened, backlog, refused, others>>

\* The second AcceptConnection(), whose descriptor is closed at once.
DropConnection(used) ==
  /\ step = "drop" /\ step' = "reopen"
  /\ \/ \E c \in backlog, f \in Free(used) : Refuse(c) /\ NewFd(f, used) /\ idle_fd_' = f
     \/ /\ backlog = {} \/ Free(used) = {}
        /\ idle_fd_' = -1 /\ UNCHANGED <<backlog, refused>>
  /\ UNCHANGED <<opened, others>>

\* Fault: the closed descriptor is kept for the idle one.
Reopen_Not(used) ==
  /\ step = "reopen" /\ step' = "poll"
  /\ UNCHANGED <<idle_fd_, opened, backlog, refused, others>>

\* open("/dev/null") finds a descriptor, or another thread has taken the last.
Reopen(used) ==
  /\ step = "reopen" /\ step' = "poll"
  /\ \/ \E f \in Free(used) : NewFd(f, used) /\ idle_fd_' = f /\ opened' = opened \cup {f}
     \/ Free(used) = {} /\ idle_fd_' = -1 /\ UNCHANGED opened
  /\ UNCHANGED <<backlog, refused, others>>

\* ~Acceptor(); the listening socket is closed.
DestroyAcceptor ==
  /\ opened' = opened \ {idle_fd_} /\ backlog' = {}
  /\ UNCHANGED <<step, idle_fd_, refused, others>>

HandleReadFails(used) ==
  \/ \E c \in backlog : AcceptBad(c, used) \/ AcceptError(c, used)
  \/ AcceptNone(used) \/ AcceptFull(used) \/ DropConnection(used) \/ Reopen(used)
=============================================================================
