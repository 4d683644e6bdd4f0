---------------------------- MODULE TcpConnector ----------------------------
(***************************************************************************)
(* TCPConnector (src/src/tcp_connector.cc): one attempt to connect at a    *)
(* time, a retry timer with back-off, and a channel that waits for the     *)
(* attempt and is reset by a queued task, because it cannot be destroyed   *)
(* in its own callback.  The handlers are completed by TcpClient.tla,      *)
(* which says in which order the loop's thread runs them.                  *)
(***************************************************************************)
EXTENDS Integers, Sequences

CONSTANTS
  Socks,        \* descriptors socket() may return
  NULL,
  InitDelay,    \* kInitRetryDelay, in seconds
  MaxDelay      \* kMaxRetryDelay

ASSUME SockAssumption == NULL \notin Socks /\ Socks \cap {"write", "error", "timer"} = {}
ASSUME DelayAssumption == InitDelay \in Nat \ {0} /\ MaxDelay \in Nat /\ InitDelay <= MaxDelay

VARIABLES
  running_, state_, retry_delay_,
  channel_,     \* the descriptor of the channel; NULL without one
  watching,     \* is the channel registered with epoll?
  timers,       \* retry timers that are set
  sock,         \* what each descriptor is; see SockStates
  tasks         \* task_list_ of the loop

ctorvars == <<running_, state_, retry_delay_, channel_, watching, timers, sock, tasks>>

\* A descriptor is closed, used by the attempt, left behind by StopInLoop(),
\* or the socket of a TCPConnection in one of its states.
ConnStates == {"CONNECTING", "CONNECTED", "DISCONNECTING", "DISCONNECTED"}
SockStates == {"closed", "attempt", "lost"} \cup ConnStates

Task(kind, s) == [kind |-> kind, sock |-> s]

ConnectorInit ==
  /\ running_ = FALSE /\ state_ = "DISCONNECTED" /\ retry_delay_ = InitDelay
  /\ channel_ = NULL /\ watching = FALSE /\ timers = 0
  /\ sock = [s \in Socks |-> "closed"] /\ tasks = <<>>

-----------------------------------------------------------------------------
NextDelay(d) == IF 2 * d < MaxDelay THEN 2 * d ELSE MaxDelay

\* Retry(), left is the number of timers that are set before it.
Retry(left) ==
  /\ state_' = "DISCONNECTED"
  /\ \/ running_ /\ timers' = left + 1 /\ retry_delay_' = NextDelay(retry_delay_)
     \/ ~running_ /\ timers' = left /\ UNCHANGED retry_delay_

Connecting(s) ==
  /\ state_' = "CONNECTING" /\ channel_' = s /\ watching' = TRUE
  /\ sock' = [sock EXCEPT ![s] = "attempt"]

\* Connect(): connect() is under way, or fails at once and its socket is
\* closed.  Free are the descriptors that are not in use.
Connect(Free, left) ==
  \/ /\ \E s \in Free : Connecting(s)
     /\ timers' = left /\ UNCHANGED retry_delay_
  \/ Retry(left) /\ UNCHANGED <<channel_, watching, sock>>

StartInLoop(Free, left) ==
  /\ \/ running_ /\ Connect(Free, left)
     \/ /\ ~running_ /\ timers' = left
        /\ UNCHANGED <<state_, retry_delay_, channel_, watching, sock>>
  /\ UNCHANGED running_

\* Fault: the channel is never reset.
RemoveAndResetChannel_NoReset(queue) == watching' = FALSE /\ tasks' = queue

\* DisableAll(), Remove() and the task that resets channel_.
RemoveAndResetChannel(queue) ==
  watching' = FALSE /\ tasks' = Append(queue, Task("reset", NULL))

\* Fault: the retry timer is not cancelled.
StopInLoop_KeepTimer(queue) ==
  /\ \/ /\ state_ = "CONNECTING" /\ state_' = "DISCONNECTED"
        /\ RemoveAndResetChannel(queue)
        /\ sock' = [sock EXCEPT ![channel_] = "lost"]
     \/ /\ state_ # "CONNECTING" /\ tasks' = queue
        /\ UNCHANGED <<state_, watching, sock>>
  /\ UNCHANGED <<timers, retry_delay_, channel_>>

\* Fault: an attempt under way is left alone.
StopInLoop_KeepAttempt(queue) ==
  /\ timers' = 0 /\ tasks' = queue
  /\ UNCHANGED <<state_, watching, sock, retry_delay_, channel_>>

\* TimerCancel(), and the attempt is given up.  Nobody closes its descriptor.
StopInLoop(queue) ==
  /\ timers' = 0
  /\ \/ /\ state_ = "CONNECTING" /\ state_' = "DISCONNECTED"
        /\ RemoveAndResetChannel(queue)
        /\ sock' = [sock EXCEPT ![channel_] = "lost"]
     \/ /\ state_ # "CONNECTING" /\ tasks' = queue
        /\ UNCHANGED <<state_, watching, sock>>
  /\ UNCHANGED <<retry_delay_, channel_>>

\* Restart(), up to its call of StartInLoop().
Restart ==
  /\ running_' = TRUE /\ state_' = "DISCONNECTED" /\ retry_delay_' = InitDelay
  /\ UNCHANGED <<channel_, watching, timers, sock, tasks>>

ResetChannel == channel_' = NULL

\* Fault: the descriptor of the failed attempt stays open.
AttemptFails_NoClose ==
  RemoveAndResetChannel(tasks) /\ Retry(timers) /\ UNCHANGED sock

\* Fault: no retry.
AttemptFails_NoRetry ==
  /\ RemoveAndResetChannel(tasks) /\ state_' = "DISCONNECTED"
  /\ sock' = [sock EXCEPT ![channel_] = "closed"] /\ UNCHANGED <<timers, retry_delay_>>

\* HandleError(), and HandleWrite() that finds an error or a connection of the
\* socket with itself.
AttemptFails ==
  /\ RemoveAndResetChannel(tasks) /\ Retry(timers)
  /\ sock' = [sock EXCEPT ![channel_] = "closed"]

\* The rest of HandleWrite(): connected.  With running_ the caller goes on
\* with new_conn_cb_, else the descriptor is closed.
AttemptSucceeds ==
  /\ RemoveAndResetChannel(tasks) /\ state_' = "CONNECTED"
  /\ \/ running_ /\ UNCHANGED sock
     \/ ~running_ /\ sock' = [sock EXCEPT ![channel_] = "closed"]
  /\ UNCHANGED <<timers, retry_delay_>>
=============================================================================
