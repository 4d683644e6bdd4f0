---------------------------- MODULE PacketQueue ----------------------------
(***************************************************************************)
(* PacketQueue (src/src/packet_queue.cc): the queue between the thread     *)
(* that receives datagrams and the worker threads.  What a thread does     *)
(* with the mutex held is one step; cond_ is the set of threads that wait. *)
(* Push() notifies after it has released the mutex, so that it is two      *)
(* steps; a thread that is notified has to take the mutex again and finds  *)
(* the queue as it is by then.                                             *)
(***************************************************************************)
EXTENDS Sequences

VARIABLES
  pkt_queue_,
  cond_         \* the threads in cond_.wait() that have not been notified

queuevars == <<pkt_queue_, cond_>>

QueueInit == pkt_queue_ = <<>> /\ cond_ = {}

\* Push(), first step.
PushLocked(p) ==
  /\ pkt_queue_' = Append(pkt_queue_, p)
  /\ UNCHANGED cond_

\* Fault: nobody is notified.
NotifyOne_None == UNCHANGED queuevars

\* notify_one(): the second step of Push(), and Wakeup().
NotifyOne ==
  /\ \/ cond_ = {} /\ UNCHANGED cond_
     \/ \E t \in cond_ : cond_' = cond_ \ {t}
  /\ UNCHANGED pkt_queue_

\* Pop() of thread t finds the queue empty and waits.
PopWait(t) ==
  /\ pkt_queue_ = <<>>
  /\ cond_' = cond_ \cup {t}
  /\ UNCHANGED pkt_queue_

\* Fault: the packet stays at the front.
PopTake_Keep == pkt_queue_ # <<>> /\ UNCHANGED queuevars

\* Pop() returns the packet at the front.
PopTake ==
  /\ pkt_queue_ # <<>>
  /\ pkt_queue_' = Tail(pkt_queue_)
  /\ UNCHANGED cond_

\* Pop() was notified and finds nothing: it returns an empty packet.
PopNothing == pkt_queue_ = <<>> /\ UNCHANGED queuevars
=============================================================================
