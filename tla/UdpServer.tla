----------------------------- MODULE UdpServer -----------------------------
(***************************************************************************)
(* UDPServer (src/src/udp_server.cc) with its UDPReceiver                  *)
(* (src/src/udp_receiver.cc), composed with the workers of UdpWorker.tla.  *)
(*                                                                         *)
(* One thread constructs the server, runs its loop in Start() and calls    *)
(* Stop(): every change of a channel asserts that it is in that thread.    *)
(* Stop() is called when Start() has returned, or in the loop.  main is    *)
(*   "new"      before Start()                                             *)
(*   "loop"     in Loop(), no callback running                             *)
(*   "notify"   in HandleRead(), between the two steps of Push()           *)
(*   "returned" Start() has returned, because somebody called Quit()       *)
(*   "stop", "wake", "join"   in Stop()                                    *)
(*   "stopped"  Stop() has returned                                        *)
(*   "aborted"  an assertion has ended the program                         *)
(*   "gone"     the server was destroyed                                   *)
(***************************************************************************)
EXTENDS UdpWorker

CONSTANTS
  MaxPackets,   \* bound on the datagrams that arrive
  RcvBuf        \* datagrams the socket's receive buffer holds

ASSUME PacketAssumption ==
  MaxPackets \in Nat /\ RcvBuf \in Nat /\ NoPacket \notin 1..MaxPackets

VARIABLES
  main,
  status_,      \* of the receiver's channel: "kNew", "kAdded" or "kDel"
  shut,         \* was the socket shut down for reading?
  rcvbuf,       \* datagrams in the socket; a number, or NoPacket if empty
  arrived,      \* how many have arrived
  received      \* history: the packets pushed

recvvars == <<status_, shut>>
netvars == <<rcvbuf, arrived>>
vars == <<main, recvvars, netvars, received, queuevars, workervars>>

Init ==
  /\ main = "new" /\ status_ = "kNew" /\ shut = FALSE
  /\ rcvbuf = <<>> /\ arrived = 0 /\ received = <<>>
  /\ QueueInit /\ WorkerInit

-----------------------------------------------------------------------------
(* The network.  A datagram may be empty, and is dropped if there is no room. *)

Arrive ==
  /\ main # "aborted" /\ arrived < MaxPackets
  /\ arrived' = arrived + 1
  /\ \/ Len(rcvbuf) < RcvBuf /\ \E p \in {arrived', NoPacket} : rcvbuf' = Append(rcvbuf, p)
     \/ Len(rcvbuf) >= RcvBuf /\ UNCHANGED rcvbuf
  /\ UNCHANGED <<main, recvvars, received, queuevars, workervars>>

-----------------------------------------------------------------------------
(* The thread of the loop *)

\* worker_->Start(), receiver_->Start() and Loop().
Start(S) ==
  /\ main = "new" /\ main' = "loop"
  /\ WorkerStart(S) /\ status_' = "kAdded"
  /\ UNCHANGED <<shut, netvars, received, queuevars>>

\* recvfrom() takes the oldest datagram; if it is empty, effective() is 0.
Receive == rcvbuf # <<>> /\ rcvbuf' = Tail(rcvbuf)

\* Receive() and the first step of Push().  An empty datagram is dropped.
HandleRead ==
  /\ main = "loop" /\ status_ = "kAdded" /\ Receive
  /\ \/ /\ Head(rcvbuf) = NoPacket
        /\ UNCHANGED <<main, received, queuevars>>
     \/ /\ Head(rcvbuf) # NoPacket
        /\ main' = "notify"
        /\ PushLocked(Head(rcvbuf)) /\ received' = Append(received, Head(rcvbuf))
  /\ UNCHANGED <<recvvars, arrived, workervars>>

PushNotify ==
  /\ main = "notify" /\ main' = "loop"
  /\ NotifyOne
  /\ UNCHANGED <<recvvars, netvars, received, workervars>>

\* socket_->Shutdown(true, false)
Shutdown == shut' = TRUE

\* It replaces the receiver: the channel of the old one is destroyed while it
\* handles the event, and ~Channel() asserts that it does not.
OnReceiverError == Shutdown /\ main' = "aborted"

HandleError ==
  /\ main = "loop" /\ status_ = "kAdded"
  /\ status_' = "kNew" /\ OnReceiverError
  /\ UNCHANGED <<netvars, received, queuevars, workervars>>

LoopReturns ==
  /\ main = "loop" /\ main' = "returned"
  /\ UNCHANGED <<recvvars, netvars, received, queuevars, workervars>>

-----------------------------------------------------------------------------
(* Stop() *)

StopReceiver ==
  /\ main \in {"loop", "returned", "stopped"} /\ main' = "stop"
  /\ status_' = "kDel" /\ Shutdown
  /\ UNCHANGED <<netvars, received, queuevars, workervars>>

StopWorker ==
  /\ main = "stop"
  /\ \/ WorkerStop /\ main' = "wake"
     \/ ~running_ /\ main' = "stopped" /\ UNCHANGED workervars
  /\ UNCHANGED <<recvvars, netvars, received, queuevars>>

StopWakeup ==
  /\ main = "wake" /\ main' = "join"
  /\ NotifyOne
  /\ UNCHANGED <<recvvars, netvars, received, workervars>>

StopJoin ==
  /\ main = "join" /\ Join /\ main' = "stopped"
  /\ UNCHANGED <<recvvars, netvars, received, queuevars, workervars>>

\* ~UDPServer(), after Stop()
Destroy ==
  /\ main = "stopped" /\ main' = "gone" /\ status_' = "kNew"
  /\ UNCHANGED <<shut, netvars, received, queuevars, workervars>>

-----------------------------------------------------------------------------
MainStep == PushNotify \/ StopWorker \/ StopWakeup \/ StopJoin

Work(w) ==
  /\ main # "aborted" /\ WorkerStep(w)
  /\ UNCHANGED <<main, recvvars, netvars, received>>

Next ==
  \/ Arrive \/ (\E S \in SUBSET Workers : Start(S)) \/ HandleRead \/ HandleError
  \/ LoopReturns \/ StopReceiver \/ MainStep \/ Destroy
  \/ \E w \in Workers : Work(w)

Spec == Init /\ [][Next]_vars

\* Threads are scheduled, callbacks return and the loop reads the socket.
FairSpec ==
  /\ Spec /\ WF_vars(HandleRead) /\ WF_vars(MainStep)
  /\ \A w \in Workers : WF_vars(Work(w))

-----------------------------------------------------------------------------
Elements(s) == {s[i] : i \in DOMAIN s}
InHand == {w \in Workers : pc[w] = "got" /\ pkt[w] # NoPacket}
Serving == main \in {"loop", "notify"}

(***************************************************************************)
(* Packets are taken in the order in which they were pushed, and each has  *)
(* one place: the queue, the hands of one worker, or the callback's calls, *)
(* which has it once.  None is dropped before Stop().                      *)
(***************************************************************************)
PacketsOnce ==
  /\ pkt_queue_ = SubSeq(received, Len(received) - Len(pkt_queue_) + 1, Len(received))
  /\ \A i, j \in DOMAIN handled : handled[i] = handled[j] => i = j
  /\ Elements(handled) \cap Elements(pkt_queue_) = {}
  /\ \A v, w \in InHand :
       /\ pkt[w] \notin Elements(handled) \cup Elements(pkt_queue_)
       /\ pkt[v] = pkt[w] => v = w
  /\ Serving => Elements(received) \subseteq
       Elements(handled) \cup Elements(pkt_queue_) \cup {pkt[w] : w \in InHand}

(***************************************************************************)
(* No worker sleeps over a packet: while one waits, every packet of the    *)
(* queue has a worker that was notified, or Push() is about to notify one. *)
(***************************************************************************)
NoSleepOverPacket ==
  cond_ # {} => Len(pkt_queue_) <= Cardinality(Woken) + (IF main = "notify" THEN 1 ELSE 0)

(***************************************************************************)
(* A datagram in the socket or the queue is handled, while the server      *)
(* serves, unless all workers have ended: a worker ends when it finds the  *)
(* queue emptied by another one, or by itself before a late notification.  *)
(***************************************************************************)
PacketsHandled ==
  \A p \in 1..MaxPackets :
    (p \in Elements(rcvbuf) \cup Elements(pkt_queue_)) ~>
      (p \in Elements(handled) \/ Ended = Workers \/ ~Serving)
=============================================================================
