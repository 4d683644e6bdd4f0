----------------------------- MODULE UdpWorker -----------------------------
(***************************************************************************)
(* UDPWorkder (src/src/udp_worker.cc): threads that take packets from the  *)
(* queue and hand them to the user's callback.  A worker's pc is           *)
(*   "new"   its thread was not started                                    *)
(*   "test"  at the while, about to read running_                          *)
(*   "pop"   in Pop(), about to lock                                       *)
(*   "wait"  in Pop(), in cond_.wait()                                     *)
(*   "got"   Pop() has returned a packet, or nothing                       *)
(*   "call"  in callback_rcv_pkt_                                          *)
(*   "end"   the thread has ended                                          *)
(***************************************************************************)
EXTENDS PacketQueue, Integers, FiniteSets

CONSTANTS
  Workers,      \* threads that Start() may create
  NoPacket      \* what Pop() returns when it has no packet: effective() is 0

ASSUME WorkerAssumption == IsFiniteSet(Workers)

VARIABLES
  running_,
  pc, pkt,      \* by worker: where it is, and its local variable
  handled       \* history: what the callback was called with, in order

workervars == <<running_, pc, pkt, handled>>

\* running_ has no initial value.
WorkerInit ==
  /\ running_ \in BOOLEAN
  /\ pc = [w \in Workers |-> "new"] /\ pkt = [w \in Workers |-> NoPacket]
  /\ handled = <<>>

\* Start(thread_nums) with the threads S.
WorkerStart(S) ==
  /\ S # {}
  /\ running_' = TRUE
  /\ pc' = [w \in Workers |-> IF w \in S THEN "test" ELSE "new"]
  /\ UNCHANGED <<pkt, handled>>

At(w, from, to) == pc[w] = from /\ pc' = [pc EXCEPT ![w] = to]

-----------------------------------------------------------------------------
(* OnThreadProcessPacket() *)

TestRunning(w) ==
  /\ \/ running_ /\ At(w, "test", "pop")
     \/ ~running_ /\ At(w, "test", "end")
  /\ UNCHANGED <<running_, pkt, handled, queuevars>>

\* Pop() returns what PopTake takes.
Take(w) == PopTake /\ pkt' = [pkt EXCEPT ![w] = Head(pkt_queue_)]

Pop(w) ==
  /\ \/ Take(w) /\ At(w, "pop", "got")
     \/ PopWait(w) /\ At(w, "pop", "wait") /\ UNCHANGED pkt
  /\ UNCHANGED <<running_, handled>>

\* w was notified and has the mutex again.
PopWoken(w) ==
  /\ w \notin cond_ /\ At(w, "wait", "got")
  /\ \/ Take(w)
     \/ PopNothing /\ pkt' = [pkt EXCEPT ![w] = NoPacket]
  /\ UNCHANGED <<running_, handled>>

\* The two tests behind Pop(), and the call.
Process(w) ==
  /\ \/ ~running_ /\ At(w, "got", "end") /\ UNCHANGED handled
     \/ running_ /\ pkt[w] = NoPacket /\ At(w, "got", "end") /\ UNCHANGED handled
     \/ running_ /\ pkt[w] # NoPacket /\ At(w, "got", "call")
        /\ handled' = Append(handled, pkt[w])
  /\ UNCHANGED <<running_, pkt, queuevars>>

\* The callback returns, and the local packet is destroyed.
CallbackReturn(w) ==
  /\ At(w, "call", "test")
  /\ pkt' = [pkt EXCEPT ![w] = NoPacket]
  /\ UNCHANGED <<running_, handled, queuevars>>

WorkerStep(w) ==
  TestRunning(w) \/ Pop(w) \/ PopWoken(w) \/ Process(w) \/ CallbackReturn(w)

-----------------------------------------------------------------------------
(* Stop(), whose three steps other threads can come between *)

WorkerStop ==
  /\ running_ /\ running_' = FALSE
  /\ UNCHANGED <<pc, pkt, handled>>

Ended == {w \in Workers : pc[w] \in {"new", "end"}}

Join == Ended = Workers

\* Threads that were notified in Pop() and have not run since.
Woken == {w \in Workers : pc[w] = "wait" /\ w \notin cond_}
=============================================================================
