----------------------------- MODULE UdpProofs -----------------------------
(***************************************************************************)
(* Proofs about UdpServer.tla, with UdpWorker.tla and PacketQueue.tla, for *)
(* every finite set of workers, any number of datagrams and any size of    *)
(* the socket's buffer.                                                    *)
(***************************************************************************)
EXTENDS UdpServer, SequenceTheorems, FiniteSetTheorems, TLAPS

Packets == 1..MaxPackets
Places == {"new", "test", "pop", "wait", "got", "call", "end"}

\* The types, and that the threads in cond_ are in cond_.wait() and that no
\* thread runs before Start().
Types ==
  /\ running_ \in BOOLEAN /\ arrived \in 0..MaxPackets
  /\ pc \in [Workers -> Places] /\ pkt \in [Workers -> Packets \cup {NoPacket}]
  /\ pkt_queue_ \in Seq(Packets) /\ handled \in Seq(Packets) /\ received \in Seq(Packets)
  /\ rcvbuf \in Seq(Packets \cup {NoPacket})
  /\ \A w \in cond_ : w \in Workers /\ pc[w] = "wait"
  /\ main = "new" => \A w \in Workers : pc[w] = "new"

(***************************************************************************)
(* Taking the first and adding a last element (Push() and Pop(),           *)
(* Receive(), the history of calls).                                       *)
(***************************************************************************)
LEMMA QueueFacts ==
  ASSUME NEW D, NEW s \in Seq(D)
  PROVE  /\ Len(s) \in Nat /\ DOMAIN s = 1..Len(s) /\ \A i \in 1..Len(s) : s[i] \in D
         /\ \A p \in D :
              /\ Append(s, p) \in Seq(D) /\ Len(Append(s, p)) = Len(s) + 1
              /\ \A i \in 1..Len(s) : Append(s, p)[i] = s[i]
              /\ Append(s, p)[Len(s) + 1] = p
         /\ s # <<>> => /\ Head(s) \in D /\ Head(s) = s[1] /\ Len(s) >= 1
                        /\ Tail(s) \in Seq(D) /\ Len(Tail(s)) = Len(s) - 1
                        /\ \A i \in 1..Len(s) - 1 : Tail(s)[i] = s[i + 1]
<1>1. Len(s) \in Nat /\ DOMAIN s = 1..Len(s) /\ \A i \in 1..Len(s) : s[i] \in D
  BY LenProperties, ElementOfSeq
<1>2. ASSUME NEW p \in D
      PROVE  /\ Append(s, p) \in Seq(D) /\ Len(Append(s, p)) = Len(s) + 1
             /\ \A i \in 1..Len(s) : Append(s, p)[i] = s[i]
             /\ Append(s, p)[Len(s) + 1] = p
  BY AppendProperties
<1>3. ASSUME s # <<>>
      PROVE  /\ Head(s) \in D /\ Head(s) = s[1] /\ Len(s) >= 1
             /\ Tail(s) \in Seq(D) /\ Len(Tail(s)) = Len(s) - 1
             /\ \A i \in 1..Len(s) - 1 : Tail(s)[i] = s[i + 1]
  BY <1>1, <1>3, HeadTailProperties, EmptySeq
<1> QED
  BY <1>1, <1>2, <1>3

(***************************************************************************)
(* The constructors establish the types, and every step keeps them.        *)
(***************************************************************************)
LEMMA TypesHold == Spec => []Types
<1>1. Init => Types
  <2>1. 0 \in 0..MaxPackets /\ \A D : <<>> \in Seq(D)
    BY PacketAssumption, EmptySeq
  <2> QED
    BY <2>1 DEF Init, QueueInit, WorkerInit, Types, Places
<1>2. Types /\ [Next]_vars => Types'
  <2> SUFFICES ASSUME Types, [Next]_vars PROVE Types'
    OBVIOUS
  <2> USE DEF Types, Places, recvvars, netvars, queuevars, workervars
  <2>0. MaxPackets \in Nat
    BY PacketAssumption
  <2>n. ASSUME NotifyOne
        PROVE  /\ \A w \in cond_' : w \in Workers /\ pc[w] = "wait"
               /\ UNCHANGED pkt_queue_
    BY <2>n DEF NotifyOne
  <2>1. CASE Arrive
    <3>1. arrived' \in 0..MaxPackets /\ arrived' \in Packets
      BY <2>0, <2>1 DEF Arrive, Packets
    <3>2. rcvbuf' \in Seq(Packets \cup {NoPacket})
      <4>1. CASE UNCHANGED rcvbuf
        BY <4>1
      <4>2. ASSUME NEW p \in Packets \cup {NoPacket}, rcvbuf' = Append(rcvbuf, p)
            PROVE  rcvbuf' \in Seq(Packets \cup {NoPacket})
        BY <4>2, AppendProperties
      <4> QED
        BY <2>1, <3>1, <4>1, <4>2 DEF Arrive
    <3> QED
      BY <2>1, <3>1, <3>2 DEF Arrive
  <2>2. ASSUME NEW S \in SUBSET Workers, Start(S) PROVE Types'
    <3>1. cond_ = {}
      BY <2>2 DEF Start
    <3> QED
      BY <2>2, <3>1 DEF Start, WorkerStart
  <2>3. CASE HandleRead
    <3>1. rcvbuf # <<>> /\ rcvbuf' = Tail(rcvbuf)
      BY <2>3 DEF HandleRead, Receive
    <3>2. Head(rcvbuf) \in Packets \cup {NoPacket} /\ rcvbuf' \in Seq(Packets \cup {NoPacket})
      BY <3>1, QueueFacts
    <3>3. pkt_queue_' \in Seq(Packets) /\ received' \in Seq(Packets) /\ UNCHANGED cond_
      <4>1. CASE UNCHANGED <<received, queuevars>>
        BY <4>1
      <4>2. CASE Head(rcvbuf) # NoPacket /\ PushLocked(Head(rcvbuf))
                 /\ received' = Append(received, Head(rcvbuf))
        BY <3>2, <4>2, AppendProperties DEF PushLocked
      <4> QED
        BY <2>3, <4>1, <4>2 DEF HandleRead
    <3> QED
      BY <2>3, <3>2, <3>3 DEF HandleRead
  <2>4. CASE HandleError \/ LoopReturns
    BY <2>4 DEF HandleError, OnReceiverError, LoopReturns
  <2>5. CASE PushNotify \/ StopWakeup
    BY <2>5, <2>n DEF PushNotify, StopWakeup
  <2>6. CASE StopReceiver \/ StopWorker \/ StopJoin \/ Destroy
    BY <2>6 DEF StopReceiver, StopWorker, WorkerStop, StopJoin, Destroy
  <2>7. ASSUME NEW w \in Workers, Work(w) PROVE Types'
    <3>0. UNCHANGED <<main, recvvars, netvars, received>> /\ WorkerStep(w)
      BY <2>7 DEF Work
    <3>1. CASE TestRunning(w)
      BY <3>0, <3>1 DEF TestRunning, At
    <3>t. ASSUME Take(w)
          PROVE  /\ pkt_queue_' \in Seq(Packets) /\ UNCHANGED cond_
                 /\ pkt' \in [Workers -> Packets \cup {NoPacket}]
      BY <3>t, HeadTailProperties DEF Take, PopTake
    <3>2. CASE Pop(w)
      BY <3>0, <3>t, <3>2 DEF Pop, PopWait, At
    <3>3. CASE PopWoken(w)
      BY <3>0, <3>t, <3>3 DEF PopWoken, PopNothing, At
    <3>4. CASE Process(w)
      <4>1. CASE pkt[w] # NoPacket /\ handled' = Append(handled, pkt[w])
        <5>1. handled' \in Seq(Packets)
          BY <4>1, AppendProperties
        <5> QED
          BY <3>0, <3>4, <5>1 DEF Process, At
      <4>2. CASE UNCHANGED handled
        BY <3>0, <3>4, <4>2 DEF Process, At
      <4> QED
        BY <3>4, <4>1, <4>2 DEF Process
    <3>5. CASE CallbackReturn(w)
      BY <3>0, <3>5 DEF CallbackReturn, At
    <3> QED
      BY <3>0, <3>1, <3>2, <3>3, <3>4, <3>5 DEF WorkerStep
  <2>8. CASE UNCHANGED vars
    BY <2>8 DEF vars
  <2> QED
    BY <2>1, <2>2, <2>3, <2>4, <2>5, <2>6, <2>7, <2>8 DEF Next, MainStep
<1> QED
  BY <1>1, <1>2, PTL DEF Spec

-----------------------------------------------------------------------------
(***************************************************************************)
(* The threads that were notified can be counted, and one more or one less *)
(* is counted as such (notify_one(), and a thread that leaves wait()).     *)
(***************************************************************************)
LEMMA WokenCount ==
  /\ Cardinality(Woken) \in Nat
  /\ \A w : w \notin Woken => Cardinality(Woken \cup {w}) = Cardinality(Woken) + 1
  /\ \A w \in Woken : Cardinality(Woken \ {w}) = Cardinality(Woken) - 1
<1>1. IsFiniteSet(Woken)
  BY WorkerAssumption, FS_Subset DEF Woken
<1> QED
  BY <1>1, FS_CardinalityType, FS_AddElement, FS_RemoveElement

(***************************************************************************)
(* For any number of workers none sleeps over a packet of the queue that   *)
(* nobody was notified of, although Push() notifies after it has released  *)
(* the mutex and notified workers may be overtaken.                        *)
(***************************************************************************)
THEOREM NobodySleepsOverPacket == Spec => []NoSleepOverPacket
<1>1. Init => NoSleepOverPacket
  BY DEF Init, QueueInit, NoSleepOverPacket
<1>2. Types /\ Types' /\ NoSleepOverPacket /\ [Next]_vars => NoSleepOverPacket'
  <2> SUFFICES ASSUME Types, Types', NoSleepOverPacket, [Next]_vars, cond_' # {}
               PROVE  Len(pkt_queue_') <= Cardinality(Woken') + (IF main' = "notify" THEN 1 ELSE 0)
    BY DEF NoSleepOverPacket
  <2>0. Len(pkt_queue_) \in Nat /\ Len(pkt_queue_') \in Nat
    BY LenProperties DEF Types
  <2>c. /\ Cardinality(Woken) \in Nat /\ Cardinality(Woken') \in Nat
        /\ \A w : w \notin Woken => Cardinality(Woken \cup {w}) = Cardinality(Woken) + 1
        /\ \A w \in Woken : Cardinality(Woken \ {w}) = Cardinality(Woken) - 1
    <3>1. IsFiniteSet(Woken')
      BY WorkerAssumption, FS_Subset DEF Woken
    <3> QED
      BY <3>1, WokenCount, FS_CardinalityType
  <2>s. cond_ # {} => Len(pkt_queue_) <= Cardinality(Woken) + (IF main = "notify" THEN 1 ELSE 0)
    BY DEF NoSleepOverPacket
  <2>u. ASSUME UNCHANGED <<pc, queuevars>>, main' = "notify" \/ main # "notify"
        PROVE  Len(pkt_queue_') <= Cardinality(Woken') + (IF main' = "notify" THEN 1 ELSE 0)
    <3>1. Woken' = Woken /\ UNCHANGED <<pkt_queue_, cond_>>
      BY <2>u DEF Woken, queuevars
    <3> QED
      BY <2>0, <2>c, <2>s, <2>u, <3>1
  <2>n. ASSUME NotifyOne, UNCHANGED pc
        PROVE  /\ cond_ # {} /\ UNCHANGED pkt_queue_
               /\ Cardinality(Woken') = Cardinality(Woken) + 1
    <3>1. PICK t \in cond_ : cond_' = cond_ \ {t}
      BY <2>n DEF NotifyOne
    <3>2. t \in Workers /\ pc[t] = "wait" /\ t \notin Woken
      BY <3>1 DEF Types, Woken
    <3>3. Woken' = Woken \cup {t}
      BY <2>n, <3>1, <3>2 DEF Woken
    <3> QED
      BY <2>c, <2>n, <3>1, <3>2, <3>3 DEF NotifyOne
  <2>1. CASE Arrive \/ HandleError \/ LoopReturns \/ StopReceiver \/ StopWorker \/ StopJoin \/ Destroy
    BY <2>1, <2>u
       DEF Arrive, HandleError, LoopReturns, StopReceiver, StopWorker, WorkerStop, StopJoin,
           Destroy, workervars
  <2>2. ASSUME NEW S \in SUBSET Workers, Start(S) PROVE FALSE
    BY <2>2 DEF Start, Types, queuevars
  <2>3. CASE HandleRead
    <3>1. CASE UNCHANGED queuevars
      BY <2>3, <2>u, <3>1 DEF HandleRead, workervars
    <3>2. CASE PushLocked(Head(rcvbuf)) /\ main' = "notify" /\ Head(rcvbuf) # NoPacket
      <4>1. rcvbuf # <<>> /\ main = "loop" /\ UNCHANGED <<pc, cond_>>
        BY <2>3, <3>2 DEF HandleRead, Receive, PushLocked, workervars
      <4>2. Head(rcvbuf) \in Packets
        BY <3>2, <4>1, HeadTailProperties DEF Types
      <4>3. Len(pkt_queue_') = Len(pkt_queue_) + 1
        BY <3>2, <4>2, AppendProperties DEF PushLocked, Types
      <4>4. Woken' = Woken
        BY <4>1 DEF Woken
      <4> QED
        BY <2>0, <2>c, <2>s, <3>2, <4>1, <4>3, <4>4
    <3> QED
      BY <2>3, <3>1, <3>2 DEF HandleRead
  <2>4. CASE PushNotify \/ StopWakeup
    <3>1. NotifyOne /\ UNCHANGED pc /\ main' # "notify"
      BY <2>4 DEF PushNotify, StopWakeup, workervars
    <3> QED
      BY <2>0, <2>c, <2>n, <2>s, <3>1
  <2>5. ASSUME NEW w \in Workers, Work(w)
        PROVE  Len(pkt_queue_') <= Cardinality(Woken') + (IF main' = "notify" THEN 1 ELSE 0)
    <3>0. UNCHANGED main /\ WorkerStep(w)
      BY <2>5 DEF Work
    <3>w. pc \in [Workers -> Places]
      BY DEF Types
    <3>t. ASSUME Take(w)
          PROVE  Len(pkt_queue_') = Len(pkt_queue_) - 1 /\ UNCHANGED cond_
      BY <3>t, HeadTailProperties DEF Take, PopTake, Types
    <3>1. CASE TestRunning(w) \/ Process(w) \/ CallbackReturn(w)
      <4>1. Woken' = Woken /\ UNCHANGED <<pkt_queue_, cond_>>
        BY <3>w, <3>1 DEF TestRunning, Process, CallbackReturn, At, Woken, queuevars
      <4> QED
        BY <2>0, <2>c, <2>s, <3>0, <4>1
    <3>2. CASE Pop(w)
      <4>1. CASE Take(w) /\ At(w, "pop", "got")
        <5>1. Woken' = Woken
          BY <3>w, <3>t, <4>1 DEF At, Woken
        <5> QED
          BY <2>0, <2>c, <2>s, <3>0, <3>t, <4>1, <5>1
      <4>2. CASE PopWait(w)
        <5>1. Len(pkt_queue_') = 0
          BY <4>2, EmptySeq DEF PopWait
        <5> QED
          BY <2>c, <5>1
      <4> QED
        BY <3>2, <4>1, <4>2 DEF Pop
    <3>3. CASE PopWoken(w)
      <4>1. CASE Take(w)
        <5>1. w \in Woken /\ Woken' = Woken \ {w}
          BY <3>w, <3>t, <3>3, <4>1 DEF PopWoken, At, Woken
        <5> QED
          BY <2>0, <2>c, <2>s, <3>0, <3>t, <4>1, <5>1
      <4>2. CASE PopNothing
        <5>1. Len(pkt_queue_') = 0
          BY <4>2, EmptySeq DEF PopNothing, queuevars
        <5> QED
          BY <2>c, <5>1
      <4> QED
        BY <3>3, <4>1, <4>2 DEF PopWoken
    <3> QED
      BY <3>0, <3>1, <3>2, <3>3 DEF WorkerStep
  <2>6. CASE UNCHANGED vars
    <3>1. Woken' = Woken /\ UNCHANGED <<main, pkt_queue_, cond_>>
      BY <2>6 DEF vars, queuevars, workervars, Woken
    <3> QED
      BY <2>0, <2>c, <2>s, <3>1
  <2> QED
    BY <2>1, <2>2, <2>3, <2>4, <2>5, <2>6 DEF Next, MainStep
<1> QED
  BY <1>1, <1>2, TypesHold, PTL DEF Spec

-----------------------------------------------------------------------------
(* Packets are taken once and in order *)

\* q is the end of r.
EndOf(q, r) ==
  /\ Len(q) <= Len(r)
  /\ \A i \in 1..Len(q) : q[i] = r[Len(r) - Len(q) + i]

\* No datagram is in s twice.
Distinct(s) == \A i, j \in DOMAIN s : s[i] = s[j] => i = j \/ s[i] = NoPacket

\* PacketsOnce follows packets from the queue on.  That a packet pushed is a
\* new one needs the way before: the socket's buffer and what has arrived.
Once ==
  /\ EndOf(pkt_queue_, received)
  /\ Distinct(rcvbuf) /\ Distinct(received) /\ Distinct(pkt_queue_) /\ Distinct(handled)
  /\ \A p \in Elements(rcvbuf) :
       p = NoPacket \/ (p \in 1..arrived /\ p \notin Elements(received))
  /\ Elements(received) \subseteq 1..arrived
  /\ Elements(pkt_queue_) \subseteq Elements(received)
  /\ Elements(handled) \subseteq Elements(received) \ Elements(pkt_queue_)
  /\ \A w \in InHand :
       /\ pkt[w] \in Elements(received) \ (Elements(pkt_queue_) \cup Elements(handled))
       /\ \A v \in InHand : pkt[v] = pkt[w] => v = w
  /\ Serving =>
       /\ running_
       /\ \A p \in Elements(received) :
            p \in Elements(handled) \cup Elements(pkt_queue_) \/ \E w \in InHand : p = pkt[w]
  /\ main = "new" => received = <<>>

(***************************************************************************)
(* What the elements are when the first is taken (Receive(), Pop()) or a   *)
(* last one is added (Push(), the history of calls).                       *)
(***************************************************************************)
LEMMA ElementFacts ==
  ASSUME NEW D, NEW s \in Seq(D)
  PROVE  /\ Elements(s) \subseteq D
         /\ s = <<>> => Elements(s) = {}
         /\ \A p \in D :
              /\ Elements(Append(s, p)) = Elements(s) \cup {p}
              /\ Distinct(s) /\ (p \notin Elements(s) \/ p = NoPacket) => Distinct(Append(s, p))
         /\ s # <<>> =>
              /\ Elements(s) = Elements(Tail(s)) \cup {Head(s)}
              /\ Distinct(s) => /\ Distinct(Tail(s))
                                /\ Head(s) \notin Elements(Tail(s)) \/ Head(s) = NoPacket
<1>0. Len(s) \in Nat /\ DOMAIN s = 1..Len(s)
  BY QueueFacts
<1>1. Elements(s) \subseteq D
  BY QueueFacts DEF Elements
<1>2. s = <<>> => Elements(s) = {}
  BY DEF Elements
<1>3. ASSUME NEW p \in D
      PROVE  /\ Elements(Append(s, p)) = Elements(s) \cup {p}
             /\ Distinct(s) /\ (p \notin Elements(s) \/ p = NoPacket) => Distinct(Append(s, p))
  <2> DEFINE t == Append(s, p)
  <2>1. /\ DOMAIN t = 1..Len(s) + 1
        /\ \A i \in 1..Len(s) : t[i] = s[i]
        /\ t[Len(s) + 1] = p
    <3>1. t \in Seq(D) /\ Len(t) = Len(s) + 1
      BY AppendProperties
    <3>2. DOMAIN t = 1..Len(t)
      BY <3>1, LenProperties
    <3> QED
      BY <3>1, <3>2, AppendProperties
  <2> HIDE DEF t
  <2>2. Elements(t) = Elements(s) \cup {p}
    BY <1>0, <2>1 DEF Elements
  <2>3. Distinct(s) /\ (p \notin Elements(s) \/ p = NoPacket) => Distinct(t)
    BY <1>0, <2>1 DEF Elements, Distinct
  <2> QED
    BY <2>2, <2>3 DEF t
<1>4. ASSUME s # <<>>
      PROVE  /\ Elements(s) = Elements(Tail(s)) \cup {Head(s)}
             /\ Distinct(s) => /\ Distinct(Tail(s))
                               /\ Head(s) \notin Elements(Tail(s)) \/ Head(s) = NoPacket
  <2> DEFINE t == Tail(s)
             h == Head(s)
             n == Len(s) - 1
  <2>1. /\ DOMAIN t = 1..n /\ n \in Nat /\ Len(s) = n + 1
        /\ \A i \in 1..n : t[i] = s[i + 1]
        /\ h = s[1]
    <3>1. t \in Seq(D) /\ Len(t) = n
      BY <1>4, HeadTailProperties
    <3>2. DOMAIN t = 1..Len(t)
      BY <3>1, LenProperties
    <3> QED
      BY <1>0, <1>4, <3>1, <3>2, QueueFacts
  <2> HIDE DEF t, h, n
  <2>2. Elements(s) = Elements(t) \cup {h}
    <3>1. ASSUME NEW i \in 1..Len(s) PROVE s[i] \in Elements(t) \cup {h}
      <4>1. CASE i = 1
        BY <2>1, <4>1
      <4>2. CASE i # 1
        <5>1. i - 1 \in 1..n /\ t[i - 1] = s[i]
          BY <2>1, <4>2
        <5> QED
          BY <2>1, <5>1 DEF Elements
      <4> QED
        BY <4>1, <4>2
    <3>2. ASSUME NEW i \in 1..n PROVE t[i] \in Elements(s)
      <4>1. i + 1 \in DOMAIN s /\ t[i] = s[i + 1]
        BY <1>0, <2>1
      <4> QED
        BY <4>1 DEF Elements
    <3>3. h \in Elements(s)
      BY <1>0, <2>1 DEF Elements
    <3> QED
      BY <1>0, <2>1, <3>1, <3>2, <3>3 DEF Elements
  <2>3. Distinct(s) => Distinct(t) /\ (h \notin Elements(t) \/ h = NoPacket)
    <3> SUFFICES ASSUME Distinct(s)
                 PROVE  Distinct(t) /\ (h \notin Elements(t) \/ h = NoPacket)
      OBVIOUS
    <3>1. ASSUME NEW i \in 1..n PROVE i + 1 \in DOMAIN s /\ 1 \in DOMAIN s /\ t[i] = s[i + 1]
      BY <1>0, <2>1
    <3>2. Distinct(t)
      <4> SUFFICES ASSUME NEW i \in 1..n, NEW j \in 1..n, t[i] = t[j], t[i] # NoPacket
                   PROVE  i = j
        BY <2>1 DEF Distinct
      <4>1. i + 1 = j + 1
        BY <3>1 DEF Distinct
      <4> QED
        BY <4>1
    <3>3. ASSUME NEW i \in 1..n, h = t[i] PROVE h = NoPacket
      <4>1. i + 1 = 1 \/ h = NoPacket
        BY <2>1, <3>1, <3>3 DEF Distinct
      <4> QED
        BY <4>1
    <3> QED
      BY <2>1, <3>2, <3>3 DEF Elements
  <2> QED
    BY <2>2, <2>3 DEF t, h
<1> QED
  BY <1>1, <1>2, <1>3, <1>4

(***************************************************************************)
(* The queue stays the end of what was pushed when a packet is pushed and  *)
(* when the first is taken.                                                *)
(***************************************************************************)
LEMMA EndOfFacts ==
  ASSUME NEW q \in Seq(Packets), NEW r \in Seq(Packets), EndOf(q, r)
  PROVE  /\ \A p \in Packets : EndOf(Append(q, p), Append(r, p))
         /\ q # <<>> => EndOf(Tail(q), r)
         /\ q = SubSeq(r, Len(r) - Len(q) + 1, Len(r))
<1>0. Len(q) \in Nat /\ Len(r) \in Nat
  BY QueueFacts
<1>1. ASSUME NEW p \in Packets PROVE EndOf(Append(q, p), Append(r, p))
  <2> DEFINE qq == Append(q, p)
             rr == Append(r, p)
  <2>1. /\ Len(qq) = Len(q) + 1 /\ \A i \in 1..Len(q) : qq[i] = q[i]
        /\ qq[Len(q) + 1] = p
    BY AppendProperties
  <2>2. /\ Len(rr) = Len(r) + 1 /\ \A i \in 1..Len(r) : rr[i] = r[i]
        /\ rr[Len(r) + 1] = p
    BY AppendProperties
  <2> HIDE DEF qq, rr
  <2>3. EndOf(qq, rr)
    <3>1. Len(qq) <= Len(rr)
      BY <1>0, <2>1, <2>2 DEF EndOf
    <3>2. ASSUME NEW i \in 1..Len(qq) PROVE qq[i] = rr[Len(rr) - Len(qq) + i]
      <4>1. Len(rr) - Len(qq) + i = Len(r) - Len(q) + i
        BY <1>0, <2>1, <2>2
      <4>2. CASE i = Len(q) + 1
        <5>1. Len(r) - Len(q) + i = Len(r) + 1
          BY <1>0, <4>2
        <5> QED
          BY <2>1, <2>2, <4>1, <4>2, <5>1
      <4>3. CASE i # Len(q) + 1
        <5>1. i \in 1..Len(q) /\ Len(r) - Len(q) + i \in 1..Len(r)
          BY <1>0, <2>1, <4>3 DEF EndOf
        <5> QED
          BY <2>1, <2>2, <4>1, <5>1 DEF EndOf
      <4> QED
        BY <4>2, <4>3
    <3> QED
      BY <3>1, <3>2 DEF EndOf
  <2> QED
    BY <2>3 DEF qq, rr
<1>2. ASSUME q # <<>> PROVE EndOf(Tail(q), r)
  <2> DEFINE t == Tail(q)
  <2>1. Len(t) = Len(q) - 1 /\ Len(q) >= 1 /\ \A i \in 1..Len(q) - 1 : t[i] = q[i + 1]
    BY <1>2, QueueFacts
  <2> HIDE DEF t
  <2>2. EndOf(t, r)
    BY <1>0, <2>1 DEF EndOf
  <2> QED
    BY <2>2 DEF t
<1>3. q = SubSeq(r, Len(r) - Len(q) + 1, Len(r))
  <2> DEFINE m == Len(r) - Len(q) + 1
             n == Len(r)
             s == SubSeq(r, m, n)
  <2>1. m \in Int /\ n \in Int /\ n - m + 1 = Len(q) /\ m >= 1
    BY <1>0 DEF EndOf
  <2>2. \A i \in m..n : r[i] \in Packets
    BY <1>0, <2>1, ElementOfSeq
  <2>3. \A i \in 1..Len(q) : q[i] = r[m + i - 1]
    BY <1>0 DEF EndOf
  <2>4. Len(q) \in Nat
    BY <1>0
  <2> HIDE DEF m, n
  <2>5. /\ s \in Seq(Packets) /\ Len(s) = (IF m <= n THEN n - m + 1 ELSE 0)
        /\ \A i \in 1..n - m + 1 : s[i] = r[m + i - 1]
    BY <2>1, <2>2, SubSeqProperties
  <2>6. Len(s) = Len(q) /\ \A i \in 1..Len(q) : q[i] = s[i]
    BY <2>1, <2>3, <2>4, <2>5
  <2>7. q = s
    BY <2>5, <2>6, SeqEqual
  <2> QED
    BY <2>7 DEF m, n
<1> QED
  BY <1>1, <1>2, <1>3

(***************************************************************************)
(* The steps of the thread of the loop, of Stop() and of the network keep  *)
(* Once.                                                                   *)
(***************************************************************************)
LEMMA MainKeepsOnce ==
  ASSUME Types, Types', Once
  PROVE  /\ Arrive => Once'
         /\ \A S \in SUBSET Workers : Start(S) => Once'
         /\ HandleRead => Once'
         /\ HandleError \/ LoopReturns \/ StopReceiver \/ MainStep \/ Destroy => Once'
         /\ UNCHANGED vars => Once'
<1>h. ASSUME UNCHANGED <<pc, pkt>> PROVE InHand' = InHand
  BY <1>h DEF InHand
<1>1. ASSUME Arrive PROVE Once'
  <2>1. /\ arrived' = arrived + 1 /\ arrived \in Nat /\ arrived' \in Packets
        /\ UNCHANGED <<main, received, pkt_queue_, running_, pc, pkt, handled>>
    BY <1>1, PacketAssumption DEF Arrive, Types, Packets, queuevars, workervars
  <2>2. InHand' = InHand /\ Serving' = Serving
    BY <1>h, <2>1 DEF Serving
  <2>3. 1..arrived \subseteq 1..arrived' /\ arrived' \in 1..arrived' /\ arrived' \notin 1..arrived
    BY <2>1
  <2>4. /\ Distinct(rcvbuf')
        /\ \A p \in Elements(rcvbuf)' : p \in Elements(rcvbuf) \/ p = NoPacket \/ p = arrived'
    <3>1. ASSUME NEW p \in {arrived', NoPacket}, rcvbuf' = Append(rcvbuf, p)
          PROVE  Distinct(rcvbuf') /\ Elements(rcvbuf') = Elements(rcvbuf) \cup {p}
      <4>1. p \in Packets \cup {NoPacket} /\ rcvbuf \in Seq(Packets \cup {NoPacket})
        BY <2>1 DEF Types
      <4>2. p \notin Elements(rcvbuf) \/ p = NoPacket
        BY <2>3 DEF Once
      <4> QED
        BY <3>1, <4>1, <4>2, ElementFacts DEF Once
    <3> QED
      BY <1>1, <3>1 DEF Arrive, Once, Elements
  <2>5. Elements(received)' = Elements(received) /\ Elements(pkt_queue_)' = Elements(pkt_queue_)
        /\ Elements(handled)' = Elements(handled)
    BY <2>1 DEF Elements
  <2>6. \A p \in Elements(rcvbuf)' :
          p = NoPacket \/ (p \in 1..arrived' /\ p \notin Elements(received)')
    BY <2>3, <2>4, <2>5 DEF Once
  <2> QED
    BY <2>1, <2>2, <2>3, <2>4, <2>5, <2>6 DEF Once
<1>2. ASSUME NEW S \in SUBSET Workers, Start(S) PROVE Once'
  <2>1. /\ running_' /\ main' = "loop" /\ received = <<>>
        /\ UNCHANGED <<rcvbuf, arrived, received, pkt_queue_, pkt, handled>>
    BY <1>2 DEF Start, WorkerStart, netvars, queuevars, Once
  <2>2. InHand' = {}
    BY <1>2 DEF Start, WorkerStart, InHand
  <2>3. Elements(received) = {}
    BY <2>1 DEF Elements
  <2>4. /\ Elements(received)' = Elements(received) /\ Elements(pkt_queue_)' = Elements(pkt_queue_)
        /\ Elements(handled)' = Elements(handled) /\ Elements(rcvbuf)' = Elements(rcvbuf)
    BY <2>1 DEF Elements
  <2> QED
    BY <2>1, <2>2, <2>3, <2>4 DEF Once
<1>3. ASSUME HandleRead PROVE Once'
  <2>1. /\ main = "loop" /\ rcvbuf # <<>> /\ rcvbuf' = Tail(rcvbuf)
        /\ UNCHANGED <<arrived, running_, pc, pkt, handled>>
    BY <1>3 DEF HandleRead, Receive, workervars
  <2> DEFINE h == Head(rcvbuf)
  <2>2. /\ Elements(rcvbuf) = Elements(rcvbuf') \cup {h} /\ Distinct(rcvbuf')
        /\ h \notin Elements(rcvbuf') \/ h = NoPacket
    BY <2>1, ElementFacts DEF Types, Once
  <2>3. InHand' = InHand /\ Elements(handled)' = Elements(handled)
        /\ Elements(rcvbuf)' = Elements(rcvbuf')
    BY <1>h, <2>1 DEF Elements
  <2>4. CASE h = NoPacket
    <3>1. UNCHANGED <<main, received, pkt_queue_>>
      BY <1>3, <2>4 DEF HandleRead, queuevars
    <3>2. /\ Elements(received)' = Elements(received) /\ Elements(pkt_queue_)' = Elements(pkt_queue_)
          /\ Serving' = Serving
      BY <3>1 DEF Elements, Serving
    <3> QED
      BY <2>1, <2>2, <2>3, <3>1, <3>2 DEF Once
  <2>5. CASE h # NoPacket
    <3>1. /\ main' = "notify" /\ pkt_queue_' = Append(pkt_queue_, h)
          /\ received' = Append(received, h)
      BY <1>3, <2>5 DEF HandleRead, PushLocked
    <3>2. h \in Elements(rcvbuf) /\ h \in Packets
      BY <2>1, <2>2, <2>5, HeadTailProperties DEF Types
    <3>3. h \in 1..arrived /\ h \notin Elements(received) /\ h \notin Elements(pkt_queue_)
      BY <2>5, <3>2 DEF Once
    <3>4. Elements(received') = Elements(received) \cup {h} /\ Distinct(received')
      BY <3>1, <3>2, <3>3, ElementFacts, SMTT(60) DEF Types, Once
    <3>5. Elements(pkt_queue_') = Elements(pkt_queue_) \cup {h} /\ Distinct(pkt_queue_')
      BY <3>1, <3>2, <3>3, ElementFacts, SMTT(30) DEF Types, Once
    <3>6. EndOf(pkt_queue_', received')
      BY <3>1, <3>2, EndOfFacts DEF Types, Once
    <3>7. Serving /\ Elements(received)' = Elements(received') /\ Elements(pkt_queue_)' = Elements(pkt_queue_')
      BY <2>1 DEF Serving, Elements
    <3> HIDE DEF h
    <3> QED
      BY <2>1, <2>2, <2>3, <2>5, <3>1, <3>3, <3>4, <3>5, <3>6, <3>7 DEF Once
  <2> QED
    BY <2>4, <2>5
<1>4. ASSUME HandleError \/ LoopReturns \/ StopReceiver \/ MainStep \/ Destroy \/ UNCHANGED vars
      PROVE  Once'
  <2>1. /\ UNCHANGED <<rcvbuf, arrived, received, pkt_queue_, pc, pkt, handled>>
        /\ main' = "new" => main = "new"
        /\ Serving' => Serving /\ UNCHANGED running_
    BY <1>4
       DEF HandleError, OnReceiverError, LoopReturns, StopReceiver, MainStep, PushNotify, NotifyOne,
           StopWorker, WorkerStop, StopWakeup, StopJoin, Destroy, vars, netvars, queuevars,
           workervars, Serving
  <2>2. /\ InHand' = InHand
        /\ Elements(received)' = Elements(received) /\ Elements(pkt_queue_)' = Elements(pkt_queue_)
        /\ Elements(handled)' = Elements(handled) /\ Elements(rcvbuf)' = Elements(rcvbuf)
    BY <1>h, <2>1 DEF Elements
  <2> QED
    BY <2>1, <2>2 DEF Once
<1> QED
  BY <1>1, <1>2, <1>3, <1>4

(***************************************************************************)
(* The steps of the workers keep Once.                                     *)
(***************************************************************************)
LEMMA WorkersKeepOnce ==
  ASSUME Types, Types', Once, NEW w \in Workers, Work(w)
  PROVE  Once'
<1>0. /\ UNCHANGED <<main, rcvbuf, arrived, received, running_>> /\ WorkerStep(w)
      /\ Serving' = Serving
      /\ Elements(rcvbuf)' = Elements(rcvbuf) /\ Elements(received)' = Elements(received)
  BY DEF Work, WorkerStep, TestRunning, Pop, PopWoken, Process, CallbackReturn, netvars, Serving, Elements
<1>t. pc \in [Workers -> Places] /\ pkt \in [Workers -> Packets \cup {NoPacket}]
  BY DEF Types
<1>p. NoPacket \notin Packets
  BY PacketAssumption DEF Packets
<1>u. ASSUME UNCHANGED <<pkt_queue_, handled>>, InHand' = InHand, \A v \in InHand : pkt'[v] = pkt[v]
      PROVE  Once'
  <2>1. Elements(pkt_queue_)' = Elements(pkt_queue_) /\ Elements(handled)' = Elements(handled)
    BY <1>u DEF Elements
  <2>2. /\ UNCHANGED <<main, rcvbuf, arrived, received, running_, pkt_queue_, handled>> /\ Serving' = Serving
        /\ Elements(rcvbuf)' = Elements(rcvbuf) /\ Elements(received)' = Elements(received)
    BY <1>0, <1>u
  <2>3. InHand' = InHand /\ \A v \in InHand : pkt'[v] = pkt[v]
    BY <1>u
  <2>4. /\ EndOf(pkt_queue_, received)'
        /\ Distinct(rcvbuf)' /\ Distinct(received)' /\ Distinct(pkt_queue_)' /\ Distinct(handled)'
    BY <2>2 DEF Once, EndOf, Distinct
  <2>5. \A v \in InHand' :
          /\ pkt'[v] \in Elements(received)' \ (Elements(pkt_queue_)' \cup Elements(handled)')
          /\ \A x \in InHand' : pkt'[x] = pkt'[v] => x = v
    BY <2>1, <2>2, <2>3 DEF Once
  <2>6. /\ \A p \in Elements(rcvbuf)' : p = NoPacket \/ (p \in 1..arrived' /\ p \notin Elements(received)')
        /\ Elements(received)' \subseteq 1..arrived'
        /\ Elements(pkt_queue_)' \subseteq Elements(received)'
        /\ Elements(handled)' \subseteq Elements(received)' \ Elements(pkt_queue_)'
        /\ main' = "new" => received' = <<>>
    BY <2>1, <2>2 DEF Once
  <2>7. ASSUME Serving'
        PROVE  /\ running_'
               /\ \A p \in Elements(received)' :
                    p \in Elements(handled)' \cup Elements(pkt_queue_)' \/ \E v \in InHand' : p = pkt'[v]
    <3>1. Serving
      BY <2>2, <2>7
    <3> QED
      BY <2>1, <2>2, <2>3, <3>1 DEF Once
  <2> QED
    BY <2>4, <2>5, <2>6, <2>7 DEF Once
<1>k. ASSUME Take(w), pc[w] # "got", pc' = [pc EXCEPT ![w] = "got"], UNCHANGED handled
      PROVE  Once'
  <2> DEFINE h == Head(pkt_queue_)
  <2>1. /\ pkt_queue_ # <<>> /\ pkt_queue_' = Tail(pkt_queue_)
        /\ pkt' = [pkt EXCEPT ![w] = h]
    BY <1>k DEF Take, PopTake
  <2>2. h \in Packets /\ h # NoPacket
    BY <1>p, <2>1, HeadTailProperties DEF Types
  <2>3. /\ Elements(pkt_queue_) = Elements(pkt_queue_') \cup {h}
        /\ h \notin Elements(pkt_queue_') /\ Distinct(pkt_queue_')
    BY <2>1, <2>2, ElementFacts DEF Types, Once
  <2>4. EndOf(pkt_queue_', received')
    BY <1>0, <2>1, EndOfFacts DEF Types, Once
  <2> HIDE DEF h
  <2>5. /\ InHand' = InHand \cup {w} /\ w \notin InHand /\ pkt'[w] = h
        /\ \A v \in InHand : pkt'[v] = pkt[v]
    BY <1>k, <1>t, <2>1, <2>2 DEF InHand
  <2>6. Elements(pkt_queue_)' = Elements(pkt_queue_') /\ Elements(handled)' = Elements(handled)
    BY <1>k DEF Elements
  <2>7. h \in Elements(received) /\ h \notin Elements(handled) /\ \A v \in InHand : pkt[v] # h
    BY <2>3 DEF Once
  <2>8. \A v \in InHand' :
          /\ pkt'[v] \in Elements(received)' \ (Elements(pkt_queue_)' \cup Elements(handled)')
          /\ \A u \in InHand' : pkt'[u] = pkt'[v] => u = v
    BY <1>0, <2>3, <2>5, <2>6, <2>7, SMTT(60) DEF Once
  <2>9. Serving' =>
          /\ running_'
          /\ \A p \in Elements(received)' :
               \/ p \in Elements(handled)' \cup Elements(pkt_queue_)'
               \/ \E v \in InHand' : p = pkt'[v]
    BY <1>0, <2>3, <2>5, <2>6, SMTT(60) DEF Once
  <2> QED
    BY <1>0, <1>k, <2>3, <2>4, <2>6, <2>8, <2>9 DEF Once
<1>1. CASE TestRunning(w)
  <2>1. UNCHANGED <<pkt_queue_, handled, pkt>> /\ InHand' = InHand
    BY <1>t, <1>1 DEF TestRunning, At, InHand, queuevars
  <2> QED
    BY <1>u, <2>1
<1>2. CASE Pop(w)
  <2>1. CASE Take(w)
    BY <1>2, <1>k, <2>1 DEF Pop, At, PopWait, Take, PopTake
  <2>2. CASE PopWait(w) /\ At(w, "pop", "wait") /\ UNCHANGED pkt
    <3>1. UNCHANGED <<pkt_queue_, handled, pkt>> /\ InHand' = InHand
      BY <1>t, <1>2, <2>2 DEF Pop, PopWait, At, InHand
    <3> QED
      BY <1>u, <3>1
  <2> QED
    BY <1>2, <2>1, <2>2 DEF Pop
<1>3. CASE PopWoken(w)
  <2>1. CASE Take(w)
    BY <1>3, <1>k, <2>1 DEF PopWoken, At
  <2>2. CASE PopNothing /\ pkt' = [pkt EXCEPT ![w] = NoPacket]
    <3>1. UNCHANGED <<pkt_queue_, handled>>
      BY <1>3, <2>2 DEF PopWoken, PopNothing, queuevars
    <3>2. InHand' = InHand /\ \A v \in InHand : pkt'[v] = pkt[v]
      BY <1>t, <1>3, <2>2 DEF PopWoken, At, InHand
    <3> QED
      BY <1>u, <3>1, <3>2
  <2> QED
    BY <1>3, <2>1, <2>2 DEF PopWoken
<1>4. CASE Process(w)
  <2>0. UNCHANGED <<pkt, pkt_queue_>> /\ Elements(pkt_queue_)' = Elements(pkt_queue_)
    BY <1>4 DEF Process, queuevars, Elements
  <2>1. CASE ~running_ /\ At(w, "got", "end") /\ UNCHANGED handled
    <3>1. ~Serving /\ Elements(handled)' = Elements(handled)
      BY <2>1 DEF Once, Elements
    <3>2. InHand' \subseteq InHand
      BY <1>t, <2>0, <2>1 DEF At, InHand
    <3> QED
      BY <1>0, <2>0, <2>1, <3>1, <3>2 DEF Once
  <2>2. CASE running_ /\ pkt[w] = NoPacket /\ At(w, "got", "end") /\ UNCHANGED handled
    <3>1. InHand' = InHand
      BY <1>t, <2>0, <2>2 DEF At, InHand
    <3> QED
      BY <1>u, <2>0, <2>2, <3>1
  <2>3. CASE /\ running_ /\ pkt[w] # NoPacket /\ At(w, "got", "call")
             /\ handled' = Append(handled, pkt[w])
    <3>1. w \in InHand /\ InHand' = InHand \ {w} /\ pkt[w] \in Packets
      BY <1>t, <2>0, <2>3 DEF At, InHand
    <3>0. /\ handled \in Seq(Packets) /\ Distinct(handled) /\ pkt[w] \notin Elements(handled)
      BY <3>1 DEF Types, Once
    <3>2. Elements(handled') = Elements(handled) \cup {pkt[w]} /\ Distinct(handled')
      BY <2>3, <3>0, <3>1, ElementFacts
    <3>3. Elements(handled)' = Elements(handled')
      BY DEF Elements
    <3>4. \A v \in InHand' : v \in InHand /\ pkt[v] # pkt[w]
      BY <3>1 DEF Once
    <3>5. Elements(handled)' \subseteq Elements(received)' \ Elements(pkt_queue_)'
      BY <1>0, <2>0, <3>1, <3>2, <3>3, SMTT(30) DEF Once
    <3>6. \A v \in InHand' :
            /\ pkt'[v] \in Elements(received)' \ (Elements(pkt_queue_)' \cup Elements(handled)')
            /\ \A u \in InHand' : pkt'[u] = pkt'[v] => u = v
      BY <1>0, <2>0, <3>2, <3>3, <3>4 DEF Once
    <3>7. Serving' =>
            /\ running_'
            /\ \A p \in Elements(received)' :
                 \/ p \in Elements(handled)' \cup Elements(pkt_queue_)'
                 \/ \E v \in InHand' : p = pkt'[v]
      BY <1>0, <2>0, <3>1, <3>2, <3>3 DEF Once
    <3> QED
      BY <1>0, <2>0, <3>2, <3>5, <3>6, <3>7 DEF Once
  <2> QED
    BY <1>4, <2>1, <2>2, <2>3 DEF Process
<1>5. CASE CallbackReturn(w)
  <2>1. UNCHANGED <<pkt_queue_, handled>>
    BY <1>5 DEF CallbackReturn, queuevars
  <2>2. InHand' = InHand /\ \A v \in InHand : pkt'[v] = pkt[v]
    BY <1>t, <1>5 DEF CallbackReturn, At, InHand
  <2> QED
    BY <1>u, <2>1, <2>2
<1> QED
  BY <1>0, <1>1, <1>2, <1>3, <1>4, <1>5 DEF WorkerStep

(***************************************************************************)
(* For any number of workers and datagrams a packet that was received has  *)
(* one place, is handed to the callback at most once, is taken in order,   *)
(* and is not dropped before Stop().                                       *)
(***************************************************************************)
THEOREM PacketsHandledOnce == Spec => []PacketsOnce
<1>1. Init => Once
  <2> SUFFICES ASSUME Init PROVE Once
    OBVIOUS
  <2>1. /\ main = "new" /\ rcvbuf = <<>> /\ received = <<>> /\ pkt_queue_ = <<>> /\ handled = <<>>
        /\ InHand = {} /\ Elements(<<>>) = {} /\ Distinct(<<>>) /\ ~Serving
    BY DEF Init, QueueInit, WorkerInit, InHand, Elements, Distinct, Serving
  <2>2. EndOf(<<>>, <<>>)
    BY EmptySeq DEF EndOf
  <2> QED
    BY <2>1, <2>2 DEF Once
<1>2. Types /\ Types' /\ Once /\ [Next]_vars => Once'
  BY MainKeepsOnce, WorkersKeepOnce DEF Next
<1>3. Types /\ Once => PacketsOnce
  <2> SUFFICES ASSUME Types, Once PROVE PacketsOnce
    OBVIOUS
  <2>1. pkt_queue_ = SubSeq(received, Len(received) - Len(pkt_queue_) + 1, Len(received))
    BY EndOfFacts DEF Types, Once
  <2>2. \A i, j \in DOMAIN handled : handled[i] = handled[j] => i = j
    <3>1. \A i \in DOMAIN handled : handled[i] # NoPacket
      BY PacketAssumption, QueueFacts DEF Types, Packets
    <3> QED
      BY <3>1 DEF Once, Distinct
  <2>3. /\ Elements(handled) \cap Elements(pkt_queue_) = {}
        /\ \A v, w \in InHand :
             /\ pkt[w] \notin Elements(handled) \cup Elements(pkt_queue_)
             /\ pkt[v] = pkt[w] => v = w
        /\ Serving => Elements(received) \subseteq
             Elements(handled) \cup Elements(pkt_queue_) \cup {pkt[w] : w \in InHand}
    BY DEF Once
  <2> QED
    BY <2>1, <2>2, <2>3 DEF PacketsOnce
<1> QED
  BY <1>1, <1>2, <1>3, TypesHold, PTL DEF Spec
=============================================================================
