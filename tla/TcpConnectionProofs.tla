------------------------- MODULE TcpConnectionProofs -------------------------
(***************************************************************************)
(* Proofs about TcpConnection.tla, for any number of threads, messages of  *)
(* any length, any capacity of the kernel's buffer and any number of       *)
(* packets and queued calls.                                               *)
(***************************************************************************)
EXTENDS TcpConnection, SequenceTheorems, FiniteSetTheorems, TLAPS

ByteSet == Msgs \X Nat
ByteStr == Seq(ByteSet)
States == {"CONNECTING", "CONNECTED", "DISCONNECTING", "DISCONNECTED"}
Events == {"hup", "in", "out"}
Kinds == {"established", "send", "shutdown", "close", "destroy"}
TaskSet == {x \in [kind : Kinds, msg : Msgs \cup {NoMsg}] : x.kind = "send" => x.msg \in Msgs}

Types ==
  /\ state_ \in States /\ reading \in BOOLEAN /\ writing \in BOOLEAN /\ removing \in BOOLEAN
  /\ buffer_output_ \in ByteStr /\ sndbuf \in ByteStr
  /\ received \in ByteStr /\ accepted \in ByteStr
  /\ tasks \in Seq(TaskSet) /\ calls \in [Others -> SUBSET TaskSet]
  /\ pc \in {"loop", "polled", "aborted"} /\ revents \in SUBSET Events
  /\ downs \in Nat /\ wrClosed \in BOOLEAN

-----------------------------------------------------------------------------
(***************************************************************************)
(* Strings of bytes: concatenation, and the two parts of a partial send(). *)
(***************************************************************************)
LEMMA ByteFacts ==
  /\ \A s, t \in ByteStr : s \o t \in ByteStr /\ Len(s \o t) = Len(s) + Len(t)
  /\ \A s, t, u \in ByteStr : (s \o t) \o u = s \o (t \o u)
  /\ \A s \in ByteStr : s \o <<>> = s /\ Len(s) \in Nat /\ (s = <<>> <=> Len(s) = 0)
  /\ <<>> \in ByteStr
<1>1. ASSUME NEW s \in ByteStr, NEW t \in ByteStr
      PROVE  s \o t \in ByteStr /\ Len(s \o t) = Len(s) + Len(t)
  BY ConcatProperties DEF ByteStr
<1>2. ASSUME NEW s \in ByteStr, NEW t \in ByteStr, NEW u \in ByteStr
      PROVE  (s \o t) \o u = s \o (t \o u)
  BY ConcatAssociative DEF ByteStr
<1>3. ASSUME NEW s \in ByteStr
      PROVE  s \o <<>> = s /\ Len(s) \in Nat /\ (s = <<>> <=> Len(s) = 0)
  BY ConcatEmptySeq, LenProperties, EmptySeq DEF ByteStr
<1>4. <<>> \in ByteStr
  BY EmptySeq DEF ByteStr
<1> QED
  BY <1>1, <1>2, <1>3, <1>4

(***************************************************************************)
(* Concatenation of strings, in the form in which it is used below.        *)
(***************************************************************************)
LEMMA Joined ==
  /\ \A s, t \in ByteStr : s \o t \in ByteStr
  /\ \A s, t, u \in ByteStr : (s \o t) \o u = s \o (t \o u)
BY ByteFacts, Zenon

(***************************************************************************)
(* What send() takes and what is left make up the whole.                   *)
(***************************************************************************)
LEMMA PartsOfString ==
  ASSUME NEW s \in ByteStr, NEW n \in 0..Len(s)
  PROVE  /\ SubSeq(s, 1, n) \in ByteStr /\ SubSeq(s, n + 1, Len(s)) \in ByteStr
         /\ Len(SubSeq(s, n + 1, Len(s))) = Len(s) - n
         /\ SubSeq(s, 1, n) \o SubSeq(s, n + 1, Len(s)) = s
<1>0. s \in Seq(ByteSet) /\ Len(s) \in Nat
  BY LenProperties DEF ByteStr
<1>1. SubSeq(s, 1, n) \in ByteStr
  <2>1. \A i \in 1..n : s[i] \in ByteSet
    BY <1>0, ElementOfSeq
  <2> QED
    BY <1>0, <2>1, SubSeqProperties DEF ByteStr
<1>2. SubSeq(s, n + 1, Len(s)) \in ByteStr /\ Len(SubSeq(s, n + 1, Len(s))) = Len(s) - n
  <2> DEFINE m == n + 1
             k == Len(s)
  <2>1. m \in Int /\ k \in Int /\ \A i \in m..k : s[i] \in ByteSet
    BY <1>0, ElementOfSeq
  <2>2. (IF m <= k THEN k - m + 1 ELSE 0) = Len(s) - n
    BY <1>0
  <2> HIDE DEF m, k
  <2>3. SubSeq(s, m, k) \in Seq(ByteSet) /\ Len(SubSeq(s, m, k)) = IF m <= k THEN k - m + 1 ELSE 0
    BY <2>1, SubSeqProperties
  <2> QED
    BY <2>2, <2>3 DEF m, k, ByteStr
<1>3. SubSeq(s, 1, n) \o SubSeq(s, n + 1, Len(s)) = s
  <2> DEFINE k == Len(s)
             one == 1
  <2>1. one \in 1..k + 1 /\ n \in one - 1..k /\ k \in n..k
    BY <1>0
  <2>2. SubSeq(s, one, n) \o SubSeq(s, n + 1, k) = SubSeq(s, one, k)
    BY <1>0, <2>1, ConcatAdjacentSubSeq
  <2>3. SubSeq(s, 1, Len(s)) = s
    BY <1>0, SubSeqFull
  <2> QED
    BY <2>2, <2>3
<1> QED
  BY <1>1, <1>2, <1>3

(***************************************************************************)
(* The bytes of a message.                                                 *)
(***************************************************************************)
LEMMA MessageBytes ==
  ASSUME NEW m \in Msgs
  PROVE  Bytes(m) \in ByteStr /\ Len(Bytes(m)) = MsgLen[m] /\ MsgLen[m] \in Nat \ {0}
<1>1. MsgLen[m] \in Nat \ {0}
  BY LengthAssumption
<1>2. Bytes(m) \in [1..MsgLen[m] -> ByteSet]
  BY <1>1 DEF Bytes, ByteSet
<1>3. Bytes(m) \in Seq(ByteSet)
  BY <1>1, <1>2, SeqDef
<1>4. Len(Bytes(m)) \in Nat /\ 1..Len(Bytes(m)) = 1..MsgLen[m]
  BY <1>2, <1>3, LenProperties
<1> QED
  BY <1>1, <1>3, <1>4 DEF ByteStr

(***************************************************************************)
(* A byte that the peer reads passes from the kernel to the peer.          *)
(***************************************************************************)
LEMMA ByteMoves ==
  ASSUME NEW r \in ByteStr, NEW s \in ByteStr, s # <<>>
  PROVE  /\ Append(r, Head(s)) \in ByteStr /\ Tail(s) \in ByteStr
         /\ Append(r, Head(s)) \o Tail(s) = r \o s
<1>1. Head(s) \in ByteSet /\ Tail(s) \in ByteStr
  BY HeadTailProperties DEF ByteStr
<1>2. <<Head(s)>> \in ByteStr /\ Append(r, Head(s)) = r \o <<Head(s)>> /\ Append(r, Head(s)) \in ByteStr
  <2>1. <<Head(s)>> = Append(<<>>, Head(s)) /\ <<>> \in Seq(ByteSet)
    BY EmptySeq
  <2> QED
    BY <1>1, <2>1, AppendProperties, AppendIsConcat DEF ByteStr
<1>3. <<Head(s)>> \o Tail(s) = s
  <2>1. 1 \in 1..Len(s) /\ Len(s) \in 1..Len(s)
    BY EmptySeq DEF ByteStr
  <2>2. SubSeq(s, 1, Len(s)) = <<s[1]>> \o SubSeq(s, 1 + 1, Len(s))
    BY <2>1, SubSeqRecursiveFirst DEF ByteStr
  <2>3. SubSeq(s, 1, Len(s)) = s /\ Tail(s) = SubSeq(s, 2, Len(s)) /\ Head(s) = s[1]
    BY SubSeqFull, TailIsSubSeq DEF ByteStr
  <2> QED
    BY <2>2, <2>3
<1> DEFINE h == <<Head(s)>>
           t == Tail(s)
<1>4. h \in ByteStr /\ t \in ByteStr /\ h \o t = s
  BY <1>1, <1>2, <1>3
<1> HIDE DEF h, t
<1>5. (r \o h) \o t = r \o s
  BY <1>4, ByteFacts, ZenonT(60)
<1> QED
  BY <1>1, <1>2, <1>5 DEF h, t

-----------------------------------------------------------------------------
\* What WritingMatches says of the buffer; without it a direct send() would
\* overtake waiting output.
Flow ==
  /\ StreamIntact
  /\ state_ = "CONNECTED" => (writing <=> buffer_output_ # <<>>) /\ (writing => ~wrClosed)

(***************************************************************************)
(* send() takes at least one byte and at most what it is given.            *)
(***************************************************************************)
LEMMA SendableFacts ==
  ASSUME Types, NEW len \in Nat, Space > 0
  PROVE  Sendable(len) \in 0..len
<1>1. Space \in Int
  BY LengthAssumption, ByteFacts DEF Space, Types
<1> QED
  BY <1>1 DEF Sendable

(***************************************************************************)
(* _Send(): whether the message is buffered, sent or partly sent, it joins *)
(* the stream at its end, and write events are enabled if a part waits.    *)
(***************************************************************************)
LEMMA SendKeepsFlow ==
  ASSUME Types, NEW m \in Msgs, SendMsg(m)
  PROVE  /\ sndbuf' \in ByteStr /\ buffer_output_' \in ByteStr /\ accepted' \in ByteStr
         /\ writing' \in BOOLEAN /\ UNCHANGED <<state_, reading>>
         /\ Flow /\ state_ = "CONNECTED" /\ UNCHANGED <<received, wrClosed>> => Flow'
<1> DEFINE b == Bytes(m)
<1>b. b \in ByteStr /\ Len(b) = MsgLen[m] /\ MsgLen[m] \in Nat \ {0}
  BY MessageBytes
<1>t. received \in ByteStr /\ sndbuf \in ByteStr /\ buffer_output_ \in ByteStr /\ accepted \in ByteStr
      /\ writing \in BOOLEAN
  BY DEF Types
<1>1. CASE writing /\ SendDatQueueInBuffer(b) /\ accepted' = accepted \o b /\ UNCHANGED sndbuf
  <2>1. buffer_output_' = buffer_output_ \o b /\ writing' = TRUE /\ UNCHANGED <<state_, reading>>
    BY <1>1 DEF SendDatQueueInBuffer
  <2> HIDE DEF b
  <2>2. buffer_output_' \in ByteStr /\ accepted' \in ByteStr /\ buffer_output_' # <<>>
    BY <1>1, <1>b, <1>t, <2>1, ByteFacts, SMTT(30)
  <2>3. StreamIntact /\ UNCHANGED received => StreamIntact'
    <3> SUFFICES ASSUME StreamIntact, UNCHANGED received PROVE StreamIntact'
      OBVIOUS
    <3> DEFINE x == received \o sndbuf
    <3>1. x \in ByteStr /\ accepted = x \o buffer_output_
      BY <1>t, ByteFacts DEF StreamIntact
    <3> HIDE DEF x
    <3>2. (x \o buffer_output_) \o b = x \o (buffer_output_ \o b)
      <4>1. x \in ByteStr /\ buffer_output_ \in ByteStr /\ b \in ByteStr
        BY <1>b, <1>t, <3>1
      <4> QED
        BY <4>1, Joined, Zenon
    <3> QED
      BY <1>1, <2>1, <3>1, <3>2 DEF StreamIntact, x
  <2> QED
    BY <1>1, <1>t, <2>1, <2>2, <2>3 DEF Flow
<1>2. CASE ~writing /\ UNCHANGED <<connvars, sndbuf, accepted>>
  BY <1>2, <1>t DEF connvars, Flow, StreamIntact
<1>3. ASSUME ~writing, CanSend, NEW n, n = Sendable(MsgLen[m]),
             sndbuf' = sndbuf \o SubSeq(b, 1, n), accepted' = accepted \o b,
             IF n = MsgLen[m] THEN UNCHANGED connvars ELSE SendDatQueueInBuffer(Rest(b, n))
      PROVE  /\ sndbuf' \in ByteStr /\ buffer_output_' \in ByteStr /\ accepted' \in ByteStr
             /\ writing' \in BOOLEAN /\ UNCHANGED <<state_, reading>>
             /\ Flow /\ state_ = "CONNECTED" /\ UNCHANGED <<received, wrClosed>> => Flow'
  <2> DEFINE p == SubSeq(b, 1, n)
             q == SubSeq(b, n + 1, Len(b))
  <2>0. n \in 0..Len(b) /\ ~wrClosed
    BY <1>b, <1>3, SendableFacts DEF CanSend
  <2>1. p \in ByteStr /\ q \in ByteStr /\ Len(q) = Len(b) - n /\ p \o q = b
    BY <1>b, <2>0, PartsOfString
  <2>2. \/ n = Len(b) /\ UNCHANGED <<state_, reading, writing, buffer_output_>>
        \/ /\ n # Len(b) /\ buffer_output_' = buffer_output_ \o q /\ writing' = TRUE
           /\ UNCHANGED <<state_, reading>>
    BY <1>b, <1>3 DEF SendDatQueueInBuffer, Rest, connvars
  <2> HIDE DEF p, q, b
  <2>3. sndbuf' = sndbuf \o p /\ accepted' = accepted \o b
    BY <1>3 DEF p
  <2>4. /\ sndbuf' \in ByteStr /\ buffer_output_' \in ByteStr /\ accepted' \in ByteStr
        /\ writing' \in BOOLEAN /\ UNCHANGED <<state_, reading>>
    <3>1. sndbuf' \in ByteStr /\ accepted' \in ByteStr /\ buffer_output_ \o q \in ByteStr
      BY <1>b, <1>t, <2>1, <2>3, Joined, Zenon
    <3> QED
      BY <1>t, <2>2, <3>1
  <2>5. ASSUME buffer_output_ = <<>>
        PROVE  /\ n = Len(b) => q = <<>>
               /\ buffer_output_' = q /\ (writing' <=> q # <<>>)
    <3>1. Len(b) \in Nat /\ (q = <<>> <=> n = Len(b))
      <4>1. Len(b) \in Nat /\ n \in Nat
        BY <1>b, <2>0
      <4> QED
        BY <2>1, <4>1, ByteFacts
    <3>2. <<>> \o q = q
      BY <2>1, ConcatEmptySeq DEF ByteStr
    <3> QED
      BY <1>3, <1>t, <2>2, <2>5, <3>1, <3>2
  <2>6. ASSUME StreamIntact, UNCHANGED received, buffer_output_ = <<>> PROVE StreamIntact'
    <3> DEFINE x == received \o sndbuf
    <3>1. x \in ByteStr /\ accepted = x
      BY <1>t, <2>6, ByteFacts DEF StreamIntact
    <3>2. (received \o sndbuf) \o p = received \o (sndbuf \o p)
      <4>1. received \in ByteStr /\ sndbuf \in ByteStr /\ p \in ByteStr
        BY <1>t, <2>1
      <4> QED
        BY <4>1, Joined, Zenon
    <3> HIDE DEF x
    <3>3. (x \o p) \o q = x \o (p \o q)
      BY <2>1, <3>1, Joined, Zenon
    <3>4. accepted' = (x \o p) \o q
      BY <2>1, <2>3, <3>1, <3>3
    <3> QED
      BY <2>3, <2>5, <2>6, <3>2, <3>4 DEF StreamIntact, x
  <2> QED
    BY <1>3, <2>0, <2>4, <2>5, <2>6 DEF Flow
<1> QED
  BY <1>1, <1>2, <1>3 DEF SendMsg

(***************************************************************************)
(* HandleWrite(): what send() takes leaves the buffer and joins what the   *)
(* kernel has; write events stay enabled if a part is left.                *)
(***************************************************************************)
LEMMA WriteKeepsFlow ==
  ASSUME Types, HandleWrite
  PROVE  /\ sndbuf' \in ByteStr /\ buffer_output_' \in ByteStr
         /\ writing' \in BOOLEAN /\ UNCHANGED <<state_, reading, received, accepted, wrClosed>>
         /\ Flow => Flow'
<1>t. received \in ByteStr /\ sndbuf \in ByteStr /\ buffer_output_ \in ByteStr
      /\ writing \in BOOLEAN /\ UNCHANGED <<received, accepted, wrClosed>>
  BY DEF Types, HandleWrite, histvars
<1>1. CASE UNCHANGED <<connvars, sndbuf>>
  BY <1>1, <1>t DEF connvars, Flow, StreamIntact
<1>2. CASE /\ state_ = "CONNECTED" /\ CanSend
           /\ LET n == Sendable(Len(buffer_output_)) IN
              /\ sndbuf' = sndbuf \o SubSeq(buffer_output_, 1, n)
              /\ buffer_output_' = Retrieve(n)
              /\ writing' = (n # Len(buffer_output_))
           /\ UNCHANGED <<state_, reading>>
  <2> DEFINE n == Sendable(Len(buffer_output_))
             p == SubSeq(buffer_output_, 1, n)
             q == SubSeq(buffer_output_, n + 1, Len(buffer_output_))
  <2>0. Len(buffer_output_) \in Nat /\ n \in 0..Len(buffer_output_) /\ ~wrClosed
    BY <1>2, <1>t, SendableFacts, ByteFacts DEF CanSend
  <2>1. sndbuf' = sndbuf \o p /\ buffer_output_' = q /\ writing' = (n # Len(buffer_output_))
        /\ UNCHANGED <<state_, reading>>
    BY <1>2 DEF Retrieve
  <2> HIDE DEF n
  <2>2. p \in ByteStr /\ q \in ByteStr /\ Len(q) = Len(buffer_output_) - n /\ p \o q = buffer_output_
    BY <1>t, <2>0, PartsOfString
  <2> HIDE DEF p, q
  <2>3. q = <<>> <=> n = Len(buffer_output_)
    BY <2>0, <2>2, ByteFacts
  <2>4. sndbuf' \in ByteStr
    BY <1>t, <2>1, <2>2, Joined, Zenon
  <2>5. StreamIntact => StreamIntact'
    <3> DEFINE x == received \o sndbuf
    <3>1. received \in ByteStr /\ sndbuf \in ByteStr /\ p \in ByteStr /\ q \in ByteStr
      BY <1>t, <2>2
    <3>2. x \in ByteStr /\ x \o p = received \o (sndbuf \o p)
      BY <3>1, Joined, Zenon
    <3> HIDE DEF x
    <3>3. (x \o p) \o q = x \o (p \o q)
      BY <3>1, <3>2, Joined, ZenonT(60)
    <3>4. ASSUME StreamIntact PROVE accepted = x \o (p \o q)
      BY <2>2, <3>4 DEF StreamIntact, x
    <3> QED
      BY <1>t, <2>1, <3>2, <3>3, <3>4 DEF StreamIntact
  <2> QED
    BY <1>t, <2>0, <2>1, <2>2, <2>3, <2>4, <2>5 DEF Flow
<1> QED
  BY <1>1, <1>2 DEF HandleWrite

(***************************************************************************)
(* The constructor establishes the types, and every step keeps them.       *)
(***************************************************************************)
LEMMA TypesHold == Spec => []Types
<1>k. \A k \in Kinds \ {"send"} : Task(k, NoMsg) \in TaskSet
  BY DEF Task, TaskSet
<1>1. Init => Types
  <2> SUFFICES ASSUME Init PROVE Types
    OBVIOUS
  <2>1. tasks \in Seq(TaskSet)
    <3>1. Task("established", NoMsg) \in TaskSet /\ <<>> \in Seq(TaskSet)
      BY <1>k, EmptySeq DEF Kinds
    <3>2. tasks = Append(<<>>, Task("established", NoMsg))
      BY DEF Init
    <3> QED
      BY <3>1, <3>2, AppendProperties
  <2> QED
    BY <2>1, ByteFacts DEF Init, Types, States
<1>2. Types /\ [Next]_vars => Types'
  <2> SUFFICES ASSUME Types, [Next]_vars PROVE Types'
    OBVIOUS
  <2> USE DEF connvars, loopvars, uservars, kernvars, histvars
  <2>1. CASE PeerSends \/ PeerCloses \/ PeerResets
    BY <2>1 DEF PeerSends, PeerCloses, PeerResets, Types
  <2>2. CASE PeerReads
    <3>1. received' \in ByteStr /\ sndbuf' \in ByteStr
      BY <2>2, ByteMoves DEF PeerReads, Types
    <3> QED
      BY <2>2, <3>1 DEF PeerReads, Types
  <2>3. CASE Poll \/ EventDone
    BY <2>3 DEF Poll, EventDone, Ready, Events, Types
  <2>c. ASSUME HandleClose \/ UNCHANGED <<connvars, histvars>>
        PROVE  /\ state_' \in States /\ reading' \in BOOLEAN /\ writing' \in BOOLEAN
               /\ removing' \in BOOLEAN /\ downs' \in Nat /\ UNCHANGED <<buffer_output_, accepted>>
    <3>1. CASE HandleClose
      <4>1. /\ state_' = "DISCONNECTING" /\ reading' = FALSE /\ writing' = FALSE
            /\ downs' = downs + 1 /\ removing' = TRUE /\ UNCHANGED <<buffer_output_, accepted>>
        BY <3>1 DEF HandleClose
      <4>2. downs' \in Nat
        BY <4>1 DEF Types
      <4> QED
        BY <4>1, <4>2, Zenon DEF States
    <3>2. CASE UNCHANGED <<connvars, histvars>>
      BY <3>2 DEF Types
    <3> QED
      BY <2>c, <3>1, <3>2
  <2>4. CASE HandleHup \/ HandleRead
    <3>1. HandleClose \/ UNCHANGED <<connvars, histvars>>
      BY <2>4 DEF HandleHup, HandleRead
    <3>2. /\ revents' \in SUBSET Events
          /\ UNCHANGED <<sndbuf, received, tasks, calls, pc, wrClosed>>
      BY <2>4 DEF HandleHup, HandleRead, Types
    <3> QED
      BY <2>c, <3>1, <3>2 DEF Types
  <2>5. CASE HandleWrite
    <3>1. /\ sndbuf' \in ByteStr /\ buffer_output_' \in ByteStr
          /\ writing' \in BOOLEAN /\ UNCHANGED <<state_, reading, received, accepted, wrClosed>>
      BY <2>5, WriteKeepsFlow
    <3>2. pc' \in {"loop", "polled", "aborted"} /\ revents' = {} /\ UNCHANGED <<tasks, calls, downs, removing>>
      BY <2>5 DEF HandleWrite, Types
    <3> QED
      BY <3>1, <3>2 DEF Types
  <2>6. CASE RunTask
    <3>1. Head(tasks) \in TaskSet /\ tasks' \in Seq(TaskSet)
      BY <2>6, HeadTailProperties DEF RunTask, Types
    <3>2. UNCHANGED <<pc, revents, calls, received>>
      BY <2>6 DEF RunTask
    <3>3. CASE Head(tasks).kind = "send" /\ SendInLoop(Head(tasks).msg)
      <4>1. Head(tasks).msg \in Msgs
        BY <3>1, <3>3 DEF TaskSet
      <4>2. /\ sndbuf' \in ByteStr /\ buffer_output_' \in ByteStr /\ accepted' \in ByteStr
            /\ writing' \in BOOLEAN /\ UNCHANGED <<state_, reading>>
        BY <3>3, <4>1, SendKeepsFlow DEF SendInLoop, Types
      <4> QED
        BY <3>1, <3>2, <3>3, <4>2 DEF SendInLoop, Types
    <3>4. CASE ConnectionEstablished \/ ShutdownWriteInLoop \/ ConnectionDestroy
      BY <3>1, <3>2, <3>4 DEF ConnectionEstablished, ShutdownWriteInLoop, ConnectionDestroy, Types, States
    <3>5. CASE ForceCloseInLoop
      <4>1. (HandleClose \/ UNCHANGED <<connvars, histvars>>) /\ UNCHANGED <<sndbuf, wrClosed>>
        BY <3>5 DEF ForceCloseInLoop
      <4> QED
        BY <2>c, <3>1, <3>2, <4>1 DEF Types
    <3> QED
      BY <2>6, <3>3, <3>4, <3>5 DEF RunTask
  <2>7. CASE RemoveConnection
    <3>1. tasks' \in Seq(TaskSet)
      BY <2>7, <1>k, AppendProperties DEF RemoveConnection, Kinds, Types
    <3> QED
      BY <2>7, <3>1 DEF RemoveConnection, Types
  <2>8. ASSUME NEW m \in Msgs, Send(m) PROVE Types'
    <3>1. /\ sndbuf' \in ByteStr /\ buffer_output_' \in ByteStr /\ accepted' \in ByteStr
          /\ writing' \in BOOLEAN /\ UNCHANGED <<state_, reading>>
      BY <2>8, SendKeepsFlow DEF Send
    <3> QED
      BY <2>8, <3>1 DEF Send, Types
  <2>9. ASSUME NEW k \in {"shutdown", "close"}, CallInLoop(k) PROVE Types'
    <3>1. tasks' \in Seq(TaskSet)
      BY <2>9, <1>k, AppendProperties DEF CallInLoop, Kinds, Types
    <3> QED
      BY <2>9, <3>1 DEF CallInLoop, Types
  <2>10. ASSUME NEW t \in Others, CallQueue(t) PROVE Types'
    <3>1. tasks' \in Seq(TaskSet)
      BY <2>10, AppendProperties DEF CallQueue, Types
    <3> QED
      BY <2>10, <3>1 DEF CallQueue, Types
  <2>11. ASSUME NEW t \in Others, NEW task \in UserCalls, CallCheck(t, task) PROVE Types'
    <3>1. task \in TaskSet
      BY DEF UserCalls, Task, TaskSet, Kinds
    <3> QED
      BY <2>11, <3>1 DEF CallCheck, Types
  <2>12. CASE UNCHANGED vars
    BY <2>12 DEF vars, Types
  <2> QED
    BY <2>1, <2>2, <2>3, <2>4, <2>5, <2>6, <2>7, <2>8, <2>9, <2>10, <2>11, <2>12
       DEF Next, Peer, HandleEvent
<1> QED
  BY <1>1, <1>2, PTL DEF Spec

-----------------------------------------------------------------------------
(* The way of a connection *)

Destroys(q) == {i \in DOMAIN q : q[i].kind = "destroy"}
NoDestroy(q) == Destroys(q) = {}
OneDestroy(q) == \E i \in DOMAIN q : Destroys(q) = {i}
NoEstablished(q) == \A i \in DOMAIN q : q[i].kind # "established"

\* Before a connection is up nobody can have called it; events that can close
\* it are looked at only while it is up, because HandleClose() disables the
\* channel; from then on its destruction is in one place.
Life ==
  /\ state_ = "CONNECTING" =>
       /\ pc = "loop" /\ tasks = <<Task("established", NoMsg)>>
       /\ buffer_output_ = <<>> /\ ~wrClosed
  /\ state_ # "CONNECTING" => NoEstablished(tasks)
  /\ \A t \in Others : \A x \in calls[t] :
       x.kind \in {"send", "shutdown", "close"} /\ state_ # "CONNECTING"
  /\ state_ # "CONNECTED" => ~reading /\ ~writing /\ "hup" \notin revents /\ "in" \notin revents
  /\ pc # "polled" => revents = {}
  /\ state_ \in {"CONNECTING", "CONNECTED"} => downs = 0 /\ ~removing /\ NoDestroy(tasks)
  /\ state_ = "DISCONNECTING" =>
       downs = 1 /\ (removing => NoDestroy(tasks)) /\ (~removing => OneDestroy(tasks))
  /\ state_ = "DISCONNECTED" => downs = 1 /\ ~removing /\ NoDestroy(tasks)

(***************************************************************************)
(* Queueing a task, and running the first one.                             *)
(***************************************************************************)
LEMMA TaskListFacts ==
  ASSUME NEW q \in Seq(TaskSet)
  PROVE  /\ \A x \in TaskSet :
              /\ NoEstablished(q) /\ x.kind # "established" => NoEstablished(Append(q, x))
              /\ x.kind # "destroy" => /\ NoDestroy(q) => NoDestroy(Append(q, x))
                                       /\ OneDestroy(q) => OneDestroy(Append(q, x))
              /\ x.kind = "destroy" /\ NoDestroy(q) => OneDestroy(Append(q, x))
         /\ q # <<>> =>
              /\ NoEstablished(q) => NoEstablished(Tail(q)) /\ Head(q).kind # "established"
              /\ Head(q).kind # "destroy" => /\ NoDestroy(q) => NoDestroy(Tail(q))
                                             /\ OneDestroy(q) => OneDestroy(Tail(q))
              /\ Head(q).kind = "destroy" => ~NoDestroy(q) /\ (OneDestroy(q) => NoDestroy(Tail(q)))
<1>0. Len(q) \in Nat /\ DOMAIN q = 1..Len(q)
  BY LenProperties
<1>1. ASSUME NEW x \in TaskSet
      PROVE  /\ NoEstablished(q) /\ x.kind # "established" => NoEstablished(Append(q, x))
             /\ x.kind # "destroy" => /\ NoDestroy(q) => NoDestroy(Append(q, x))
                                      /\ OneDestroy(q) => OneDestroy(Append(q, x))
             /\ x.kind = "destroy" /\ NoDestroy(q) => OneDestroy(Append(q, x))
  <2> DEFINE r == Append(q, x)
             n == Len(q)
  <2>1. /\ n \in Nat /\ DOMAIN q = 1..n /\ DOMAIN r = 1..n + 1
        /\ \A i \in 1..n : r[i] = q[i]
        /\ r[n + 1] = x
    <3>1. r \in Seq(TaskSet) /\ Len(r) = n + 1
      BY AppendProperties
    <3>2. DOMAIN r = 1..Len(r)
      BY <3>1, LenProperties
    <3> QED
      BY <1>0, <3>1, <3>2, AppendProperties
  <2> HIDE DEF r, n
  <2>2. \A i \in 1..n + 1 : i \in 1..n \/ i = n + 1
    BY <2>1
  <2>3. 1..n \subseteq 1..n + 1 /\ n + 1 \in 1..n + 1 /\ n + 1 \notin 1..n
    BY <2>1
  <2>4. NoEstablished(q) /\ x.kind # "established" => NoEstablished(r)
    BY <2>1, <2>2 DEF NoEstablished
  <2>5. ASSUME x.kind # "destroy" PROVE Destroys(r) = Destroys(q)
    BY <2>1, <2>2, <2>3, <2>5 DEF Destroys
  <2>6. ASSUME x.kind = "destroy", Destroys(q) = {} PROVE Destroys(r) = {n + 1}
    BY <2>1, <2>2, <2>3, <2>6 DEF Destroys
  <2> QED
    BY <2>1, <2>3, <2>4, <2>5, <2>6 DEF NoDestroy, OneDestroy, r
<1>2. ASSUME q # <<>>
      PROVE  /\ NoEstablished(q) => NoEstablished(Tail(q)) /\ Head(q).kind # "established"
             /\ Head(q).kind # "destroy" => /\ NoDestroy(q) => NoDestroy(Tail(q))
                                            /\ OneDestroy(q) => OneDestroy(Tail(q))
             /\ Head(q).kind = "destroy" => ~NoDestroy(q) /\ (OneDestroy(q) => NoDestroy(Tail(q)))
  <2> DEFINE r == Tail(q)
             h == Head(q)
             n == Len(q) - 1
  <2>1. /\ n \in Nat /\ DOMAIN q = 1..n + 1 /\ DOMAIN r = 1..n
        /\ \A i \in 1..n : r[i] = q[i + 1]
        /\ q[1] = h
    <3>1. r \in Seq(TaskSet) /\ Len(r) = n /\ \A i \in 1..Len(r) : r[i] = q[i + 1]
      BY <1>2, HeadTailProperties
    <3>2. DOMAIN r = 1..Len(r) /\ Len(q) \in Nat \ {0}
      BY <1>2, <3>1, LenProperties, EmptySeq
    <3> QED
      BY <1>0, <3>1, <3>2
  <2> HIDE DEF r, h, n
  <2>2. 1 \in 1..n + 1 /\ \A i \in 1..n : i + 1 \in 1..n + 1 /\ i + 1 # 1
    BY <2>1
  <2>3. \A i \in 1..n + 1 : i # 1 => i - 1 \in 1..n /\ (i - 1) + 1 = i
    BY <2>1
  <2>4. NoEstablished(q) => NoEstablished(r) /\ h.kind # "established"
    BY <2>1, <2>2 DEF NoEstablished
  <2>5. \A i \in 1..n : i \in Destroys(r) <=> i + 1 \in Destroys(q)
    BY <2>1, <2>2 DEF Destroys
  <2>6. 1 \in Destroys(q) <=> h.kind = "destroy"
    BY <2>1, <2>2 DEF Destroys
  <2>7. Destroys(r) \subseteq 1..n /\ Destroys(q) \subseteq 1..n + 1
    BY <2>1 DEF Destroys
  <2>8. Destroys(q) = {} => Destroys(r) = {}
    BY <2>5, <2>7
  <2>9. ASSUME h.kind # "destroy", NEW i \in DOMAIN q, Destroys(q) = {i}
        PROVE  \E j \in DOMAIN r : Destroys(r) = {j}
    <3>1. i # 1
      BY <2>6, <2>9
    <3>2. i - 1 \in 1..n /\ (i - 1) + 1 = i
      BY <2>1, <2>3, <2>9, <3>1
    <3>3. i - 1 \in Destroys(r)
      BY <2>5, <2>9, <3>2
    <3>4. ASSUME NEW j \in Destroys(r) PROVE j = i - 1
      <4>1. j \in 1..n /\ j + 1 = i
        BY <2>5, <2>7, <2>9
      <4> QED
        BY <4>1
    <3> QED
      BY <2>1, <3>2, <3>3, <3>4
  <2>10. ASSUME h.kind = "destroy", NEW i \in DOMAIN q, Destroys(q) = {i}
         PROVE  Destroys(r) = {}
    <3>1. i = 1
      BY <2>6, <2>10
    <3>2. ASSUME NEW j \in Destroys(r) PROVE FALSE
      <4>1. j \in 1..n /\ j + 1 = 1
        BY <2>5, <2>7, <2>10, <3>1
      <4> QED
        BY <4>1
    <3> QED
      BY <3>2
  <2> QED
    BY <2>4, <2>6, <2>8, <2>9, <2>10 DEF NoDestroy, OneDestroy, r, h
<1> QED
  BY <1>1, <1>2

(***************************************************************************)
(* A step that leaves the state and the destruction of a connection alone  *)
(* keeps Life.                                                             *)
(***************************************************************************)
LEMMA QuietStep ==
  ASSUME Life, UNCHANGED <<state_, downs, removing>>, state_ # "CONNECTING",
         NoEstablished(tasks'),
         NoDestroy(tasks) => NoDestroy(tasks'), OneDestroy(tasks) => OneDestroy(tasks'),
         \A t \in Others : \A x \in calls'[t] : x.kind \in {"send", "shutdown", "close"},
         state_ = "CONNECTED" \/ UNCHANGED <<reading, writing>>,
         revents' \subseteq revents, pc' # "polled" => revents' = {}
  PROVE  Life'
BY DEF Life

(***************************************************************************)
(* HandleClose() of a connection that is up keeps Life.                    *)
(***************************************************************************)
LEMMA CloseKeepsLife ==
  ASSUME Types, Life, state_ = "CONNECTED", HandleClose, UNCHANGED calls,
         NoEstablished(tasks'), NoDestroy(tasks'),
         revents' \subseteq {"out"}, pc' # "polled" => revents' = {}
  PROVE  Life'
<1>1. /\ state_' = "DISCONNECTING" /\ ~reading' /\ ~writing' /\ removing'
      /\ downs' = downs + 1
  BY DEF HandleClose
<1>2. downs' = 1
  BY <1>1 DEF Life
<1>3. \A t \in Others : \A x \in calls'[t] : x.kind \in {"send", "shutdown", "close"}
  BY DEF Life
<1> QED
  BY <1>1, <1>2, <1>3 DEF Life

(***************************************************************************)
(* Life holds in every state.                                              *)
(***************************************************************************)
LEMMA LifeHolds == Spec => [](Types /\ Life)
<1>1. Init => Life
  <2> SUFFICES ASSUME Init PROVE Life
    OBVIOUS
  <2>1. tasks = <<Task("established", NoMsg)>> /\ tasks[1].kind = "established" /\ DOMAIN tasks = {1}
    BY DEF Init, Task
  <2>2. NoDestroy(tasks)
    BY <2>1 DEF NoDestroy, Destroys
  <2> QED
    BY <2>2 DEF Init, Life
<1>2. Types /\ Types' /\ Life /\ [Next]_vars => Life'
  <2> SUFFICES ASSUME Types, Types', Life, [Next]_vars PROVE Life'
    OBVIOUS
  <2> USE DEF connvars, loopvars, uservars, kernvars, histvars
  <2>u. ASSUME UNCHANGED <<connvars, loopvars, calls, downs, removing, wrClosed>> PROVE Life'
    BY <2>u DEF Life
  <2>k. \A t \in Others : \A x \in calls[t] : x.kind \in {"send", "shutdown", "close"}
    BY DEF Life
  <2>q. tasks \in Seq(TaskSet)
    BY DEF Types
  <2>1. CASE Peer \/ UNCHANGED vars
    BY <2>1, <2>u DEF Peer, PeerSends, PeerReads, PeerCloses, PeerResets, vars
  <2>2. CASE Poll
    <3>1. state_ = "CONNECTED"
      BY <2>2 DEF Poll, Life
    <3> QED
      BY <2>2, <3>1 DEF Poll, Life
  <2>3. CASE EventDone \/ HandleWrite
    <3>1. pc = "polled" /\ state_ # "CONNECTING"
      BY <2>3 DEF EventDone, HandleWrite, Life
    <3>2. /\ UNCHANGED <<state_, downs, removing, tasks, calls>> /\ revents' = {}
          /\ state_ = "CONNECTED" \/ UNCHANGED <<reading, writing>>
      BY <2>3 DEF EventDone, HandleWrite
    <3>3. NoEstablished(tasks')
      BY <3>1, <3>2 DEF Life
    <3> QED
      BY <2>k, <3>1, <3>2, <3>3, QuietStep
  <2>4. CASE HandleHup \/ HandleRead
    <3>1. pc = "polled" /\ state_ = "CONNECTED"
      BY <2>4 DEF HandleHup, HandleRead, Life
    <3>2. UNCHANGED <<tasks, pc, calls>> /\ NoEstablished(tasks) /\ NoDestroy(tasks)
      BY <2>4, <3>1 DEF HandleHup, HandleRead, Life
    <3>3. CASE HandleClose
      <4>1. revents' \subseteq {"out"}
        BY <2>4 DEF HandleHup, HandleRead, Types, Events
      <4> QED
        BY <3>1, <3>2, <3>3, <4>1, CloseKeepsLife
    <3>4. CASE UNCHANGED <<connvars, histvars>>
      <4>1. revents' \subseteq revents
        BY <2>4 DEF HandleHup, HandleRead
      <4> QED
        BY <2>k, <3>1, <3>2, <3>4, <4>1, QuietStep
    <3> QED
      BY <2>4, <3>3, <3>4 DEF HandleHup, HandleRead
  <2>5. CASE RunTask
    <3>0. /\ pc = "loop" /\ revents = {} /\ tasks # <<>> /\ tasks' = Tail(tasks)
          /\ UNCHANGED <<pc, revents, calls>>
      BY <2>5 DEF RunTask, Life
    <3>1. ASSUME Head(tasks).kind # "established"
          PROVE  state_ # "CONNECTING" /\ NoEstablished(tasks')
      <4>1. state_ # "CONNECTING"
        BY <3>1 DEF Life, Task
      <4> QED
        BY <2>q, <3>0, <4>1, TaskListFacts DEF Life
    <3>2. CASE Head(tasks).kind = "established" /\ ConnectionEstablished
      <4>1. state_ = "CONNECTING"
        BY <2>q, <3>0, <3>2, TaskListFacts DEF Life
      <4>2. tasks' = <<>> /\ downs = 0 /\ ~removing /\ calls' = calls
        BY <3>0, <4>1 DEF Life
      <4>3. NoEstablished(tasks') /\ NoDestroy(tasks')
        BY <4>2 DEF NoEstablished, NoDestroy, Destroys
      <4>4. state_' = "CONNECTED" /\ UNCHANGED <<downs, removing>>
        BY <3>2 DEF ConnectionEstablished
      <4> QED
        BY <2>k, <3>0, <4>2, <4>3, <4>4 DEF Life
    <3>3. CASE Head(tasks).kind = "send" /\ SendInLoop(Head(tasks).msg)
      <4>1. /\ UNCHANGED <<downs, removing, state_>>
            /\ state_ = "CONNECTED" \/ UNCHANGED <<reading, writing>>
        BY <3>3 DEF SendInLoop, SendMsg, SendDatQueueInBuffer
      <4>2. (NoDestroy(tasks) => NoDestroy(tasks')) /\ (OneDestroy(tasks) => OneDestroy(tasks'))
        BY <2>q, <3>0, <3>3, TaskListFacts
      <4> QED
        BY <2>k, <3>0, <3>1, <3>3, <4>1, <4>2, QuietStep
    <3>4. CASE Head(tasks).kind = "shutdown" /\ ShutdownWriteInLoop
      <4>1. UNCHANGED <<downs, removing, state_, reading, writing>>
        BY <3>4 DEF ShutdownWriteInLoop
      <4>2. (NoDestroy(tasks) => NoDestroy(tasks')) /\ (OneDestroy(tasks) => OneDestroy(tasks'))
        BY <2>q, <3>0, <3>4, TaskListFacts
      <4> QED
        BY <2>k, <3>0, <3>1, <3>4, <4>1, <4>2, QuietStep
    <3>5. CASE Head(tasks).kind = "close" /\ ForceCloseInLoop
      <4>1. (NoDestroy(tasks) => NoDestroy(tasks')) /\ (OneDestroy(tasks) => OneDestroy(tasks'))
        BY <2>q, <3>0, <3>5, TaskListFacts
      <4>2. CASE state_ \in {"DISCONNECTING", "DISCONNECTED"}
        <5>1. UNCHANGED <<downs, removing, state_, reading, writing>>
          BY <3>5, <4>2 DEF ForceCloseInLoop
        <5> QED
          BY <2>k, <3>0, <3>1, <3>5, <4>1, <5>1, QuietStep
      <4>3. CASE state_ = "CONNECTED"
        <5>1. HandleClose
          BY <3>5, <4>3 DEF ForceCloseInLoop
        <5>2. NoDestroy(tasks')
          BY <4>1, <4>3 DEF Life
        <5> QED
          BY <3>0, <3>1, <3>5, <4>3, <5>1, <5>2, CloseKeepsLife
      <4> QED
        BY <3>1, <3>5, <4>2, <4>3 DEF Types, States
    <3>6. CASE Head(tasks).kind = "destroy" /\ ConnectionDestroy
      <4>1. ~NoDestroy(tasks)
        BY <2>q, <3>0, <3>6, TaskListFacts
      <4>2. state_ = "DISCONNECTING" /\ ~removing /\ OneDestroy(tasks) /\ downs = 1 /\ ~reading /\ ~writing
        BY <4>1 DEF Life, Types, States
      <4>3. NoDestroy(tasks')
        BY <2>q, <3>0, <3>6, <4>2, TaskListFacts
      <4>4. state_' = "DISCONNECTED" /\ UNCHANGED <<downs, removing, reading, writing>>
        BY <3>6 DEF ConnectionDestroy
      <4>5. NoEstablished(tasks')
        BY <3>1, <3>6
      <4> QED
        BY <2>k, <3>0, <4>2, <4>3, <4>4, <4>5 DEF Life
    <3> QED
      BY <2>5, <3>2, <3>3, <3>4, <3>5, <3>6 DEF RunTask
  <2>6. CASE RemoveConnection
    <3>1. state_ = "DISCONNECTING" /\ NoDestroy(tasks) /\ NoEstablished(tasks) /\ downs = 1
          /\ ~reading /\ ~writing
      BY <2>6 DEF RemoveConnection, Life, Types, States
    <3>2. Task("destroy", NoMsg) \in TaskSet /\ Task("destroy", NoMsg).kind = "destroy"
      BY DEF Task, TaskSet, Kinds
    <3>3. NoEstablished(tasks') /\ OneDestroy(tasks')
      BY <2>6, <2>q, <3>1, <3>2, TaskListFacts DEF RemoveConnection
    <3>4. ~removing' /\ UNCHANGED <<state_, reading, writing, downs, calls, pc, revents>>
      BY <2>6 DEF RemoveConnection
    <3> QED
      BY <2>k, <3>1, <3>3, <3>4 DEF Life
  <2>7. ASSUME NEW m \in Msgs, Send(m) PROVE Life'
    <3>1. state_ = "CONNECTED" /\ UNCHANGED <<downs, removing, state_, tasks, calls, pc, revents>>
      BY <2>7 DEF Send, SendMsg, SendDatQueueInBuffer
    <3>2. NoEstablished(tasks') /\ (pc' # "polled" => revents' = {})
      BY <3>1 DEF Life
    <3> QED
      BY <2>k, <3>1, <3>2, QuietStep
  <2>8. ASSUME NEW x \in TaskSet, x.kind \in {"send", "shutdown", "close"}, state_ # "CONNECTING",
               tasks' = Append(tasks, x), UNCHANGED <<connvars, pc, revents, histvars>>,
               \A t \in Others : calls'[t] \subseteq calls[t]
        PROVE  Life'
    <3>1. /\ NoEstablished(tasks') /\ (NoDestroy(tasks) => NoDestroy(tasks'))
          /\ OneDestroy(tasks) => OneDestroy(tasks')
      BY <2>8, <2>q, TaskListFacts DEF Life
    <3>2. pc' # "polled" => revents' = {}
      BY <2>8 DEF Life
    <3>3. \A t \in Others : \A y \in calls'[t] : y.kind \in {"send", "shutdown", "close"}
      BY <2>8, <2>k
    <3> QED
      BY <2>8, <3>1, <3>2, <3>3, QuietStep
  <2>9. ASSUME NEW k \in {"shutdown", "close"}, CallInLoop(k) PROVE Life'
    <3>1. Task(k, NoMsg) \in TaskSet /\ Task(k, NoMsg).kind = k
      BY DEF Task, TaskSet, Kinds
    <3> QED
      BY <2>8, <2>9, <3>1 DEF CallInLoop
  <2>10. ASSUME NEW t \in Others, CallQueue(t) PROVE Life'
    <3>1. PICK x \in calls[t] : tasks' = Append(tasks, x)
      BY <2>10 DEF CallQueue
    <3>2. x \in TaskSet /\ x.kind \in {"send", "shutdown", "close"} /\ state_ # "CONNECTING"
      BY DEF Types, Life
    <3>3. \A u \in Others : calls'[u] \subseteq calls[u]
      BY <2>10 DEF CallQueue, Types
    <3> QED
      BY <2>8, <2>10, <3>1, <3>2, <3>3 DEF CallQueue
  <2>11. ASSUME NEW t \in Others, NEW task \in UserCalls, CallCheck(t, task) PROVE Life'
    <3>1. task.kind \in {"send", "shutdown", "close"}
      BY SMTT(30) DEF UserCalls, Task
    <3>2. state_ = "CONNECTED" /\ UNCHANGED <<connvars, loopvars, histvars>>
      BY <2>11 DEF CallCheck
    <3>3. \A u \in Others : \A x \in calls'[u] : x.kind \in {"send", "shutdown", "close"}
      BY <2>11, <2>k, <3>1 DEF CallCheck, Types
    <3>4. NoEstablished(tasks') /\ (pc' # "polled" => revents' = {})
      BY <3>2 DEF Life
    <3> QED
      BY <3>2, <3>3, <3>4, QuietStep
  <2> QED
    BY <2>1, <2>2, <2>3, <2>4, <2>5, <2>6, <2>7, <2>9, <2>10, <2>11 DEF Next, HandleEvent
<1> QED
  BY <1>1, <1>2, TypesHold, PTL DEF Spec

-----------------------------------------------------------------------------
(***************************************************************************)
(* Flow holds in every state.                                              *)
(***************************************************************************)
LEMMA FlowHolds == Spec => []Flow
<1>1. Init => Flow
  <2> SUFFICES ASSUME Init PROVE Flow
    OBVIOUS
  <2>1. <<>> \o <<>> = <<>>
    BY ByteFacts
  <2> QED
    BY <2>1 DEF Init, Flow, StreamIntact
<1>2. Types /\ Life /\ Flow /\ [Next]_vars => Flow'
  <2> SUFFICES ASSUME Types, Life, Flow, [Next]_vars PROVE Flow'
    OBVIOUS
  <2> USE DEF connvars, loopvars, uservars, kernvars, histvars
  <2>u. ASSUME UNCHANGED <<sndbuf, received, accepted, buffer_output_>>,
               state_' # "CONNECTED" \/ UNCHANGED <<state_, writing, wrClosed>>
        PROVE  Flow'
    BY <2>u DEF Flow, StreamIntact
  <2>1. CASE PeerSends \/ PeerCloses \/ PeerResets \/ Poll \/ EventDone \/ RemoveConnection \/ UNCHANGED vars
    BY <2>1, <2>u DEF PeerSends, PeerCloses, PeerResets, Poll, EventDone, RemoveConnection, vars
  <2>2. CASE PeerReads
    <3>1. received' \o sndbuf' = received \o sndbuf
      BY <2>2, ByteMoves DEF PeerReads, Types
    <3> QED
      BY <2>2, <3>1 DEF PeerReads, Flow, StreamIntact
  <2>3. CASE HandleHup \/ HandleRead
    BY <2>3, <2>u DEF HandleHup, HandleRead, HandleClose
  <2>4. CASE HandleWrite
    BY <2>4, WriteKeepsFlow
  <2>5. CASE RunTask
    <3>0. Head(tasks) \in TaskSet /\ UNCHANGED received
      BY <2>5, HeadTailProperties DEF RunTask, Types
    <3>1. CASE Head(tasks).kind = "established" /\ ConnectionEstablished
      <4>1. state_ = "CONNECTING"
        BY <2>5, <3>1, TaskListFacts DEF RunTask, Types, Life
      <4>2. buffer_output_ = <<>> /\ ~writing
        BY <4>1 DEF Life
      <4> QED
        BY <3>0, <3>1, <4>2 DEF ConnectionEstablished, Flow, StreamIntact
    <3>2. CASE Head(tasks).kind = "send" /\ SendInLoop(Head(tasks).msg)
      <4>1. Head(tasks).msg \in Msgs
        BY <3>0, <3>2 DEF TaskSet
      <4>2. CASE state_ = "CONNECTED"
        BY <3>0, <3>2, <4>1, <4>2, SendKeepsFlow DEF SendInLoop
      <4>3. CASE state_ # "CONNECTED"
        BY <2>u, <3>0, <3>2, <4>3 DEF SendInLoop
      <4> QED
        BY <4>2, <4>3
    <3>3. CASE ShutdownWriteInLoop
      BY <3>0, <3>3 DEF ShutdownWriteInLoop, Flow, StreamIntact
    <3>4. CASE ForceCloseInLoop
      BY <2>u, <3>0, <3>4 DEF ForceCloseInLoop, HandleClose
    <3>5. CASE ConnectionDestroy
      BY <2>u, <3>0, <3>5 DEF ConnectionDestroy
    <3> QED
      BY <2>5, <3>1, <3>2, <3>3, <3>4, <3>5 DEF RunTask
  <2>6. ASSUME NEW m \in Msgs, Send(m) PROVE Flow'
    BY <2>6, SendKeepsFlow DEF Send
  <2>7. ASSUME NEW k \in {"shutdown", "close"}, CallInLoop(k) PROVE Flow'
    BY <2>7, <2>u DEF CallInLoop
  <2>8. ASSUME NEW t \in Others, CallQueue(t) \/ \E task \in UserCalls : CallCheck(t, task) PROVE Flow'
    BY <2>8, <2>u DEF CallQueue, CallCheck
  <2> QED
    BY <2>1, <2>2, <2>3, <2>4, <2>5, <2>6, <2>7, <2>8 DEF Next, Peer, HandleEvent
<1> QED
  BY <1>1, <1>2, LifeHolds, PTL DEF Spec

(***************************************************************************)
(* For messages of any length, any buffer of the kernel and any mix of     *)
(* calls, no byte that _Send() took is lost, repeated or overtaken.        *)
(***************************************************************************)
THEOREM StreamStaysIntact == Spec => []StreamIntact
<1>1. Flow => StreamIntact
  BY DEF Flow
<1> QED
  BY <1>1, FlowHolds, PTL

(***************************************************************************)
(* While a connection is up, write events are enabled exactly when output  *)
(* waits, and the write side was not shut down over it.                    *)
(***************************************************************************)
THEOREM WritingAgrees == Spec => []WritingMatches
<1>1. Flow => WritingMatches
  BY DEF Flow, WritingMatches
<1> QED
  BY <1>1, FlowHolds, PTL

(***************************************************************************)
(* A connection goes down once and is destroyed once, whoever closes it.   *)
(***************************************************************************)
THEOREM GoesDownOnce == Spec => []DownOnce
<1>1. Types /\ Life => DownOnce
  <2> SUFFICES ASSUME Types, Life PROVE DownOnce
    OBVIOUS
  <2>1. NoDestroy(tasks) => Cardinality(Destroys(tasks)) = 0
    BY FS_EmptySet DEF NoDestroy
  <2>2. OneDestroy(tasks) => Cardinality(Destroys(tasks)) = 1
    BY FS_Singleton DEF OneDestroy
  <2>3. {i \in DOMAIN tasks : tasks[i].kind = "destroy"} = Destroys(tasks)
    BY DEF Destroys
  <2>4. downs = (IF state_ \in {"DISCONNECTING", "DISCONNECTED"} THEN 1 ELSE 0)
    BY DEF Life, Types, States
  <2>5. Cardinality(Destroys(tasks)) + (IF removing THEN 1 ELSE 0)
          + (IF state_ = "DISCONNECTED" THEN 1 ELSE 0) = downs
    <3>1. CASE state_ \in {"CONNECTING", "CONNECTED"}
      <4>1. downs = 0 /\ ~removing /\ NoDestroy(tasks)
        BY <3>1 DEF Life
      <4> QED
        BY <2>1, <3>1, <4>1
    <3>2. CASE state_ = "DISCONNECTING"
      BY <2>1, <2>2, <3>2 DEF Life, Types
    <3>3. CASE state_ = "DISCONNECTED"
      <4>1. downs = 1 /\ ~removing /\ NoDestroy(tasks)
        BY <3>3 DEF Life
      <4> QED
        BY <2>1, <3>3, <4>1
    <3> QED
      BY <3>1, <3>2, <3>3 DEF Types, States
  <2> QED
    BY <2>3, <2>4, <2>5 DEF DownOnce
<1> QED
  BY <1>1, LifeHolds, PTL
=============================================================================
