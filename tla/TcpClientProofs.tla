-------------------------- MODULE TcpClientProofs --------------------------
(***************************************************************************)
(* Proofs about TcpClient.tla, for any set of descriptors and any delays.  *)
(* As in the run, no callback stops the connector in a round in which a    *)
(* write event of its channel is still to be handled.                      *)
(***************************************************************************)
EXTENDS TcpClient, TLAPS

Ptrs == Socks \cup {NULL}
TaskSet ==
  [kind : {"start", "stop", "reset"}, sock : {NULL}] \cup [kind : {"close", "destroy"}, sock : Socks]

Types ==
  /\ running_ \in BOOLEAN /\ state_ \in {"DISCONNECTED", "CONNECTING", "CONNECTED"}
  /\ retry_delay_ \in InitDelay..MaxDelay /\ timers \in {0, 1}
  /\ channel_ \in Ptrs /\ watching \in BOOLEAN /\ sock \in [Socks -> SockStates]
  /\ tasks \in Seq(TaskSet) /\ batch \in Seq(TaskSet)
  /\ retry_ \in BOOLEAN /\ connect_ \in BOOLEAN /\ connection_ \in Ptrs
  /\ phase \in {"tasks", "dispatch"} /\ active \subseteq {"write", "error", "timer"} \cup Socks
  /\ pc \in {"idle", "new", "establish", "remove", "restart", "start"} /\ cur \in Ptrs
  /\ op \in {"none", "look", "force", "late", "stop", "queue"} /\ arg \in Ptrs
  /\ held \subseteq Socks /\ started \in BOOLEAN /\ stopped \in BOOLEAN

\* Is a task of this kind in q?
Has(q, kind) == \E t \in Items(q) : t.kind = kind
Reset == Has(tasks, "reset") \/ Has(batch, "reset")
Begins == Has(tasks, "start") \/ Has(batch, "start")
Stops == Has(tasks, "stop") \/ Has(batch, "stop")

\* The states of a connection in use.
Open == {"CONNECTING", "CONNECTED"}

\* The attempt, the retry timer, the connection: one at a time.
StateInv ==
  /\ watching <=> state_ = "CONNECTING"
  /\ watching => channel_ # NULL /\ ~Reset
  /\ ~watching /\ ~Reset => channel_ = NULL
  /\ timers = 1 => state_ = "DISCONNECTED"
  /\ connection_ # NULL => state_ = "CONNECTED"

\* Where the loop's thread is in a handler.
PcInv ==
  /\ pc \in {"new", "establish", "remove"} <=> cur # NULL
  /\ pc = "new" => state_ = "CONNECTED" /\ connection_ = NULL /\ sock[cur] = "attempt"
  /\ pc = "establish" => connection_ = cur /\ sock[cur] \in Open
  /\ pc = "remove" => connection_ = cur /\ sock[cur] = "DISCONNECTING" /\ ~Reset
  /\ pc = "restart" => state_ = "CONNECTED" /\ connection_ = NULL /\ ~Reset /\ ~stopped
  /\ pc = "start" => /\ state_ = "DISCONNECTED" /\ timers = 0 /\ connection_ = NULL
                     /\ ~Reset /\ ~stopped

\* A round has one event at most, and it is still true when it is handled.
RoundInv ==
  /\ phase = "tasks" => active = {}
  /\ phase = "dispatch" => batch = <<>>
  /\ \A a, b \in active : a = b
  /\ active # {} => pc = "idle"
  /\ "write" \in active => watching
  /\ "timer" \in active => state_ = "DISCONNECTED" /\ ~Reset /\ (timers = 1 \/ ~running_)
  /\ \A s \in active \cap Socks : sock[s] = "CONNECTED" /\ ~Reset
  /\ phase = "tasks" /\ Has(tasks, "reset") => stopped /\ state_ = "DISCONNECTED"

\* The order of the tasks: the start is the first of all, and no channel is
\* reset after the task that closes an open connection.
InOrder(q, states) ==
  /\ \A i \in DOMAIN q : q[i].kind = "start" => i = 1
  /\ \A i, j \in DOMAIN q :
       i < j /\ q[i].kind = "close" /\ q[j].kind = "reset" => states[q[i].sock] \notin Open

QueueInv ==
  InOrder(tasks, sock) /\ InOrder(batch, sock) /\ (Has(tasks, "start") => batch = <<>>)

\* Nothing happens before Connect() and its StartInLoop().
Fresh ==
  /\ state_ = "DISCONNECTED" /\ timers = 0 /\ connection_ = NULL
  /\ pc = "idle" /\ active = {} /\ \A s \in Socks : sock[s] = "closed"
  /\ \A t \in Queued : t.kind \in {"start", "stop"}

StartInv ==
  /\ ~started => tasks = <<>> /\ batch = <<>> /\ ~running_ /\ ~stopped /\ op = "none"
  /\ ~started \/ Begins => Fresh
  /\ connect_ => started /\ running_
  /\ Stops \/ op \in {"look", "force", "stop", "queue"} => ~connect_
  /\ stopped => /\ ~connect_ /\ timers = 0 /\ state_ # "CONNECTING"
                /\ Begins => ~running_
  /\ connect_ /\ ~Begins /\ pc # "start" =>
       /\ state_ = "DISCONNECTED" => timers = 1
       /\ state_ = "CONNECTED" /\ retry_ => connection_ # NULL \/ pc \in {"new", "restart"}

\* Every descriptor has its owner, and what is referred to is a connection.
SockInv ==
  /\ \A s \in Socks :
       /\ sock[s] = "attempt" <=> (watching /\ channel_ = s) \/ (pc = "new" /\ cur = s)
       /\ sock[s] \in Open => connection_ = s
       /\ sock[s] = "DISCONNECTING" => (pc = "remove" /\ cur = s) \/ Task("destroy", s) \in Queued
  /\ connection_ # NULL => sock[connection_] \in Open \/ pc = "remove"
  /\ \A t \in Queued :
       /\ t.kind = "close" => sock[t.sock] \in ConnStates
       /\ t.kind = "destroy" => sock[t.sock] \in {"DISCONNECTING", "DISCONNECTED"}

UserInv ==
  /\ \A s \in Socks : s \in held \/ s = arg => sock[s] \in ConnStates
  /\ op \in {"force", "late"} => arg # NULL

Inv == Types /\ StateInv /\ PcInv /\ RoundInv /\ QueueInv /\ StartInv /\ SockInv /\ UserInv

-----------------------------------------------------------------------------
(* Queues *)

\* The tasks by kind.
LEMMA TaskFacts ==
  /\ \A k \in {"start", "stop", "reset"} : Task(k, NULL) \in TaskSet
  /\ \A k \in {"close", "destroy"}, s \in Socks : Task(k, s) \in TaskSet
  /\ \A k, s : Task(k, s).kind = k /\ Task(k, s).sock = s
  /\ \A t \in TaskSet :
       /\ t.kind \in {"start", "stop", "reset", "close", "destroy"}
       /\ t.kind \in {"start", "stop", "reset"} => t = Task(t.kind, NULL)
       /\ t.kind \in {"close", "destroy"} => t.sock \in Socks /\ t = Task(t.kind, t.sock)
BY DEF Task, TaskSet

\* The task of ConnectionDestroy() is of no other kind.
LEMMA DestroyFacts ==
  \A s : Task("destroy", s).kind \notin {"start", "stop", "reset", "close"} /\ Task("destroy", s).sock = s
BY DEF Task

\* What a queue holds after Append.
LEMMA AppendItems ==
  ASSUME NEW q \in Seq(TaskSet), NEW t \in TaskSet
  PROVE  /\ Append(q, t) \in Seq(TaskSet)
         /\ Items(Append(q, t)) = Items(q) \cup {t}
         /\ \A k : Has(Append(q, t), k) <=> Has(q, k) \/ t.kind = k
<1>1. /\ Append(q, t) \in Seq(TaskSet) /\ DOMAIN q = 1..Len(q) /\ Len(q) \in Nat
      /\ DOMAIN Append(q, t) = 1..(Len(q) + 1)
      /\ \A i \in 1..Len(q) : Append(q, t)[i] = q[i]
      /\ Append(q, t)[Len(q) + 1] = t
  OBVIOUS
<1>2. Items(Append(q, t)) = Items(q) \cup {t}
  BY <1>1 DEF Items
<1> QED
  BY Zenon, <1>1, <1>2 DEF Has

\* What a queue holds besides its first task.
LEMMA TailItems ==
  ASSUME NEW q \in Seq(TaskSet), q # <<>>
  PROVE  /\ Head(q) \in TaskSet /\ Tail(q) \in Seq(TaskSet)
         /\ Items(q) = {Head(q)} \cup Items(Tail(q))
         /\ \A k : Has(q, k) <=> Head(q).kind = k \/ Has(Tail(q), k)
<1>1. /\ Head(q) \in TaskSet /\ Tail(q) \in Seq(TaskSet) /\ Len(q) \in Nat \ {0}
      /\ DOMAIN q = 1..Len(q) /\ DOMAIN Tail(q) = 1..(Len(q) - 1)
      /\ \A i \in 1..(Len(q) - 1) : Tail(q)[i] = q[i + 1]
      /\ Head(q) = q[1]
  OBVIOUS
<1>2. Items(q) \subseteq {Head(q)} \cup Items(Tail(q))
  <2>1. ASSUME NEW i \in DOMAIN q, i # 1 PROVE i - 1 \in DOMAIN Tail(q) /\ Tail(q)[i - 1] = q[i]
    BY <1>1, <2>1
  <2>2. ASSUME NEW i \in DOMAIN q PROVE q[i] = Head(q) \/ q[i] \in Items(Tail(q))
    BY Zenon, <1>1, <2>1 DEF Items
  <2> QED
    BY Zenon, <2>2 DEF Items
<1>3. {Head(q)} \cup Items(Tail(q)) \subseteq Items(q)
  BY <1>1 DEF Items
<1> QED
  BY Zenon, <1>1, <1>2, <1>3 DEF Has

\* An empty queue.
LEMMA NoItems == Items(<<>>) = {} /\ (\A k : ~Has(<<>>, k)) /\ \A states : InOrder(<<>>, states)
BY DEF Items, Has, InOrder

\* Append keeps the order of the tasks.
LEMMA AppendOrder ==
  ASSUME NEW q \in Seq(TaskSet), NEW t \in TaskSet, NEW states, InOrder(q, states),
         t.kind = "start" => q = <<>>,
         t.kind = "reset" => \A u \in Items(q) : u.kind = "close" => states[u.sock] \notin Open
  PROVE  InOrder(Append(q, t), states)
<1>1. /\ DOMAIN q = 1..Len(q) /\ Len(q) \in Nat
      /\ DOMAIN Append(q, t) = 1..(Len(q) + 1)
      /\ \A i \in 1..Len(q) : Append(q, t)[i] = q[i]
      /\ Append(q, t)[Len(q) + 1] = t
      /\ q = <<>> => Len(q) = 0
  OBVIOUS
<1>2. \A i \in DOMAIN Append(q, t) : Append(q, t)[i].kind = "start" => i = 1
  BY <1>1 DEF InOrder
<1>3. ASSUME NEW i \in DOMAIN Append(q, t), NEW j \in DOMAIN Append(q, t), i < j,
             Append(q, t)[i].kind = "close", Append(q, t)[j].kind = "reset"
      PROVE  states[Append(q, t)[i].sock] \notin Open
  <2>1. i \in DOMAIN q /\ Append(q, t)[i] = q[i] /\ q[i] \in Items(q)
    BY <1>1, <1>3 DEF Items
  <2>2. CASE j \in DOMAIN q
    BY <1>1, <1>3, <2>1, <2>2 DEF InOrder
  <2>3. CASE j = Len(q) + 1
    BY <1>1, <1>3, <2>1, <2>3
  <2> QED
    BY <1>1, <2>2, <2>3
<1> QED
  BY Zenon, <1>2, <1>3 DEF InOrder

\* The first task: the start, or one without the start behind it.
LEMMA TailOrder ==
  ASSUME NEW q \in Seq(TaskSet), q # <<>>, NEW states, InOrder(q, states)
  PROVE  /\ InOrder(Tail(q), states) /\ ~Has(Tail(q), "start")
         /\ Head(q).kind = "close" /\ states[Head(q).sock] \in Open => ~Has(Tail(q), "reset")
<1>1. /\ Len(q) \in Nat \ {0} /\ DOMAIN q = 1..Len(q) /\ DOMAIN Tail(q) = 1..(Len(q) - 1)
      /\ \A i \in 1..(Len(q) - 1) : Tail(q)[i] = q[i + 1] /\ i + 1 \in 1..Len(q) /\ i + 1 # 1 /\ 1 < i + 1
      /\ \A i, j \in 1..(Len(q) - 1) : i < j => i + 1 < j + 1
      /\ Head(q) = q[1] /\ 1 \in 1..Len(q)
  OBVIOUS
<1>2. \A i \in DOMAIN Tail(q) : Tail(q)[i].kind # "start"
  BY Zenon, <1>1 DEF InOrder
<1>3. ASSUME NEW i \in DOMAIN Tail(q), NEW j \in DOMAIN Tail(q), i < j,
             Tail(q)[i].kind = "close", Tail(q)[j].kind = "reset"
      PROVE  states[Tail(q)[i].sock] \notin Open
  <2>1. /\ i + 1 \in DOMAIN q /\ j + 1 \in DOMAIN q /\ i + 1 < j + 1
        /\ Tail(q)[i] = q[i + 1] /\ Tail(q)[j] = q[j + 1]
    BY <1>1, <1>3
  <2> QED
    BY Zenon, <1>3, <2>1 DEF InOrder
<1>4. ASSUME Head(q).kind = "close", states[Head(q).sock] \in Open
      PROVE  \A j \in DOMAIN Tail(q) : Tail(q)[j].kind # "reset"
  BY Zenon, <1>1, <1>4 DEF InOrder
<1> QED
  BY Zenon, <1>2, <1>3, <1>4 DEF InOrder, Has, Items

\* The order stays when no connection opens that a queued task is to close.
LEMMA SameOrder ==
  ASSUME NEW q, NEW states, NEW next, InOrder(q, states),
         \A t \in Items(q) : t.kind = "close" /\ states[t.sock] \notin Open => next[t.sock] \notin Open
  PROVE  InOrder(q, next)
BY Zenon DEF InOrder, Items

-----------------------------------------------------------------------------
(* What a step does to the queues *)

\* Nothing.
LEMMA SameQueues ==
  ASSUME UNCHANGED <<tasks, batch>>
  PROVE  /\ Queued' = Queued /\ (Reset' <=> Reset) /\ (Begins' <=> Begins) /\ (Stops' <=> Stops)
         /\ \A k : Has(tasks', k) <=> Has(tasks, k)
BY Zenon DEF Queued, Reset, Begins, Stops

\* A task is added.
LEMMA PutTask ==
  ASSUME Types, QueueInv, NEW t \in TaskSet, tasks' = Append(tasks, t), batch' = batch
  PROVE  /\ tasks' \in Seq(TaskSet) /\ batch' \in Seq(TaskSet)
         /\ Queued' = Queued \cup {t}
         /\ Reset' <=> Reset \/ t.kind = "reset"
         /\ Begins' <=> Begins \/ t.kind = "start"
         /\ Stops' <=> Stops \/ t.kind = "stop"
         /\ \A k : Has(tasks', k) <=> Has(tasks, k) \/ t.kind = k
<1>1. /\ tasks' \in Seq(TaskSet) /\ Items(tasks') = Items(tasks) \cup {t} /\ batch' \in Seq(TaskSet)
      /\ \A k : Has(tasks', k) <=> Has(tasks, k) \/ t.kind = k
  BY Zenon, AppendItems DEF Types
<1> QED
  BY Zenon, <1>1 DEF Queued, Reset, Begins, Stops

\* The tasks for a connection.
LEMMA QueuedTypes ==
  ASSUME Types
  PROVE  \A t \in Queued : t \in TaskSet /\ (t.kind \in {"close", "destroy"} => t.sock \in Socks)
<1>1. \A t \in Queued : t \in TaskSet
  BY DEF Types, Queued, Items
<1> QED
  BY Zenon, <1>1, TaskFacts

\* The first task of the batch is run.
LEMMA TakeTask ==
  ASSUME Types, QueueInv, batch # <<>>, batch' = Tail(batch), tasks' = tasks
  PROVE  /\ tasks' \in Seq(TaskSet) /\ batch' \in Seq(TaskSet) /\ Head(batch) \in TaskSet
         /\ Queued = Queued' \cup {Head(batch)}
         /\ Reset <=> Reset' \/ Head(batch).kind = "reset"
         /\ ~Begins' /\ (Begins <=> Head(batch).kind = "start")
         /\ Stops <=> Stops' \/ Head(batch).kind = "stop"
         /\ InOrder(batch', sock) /\ InOrder(tasks', sock) /\ ~Has(tasks', "start")
<1>1. /\ batch \in Seq(TaskSet) /\ tasks \in Seq(TaskSet) /\ InOrder(batch, sock) /\ InOrder(tasks, sock)
      /\ ~Has(tasks, "start")
  BY Zenon DEF Types, QueueInv
<1>2. /\ Head(batch) \in TaskSet /\ batch' \in Seq(TaskSet)
      /\ Items(batch) = {Head(batch)} \cup Items(batch')
      /\ \A k : Has(batch, k) <=> Head(batch).kind = k \/ Has(batch', k)
  BY Zenon, <1>1, TailItems
<1>3. InOrder(batch', sock) /\ ~Has(batch', "start")
  BY Zenon, <1>1, TailOrder
<1> QED
  BY Zenon, <1>1, <1>2, <1>3 DEF Queued, Reset, Begins, Stops

-----------------------------------------------------------------------------
(* Users *)

\* Steps that leave the connector, the loop's thread and the queues alone.
LEMMA SameParts ==
  ASSUME Inv, UNCHANGED <<state_, channel_, watching, timers, sock, tasks>>,
         UNCHANGED <<connection_, phase, active, batch, pc, cur, stopped>>, ~running_ => ~running_'
  PROVE  /\ StateInv' /\ PcInv' /\ RoundInv' /\ QueueInv' /\ SockInv'
         /\ Fresh' <=> Fresh
<1>1. /\ Queued' = Queued /\ (Reset' <=> Reset) /\ \A k : Has(tasks', k) <=> Has(tasks, k)
  BY Zenon, SameQueues
<1>2. StateInv' /\ PcInv'
  BY <1>1 DEF Inv, StateInv, PcInv
<1>3. RoundInv'
  BY Zenon, <1>1 DEF Inv, RoundInv
<1>4. QueueInv'
  BY Zenon, <1>1 DEF Inv, QueueInv
<1>5. Fresh' <=> Fresh
  BY Zenon, <1>1 DEF Fresh
<1>6. SockInv'
  BY Zenon, <1>1 DEF Inv, SockInv
<1> QED
  BY Zenon, <1>2, <1>3, <1>4, <1>5, <1>6

\* Calls of the user's thread up to where they queue something.
LEMMA CallsKeep ==
  ASSUME Inv,
         \/ EnableRetry \/ Disconnect \/ DisconnectLook \/ Stop \/ Hold
         \/ (\E s \in Socks : ForceClose(s) \/ Release(s)) \/ UNCHANGED vars
  PROVE  Inv'
<1> USE DEF ctorvars, clientvars, loopvars, uservars, attemptvars
<1>1. /\ UNCHANGED <<state_, channel_, watching, timers, sock, tasks>>
      /\ UNCHANGED <<connection_, phase, active, batch, pc, cur, stopped, started, retry_delay_>>
      /\ running_' = running_ \/ running_' = FALSE
  BY Zenon DEF EnableRetry, Disconnect, DisconnectLook, Stop, Hold, ForceClose, Release, vars
<1>2. StateInv' /\ PcInv' /\ RoundInv' /\ QueueInv' /\ SockInv' /\ (Fresh' <=> Fresh)
  <2>1. ~running_ => ~running_'
    BY <1>1 DEF Inv, Types
  <2> QED
    BY Zenon, <1>1, <2>1, SameParts
<1>3. Queued' = Queued /\ (Reset' <=> Reset) /\ (Begins' <=> Begins) /\ (Stops' <=> Stops)
  BY Zenon, <1>1, SameQueues
<1>4. Types /\ StartInv /\ SockInv /\ PcInv /\ UserInv
  BY DEF Inv
<1>5. SUFFICES Types' /\ StartInv' /\ UserInv'
  BY Zenon, <1>2 DEF Inv
<1>6. CASE EnableRetry
  <2>1. Types'
    BY <1>1, <1>4, <1>6 DEF Types, EnableRetry
  <2>2. StartInv'
    BY <1>1, <1>2, <1>3, <1>4, <1>6 DEF StartInv, EnableRetry
  <2>3. UserInv'
    BY <1>1, <1>4, <1>6 DEF UserInv, EnableRetry
  <2> QED
    BY <2>1, <2>2, <2>3
<1>7. CASE Disconnect
  <2>1. Types'
    BY ZenonT(40), <1>1, <1>4, <1>7 DEF Types, Disconnect
  <2>2. StartInv'
    BY <1>1, <1>2, <1>3, <1>4, <1>7 DEF StartInv, Disconnect
  <2>3. UserInv'
    BY <1>1, <1>4, <1>7 DEF UserInv, Disconnect
  <2> QED
    BY <2>1, <2>2, <2>3
<1>8. CASE DisconnectLook
  <2>1. Types'
    BY <1>1, <1>4, <1>8 DEF Types, DisconnectLook
  <2>2. StartInv'
    BY <1>1, <1>2, <1>3, <1>4, <1>8 DEF StartInv, DisconnectLook
  <2>3. UserInv'
    BY <1>1, <1>4, <1>8 DEF UserInv, ConnStates, DisconnectLook
  <2> QED
    BY <2>1, <2>2, <2>3
<1>9. CASE Stop
  <2>1. Types'
    BY ZenonT(40), <1>1, <1>4, <1>9 DEF Types, Stop
  <2>2. StartInv'
    BY <1>1, <1>2, <1>3, <1>4, <1>9 DEF StartInv, Stop
  <2>3. UserInv'
    BY <1>1, <1>4, <1>9 DEF UserInv, Stop
  <2> QED
    BY <2>1, <2>2, <2>3
<1>10. CASE Hold
  <2>1. Types'
    BY <1>1, <1>4, <1>10 DEF Types, Ptrs, Hold
  <2>2. StartInv'
    BY <1>1, <1>2, <1>3, <1>4, <1>10 DEF StartInv, Hold
  <2>3. UserInv'
    BY <1>1, <1>4, <1>10 DEF UserInv, SockInv, PcInv, Open, ConnStates, Hold
  <2> QED
    BY <2>1, <2>2, <2>3
<1>11. ASSUME NEW s \in Socks, ForceClose(s) PROVE Types' /\ StartInv' /\ UserInv'
  <2>1. Types'
    BY <1>1, <1>4, <1>11 DEF Types, Ptrs, ForceClose
  <2>2. StartInv'
    BY <1>1, <1>2, <1>3, <1>4, <1>11 DEF StartInv, Fresh, ForceClose
  <2>3. UserInv'
    BY <1>1, <1>4, <1>11, SockAssumption DEF UserInv, ConnStates, ForceClose
  <2> QED
    BY <2>1, <2>2, <2>3
<1>12. ASSUME NEW s \in Socks, Release(s) PROVE Types' /\ StartInv' /\ UserInv'
  <2>1. Types'
    BY <1>1, <1>4, <1>12 DEF Types, Release
  <2>2. StartInv'
    BY <1>1, <1>2, <1>3, <1>4, <1>12 DEF StartInv, Release
  <2>3. UserInv'
    BY <1>1, <1>4, <1>12 DEF UserInv, Release
  <2> QED
    BY <2>1, <2>2, <2>3
<1>13. CASE UNCHANGED vars
  <2>1. Types'
    BY <1>1, <1>4, <1>13 DEF Types, vars
  <2>2. StartInv'
    BY <1>1, <1>2, <1>3, <1>4, <1>13 DEF StartInv, vars
  <2>3. UserInv'
    BY <1>1, <1>4, <1>13 DEF UserInv, vars
  <2> QED
    BY <2>1, <2>2, <2>3
<1> QED
  BY Zenon, <1>6, <1>7, <1>8, <1>9, <1>10, <1>11, <1>12, <1>13

\* ForceClose() and Stop() queue their tasks.
LEMMA QueuingKeeps ==
  ASSUME Inv, ForceCloseQueues \/ StopQueues
  PROVE  Inv'
<1> USE DEF clientvars, loopvars, attemptvars
<1> DEFINE t == IF op = "queue" THEN Task("stop", NULL) ELSE Task("close", arg)
<1>0. Types /\ StateInv /\ PcInv /\ RoundInv /\ QueueInv /\ StartInv /\ SockInv /\ UserInv
  BY DEF Inv
<1>1. /\ UNCHANGED <<state_, channel_, watching, timers, sock, connection_, phase, active, batch, pc, cur>>
      /\ UNCHANGED <<stopped, started, retry_delay_, running_, retry_, connect_, held>>
      /\ tasks' = Append(tasks, t) /\ op \in {"force", "late", "queue"}
      /\ op' \in {"stop", "none"} /\ (op' = "stop" => op = "force") /\ (arg' = arg \/ arg' = NULL)
  BY DEF ForceCloseQueues, StopQueues
<1>2. /\ t \in TaskSet /\ t.kind \in {"stop", "close"}
      /\ t.kind = "stop" => op = "queue"
      /\ t.kind = "close" => op \in {"force", "late"} /\ t.sock = arg /\ arg \in Socks
  <2>1. op # "queue" => arg \in Socks
    BY <1>0, <1>1 DEF Types, UserInv, Ptrs
  <2>2. CASE op = "queue"
    BY <2>2, TaskFacts
  <2>3. CASE op # "queue"
    BY <1>1, <2>1, <2>3, TaskFacts
  <2> QED
    BY <2>2, <2>3
<1> HIDE DEF t
<1>3. /\ tasks' \in Seq(TaskSet) /\ batch' \in Seq(TaskSet) /\ Queued' = Queued \cup {t}
      /\ (Reset' <=> Reset) /\ (Begins' <=> Begins) /\ (Stops' <=> Stops \/ t.kind = "stop")
      /\ \A k : Has(tasks', k) <=> Has(tasks, k) \/ t.kind = k
  BY <1>0, <1>1, <1>2, PutTask
<1>4. Types'
  BY <1>0, <1>1, <1>3 DEF Types, Ptrs
<1>5. StateInv' /\ PcInv' /\ RoundInv'
  BY <1>0, <1>1, <1>2, <1>3 DEF StateInv, PcInv, RoundInv
<1>6. QueueInv'
  <2>1. InOrder(tasks', sock)
    BY Zenon, <1>0, <1>1, <1>2, AppendOrder DEF QueueInv, Types
  <2> QED
    BY <1>0, <1>1, <1>2, <1>3, <2>1 DEF QueueInv
<1>7. ~started \/ Begins => Fresh'
  <2>1. ASSUME Fresh PROVE t.kind # "close"
    BY <1>0, <1>2, <2>1 DEF Fresh, UserInv, ConnStates
  <2> QED
    BY <1>0, <1>1, <1>2, <1>3, <2>1 DEF StartInv, Fresh
<1>8. StartInv'
  BY Zenon, <1>0, <1>1, <1>2, <1>3, <1>7 DEF StartInv
<1>9. SockInv'
  <2>1. t.kind = "close" => sock[t.sock] \in ConnStates
    BY ZenonT(40), <1>0, <1>2 DEF UserInv
  <2> QED
    BY <1>0, <1>1, <1>2, <1>3, <2>1 DEF SockInv
<1>10. UserInv'
  BY <1>0, <1>1, SockAssumption DEF UserInv
<1> QED
  BY <1>4, <1>5, <1>6, <1>8, <1>9, <1>10 DEF Inv

\* Connect(): nothing happened before.
LEMMA ConnectKeeps ==
  ASSUME Inv, ClientConnect \/ ClientConnectInLoop
  PROVE  Inv'
<1> USE DEF attemptvars
<1>0. Types /\ StateInv /\ PcInv /\ RoundInv /\ QueueInv /\ StartInv /\ SockInv /\ UserInv
  BY DEF Inv
<1>1. /\ UNCHANGED <<state_, channel_, watching, timers, sock, connection_, phase, active, batch, cur>>
      /\ UNCHANGED <<stopped, retry_delay_, retry_, held, op, arg>>
      /\ ~started /\ started' /\ connect_' = TRUE /\ running_' = TRUE
  BY DEF ClientConnect, ClientConnectInLoop, BeginConnect
<1>2. /\ Fresh /\ ~stopped /\ op = "none" /\ tasks = <<>> /\ batch = <<>>
      /\ Queued = {} /\ ~Reset /\ ~Stops /\ ~Begins
  BY <1>0, <1>1, NoItems DEF StartInv, Queued, Reset, Stops, Begins
<1>3. UserInv'
  BY <1>0, <1>1 DEF UserInv
<1>4. CASE ClientConnect
  <2> DEFINE t == Task("start", NULL)
  <2>1. /\ t \in TaskSet /\ t.kind = "start" /\ tasks' = Append(tasks, t) /\ pc' = pc
    BY <1>4, TaskFacts DEF ClientConnect
  <2> HIDE DEF t
  <2>2. /\ tasks' \in Seq(TaskSet) /\ batch' \in Seq(TaskSet) /\ Queued' = Queued \cup {t}
        /\ ~Reset' /\ Begins' /\ ~Stops'
        /\ \A k : Has(tasks', k) <=> Has(tasks, k) \/ t.kind = k
    BY <1>0, <1>1, <1>2, <2>1, PutTask
  <2>3. Types'
    BY <1>0, <1>1, <2>1, <2>2 DEF Types
  <2>4. StateInv' /\ PcInv' /\ RoundInv'
    <3>1. active' = {}
      BY Zenon, <1>1, <1>2 DEF Fresh
    <3>2. StateInv' /\ PcInv'
      BY <1>0, <1>1, <1>2, <2>1, <2>2 DEF StateInv, PcInv
    <3>3. RoundInv'
      BY <1>0, <1>1, <1>2, <2>1, <2>2, <3>1 DEF RoundInv
    <3> QED
      BY Zenon, <3>2, <3>3
  <2>5. QueueInv'
    <3>1. InOrder(tasks', sock)
      BY Zenon, <1>0, <1>2, <2>1, AppendOrder DEF QueueInv, Types
    <3> QED
      BY <1>0, <1>1, <1>2, <3>1 DEF QueueInv
  <2>6. Fresh'
    BY <1>1, <1>2, <2>1, <2>2 DEF Fresh
  <2>7. StartInv'
    BY <1>0, <1>1, <1>2, <2>2, <2>6 DEF StartInv
  <2>8. SockInv'
    BY <1>0, <1>1, <1>2, <2>1, <2>2 DEF SockInv
  <2> QED
    BY <1>3, <2>3, <2>4, <2>5, <2>7, <2>8 DEF Inv
<1>5. CASE ClientConnectInLoop
  <2>1. tasks' = tasks /\ pc = "idle" /\ pc' = "start"
    BY <1>5 DEF ClientConnectInLoop
  <2>2. /\ Queued' = Queued /\ ~Reset' /\ ~Begins' /\ ~Stops' /\ \A k : Has(tasks', k) <=> Has(tasks, k)
    BY <1>1, <1>2, <2>1, SameQueues
  <2>3. Types'
    BY <1>0, <1>1, <2>1 DEF Types
  <2>4. StateInv' /\ PcInv' /\ RoundInv'
    BY <1>0, <1>1, <1>2, <2>1, <2>2 DEF StateInv, PcInv, RoundInv, Fresh
  <2>5. QueueInv'
    BY <1>0, <1>1, <2>1 DEF QueueInv
  <2>6. StartInv'
    BY Zenon, <1>0, <1>1, <1>2, <2>1, <2>2 DEF StartInv
  <2>7. SockInv'
    BY <1>0, <1>1, <1>2, <2>1, <2>2 DEF SockInv
  <2> QED
    BY <1>3, <2>3, <2>4, <2>5, <2>6, <2>7 DEF Inv
<1> QED
  BY <1>4, <1>5

-----------------------------------------------------------------------------
(* StartInLoop() *)

\* A descriptor that socket() returns is nobody's.
LEMMA FreeFacts ==
  ASSUME Types, NEW s \in Free
  PROVE  /\ s \in Socks /\ s # NULL /\ s # connection_ /\ s # cur /\ s # arg /\ s \notin held
         /\ \A t \in Queued : t.sock # s
         /\ sock[s] \notin {"attempt", "lost"}
BY SockAssumption DEF Free, Alive

\* The back-off stays within its limits.
LEMMA DelayFacts ==
  ASSUME NEW d \in InitDelay..MaxDelay
  PROVE  NextDelay(d) \in InitDelay..MaxDelay
BY DelayAssumption DEF NextDelay

(***************************************************************************)
(* StartInLoop() with nothing left of earlier attempts: no connection, no  *)
(* retry timer and no channel that is still to be reset.                   *)
(***************************************************************************)
LEMMA StartKeeps ==
  ASSUME Inv, StartInLoop(Free, 0),
         state_ = "DISCONNECTED", connection_ = NULL, ~Reset, running_ => ~stopped,
         started, cur = NULL, pc' = "idle", active' = {},
         UNCHANGED <<tasks, phase, cur, clientvars, uservars, stopped>>,
         phase = "dispatch" => batch' = <<>>,
         batch' \in Seq(TaskSet), InOrder(batch', sock), ~Has(batch', "reset"), ~Begins',
         Queued' \subseteq Queued, \A t \in Queued : t.kind # "start" => t \in Queued',
         Stops' => Stops
  PROVE  Inv'
<1> USE DEF clientvars, uservars
<1>0. Types /\ StateInv /\ PcInv /\ RoundInv /\ QueueInv /\ StartInv /\ SockInv /\ UserInv
  BY DEF Inv
<1>1. ~watching /\ channel_ = NULL
  BY <1>0 DEF StateInv
<1>2. /\ UNCHANGED running_
      /\ \/ \E s \in Free : running_ /\ Connecting(s) /\ timers' = 0 /\ UNCHANGED retry_delay_
         \/ /\ UNCHANGED <<channel_, watching, sock>> /\ state_' = "DISCONNECTED"
            /\ (running_ /\ timers' = 1) \/ (~running_ /\ timers' = 0)
            /\ retry_delay_' \in {retry_delay_, NextDelay(retry_delay_)}
  BY DEF StartInLoop, Connect, Retry
<1>3. ~Reset' /\ ~Has(tasks', "reset") /\ ~Has(tasks', "start")
  BY DEF Reset, Begins
<1>4. retry_delay_' \in InitDelay..MaxDelay
  BY <1>0, <1>2, DelayFacts DEF Types
<1>5. pc \notin {"new", "establish", "remove"}
  BY <1>0 DEF PcInv
<1>6. \A t \in Queued' : t.kind \in {"close", "destroy"} => t.sock \in Socks
  BY <1>0, QueuedTypes
<1>7. ASSUME NEW s \in Free, running_, Connecting(s), timers' = 0 PROVE Inv'
  <2>1. /\ s \in Socks /\ s # NULL /\ s # connection_ /\ s # cur /\ s # arg /\ s \notin held
        /\ \A t \in Queued : t.sock # s
    BY Zenon, <1>0, FreeFacts
  <2>2. /\ state_' = "CONNECTING" /\ channel_' = s /\ watching' = TRUE
        /\ sock' \in [Socks -> SockStates] /\ sock'[s] = "attempt"
        /\ \A r \in Socks : r # s => sock'[r] = sock[r]
    BY Zenon, <1>0, <1>7, <2>1 DEF Connecting, Types, SockStates
  <2>3. Types'
    BY ZenonT(40), <1>0, <1>2, <1>4, <1>7, <2>1, <2>2 DEF Types, Ptrs
  <2>4. StateInv' /\ PcInv' /\ RoundInv'
    BY <1>0, <1>3, <1>7, <2>1, <2>2 DEF StateInv, PcInv, RoundInv
  <2>5. QueueInv'
    <3>1. \A t \in Queued' : t.kind = "close" /\ sock[t.sock] \notin Open => sock'[t.sock] \notin Open
      BY <1>6, <2>1, <2>2
    <3>2. InOrder(tasks, sock') /\ InOrder(batch', sock')
      BY Zenon, <1>0, <3>1, SameOrder DEF QueueInv, Queued
    <3> QED
      BY Zenon, <1>3, <3>2 DEF QueueInv
  <2>6. StartInv'
    BY Zenon, <1>0, <1>2, <1>3, <1>7, <2>2 DEF StartInv
  <2>7. SockInv'
    <3>1. ASSUME NEW r \in Socks
          PROVE  /\ sock'[r] = "attempt" <=> (watching' /\ channel_' = r) \/ (pc' = "new" /\ cur' = r)
                 /\ sock'[r] \in Open => connection_' = r
                 /\ sock'[r] = "DISCONNECTING" => (pc' = "remove" /\ cur' = r) \/ Task("destroy", r) \in Queued'
      <4>1. sock[r] = "DISCONNECTING" => Task("destroy", r) \in Queued'
        BY Zenon, <1>0, <1>5, DestroyFacts DEF SockInv
      <4> QED
        BY <1>0, <1>1, <1>5, <2>1, <2>2, <4>1 DEF SockInv, Open
    <3>2. ASSUME NEW t \in Queued'
          PROVE  /\ t.kind = "close" => sock'[t.sock] \in ConnStates
                 /\ t.kind = "destroy" => sock'[t.sock] \in {"DISCONNECTING", "DISCONNECTED"}
      BY ZenonT(40), <1>0, <1>6, <2>1, <2>2, <3>2 DEF SockInv
    <3> QED
      BY ZenonT(40), <3>1, <3>2 DEF SockInv
  <2>8. UserInv'
    BY <1>0, <2>1, <2>2 DEF UserInv
  <2> QED
    BY Zenon, <2>3, <2>4, <2>5, <2>6, <2>7, <2>8 DEF Inv
<1>8. CASE /\ UNCHANGED <<channel_, watching, sock>> /\ state_' = "DISCONNECTED"
           /\ (running_ /\ timers' = 1) \/ (~running_ /\ timers' = 0)
  <2>1. Types'
    BY <1>0, <1>2, <1>4, <1>8 DEF Types
  <2>2. StateInv' /\ PcInv' /\ RoundInv'
    BY <1>0, <1>1, <1>3, <1>8 DEF StateInv, PcInv, RoundInv
  <2>3. QueueInv'
    BY Zenon, <1>0, <1>3, <1>8 DEF QueueInv
  <2>4. StartInv'
    BY Zenon, <1>0, <1>2, <1>3, <1>8 DEF StartInv
  <2>5. SockInv'
    <3>1. ASSUME NEW r \in Socks
          PROVE  /\ sock'[r] = "attempt" <=> (watching' /\ channel_' = r) \/ (pc' = "new" /\ cur' = r)
                 /\ sock'[r] \in Open => connection_' = r
                 /\ sock'[r] = "DISCONNECTING" => (pc' = "remove" /\ cur' = r) \/ Task("destroy", r) \in Queued'
      BY <1>0, <1>1, <1>8, <1>5, TaskFacts DEF SockInv
    <3> QED
      BY ZenonT(40), <1>0, <1>8, <3>1 DEF SockInv
  <2>6. UserInv'
    BY <1>0, <1>8 DEF UserInv
  <2> QED
    BY Zenon, <2>1, <2>2, <2>3, <2>4, <2>5, <2>6 DEF Inv
<1> QED
  BY <1>2, <1>7, <1>8

\* The three ways StartInLoop() is called: by its task, by the retry timer, directly.
LEMMA StartsKeep ==
  ASSUME Inv, TaskStart \/ RetryTimer \/ StartsInLoop
  PROVE  Inv'
<1> USE DEF clientvars, uservars
<1>0. Types /\ StateInv /\ PcInv /\ RoundInv /\ QueueInv /\ StartInv /\ SockInv /\ UserInv
  BY Zenon DEF Inv
<1>1. CASE TaskStart
  <2>1. /\ phase = "tasks" /\ pc = "idle" /\ batch # <<>> /\ Head(batch).kind = "start" /\ batch' = Tail(batch)
        /\ StartInLoop(Free, timers) /\ UNCHANGED <<phase, active, tasks, pc, cur, clientvars, uservars, stopped>>
    BY <1>1 DEF TaskStart, Runs
  <2>2. /\ batch' \in Seq(TaskSet) /\ Queued = Queued' \cup {Head(batch)} /\ ~Begins' /\ Begins
        /\ InOrder(batch', sock) /\ (Reset' => Reset) /\ (Stops' => Stops)
    BY <1>0, <2>1, TakeTask
  <2>3. Fresh /\ started /\ (running_ => ~stopped)
    BY <1>0, <2>1, <2>2 DEF StartInv
  <2>4. ~Reset
    <3>1. \A t \in Queued : t.kind # "reset"
      BY Zenon, <2>3 DEF Fresh
    <3> QED
      BY <3>1 DEF Reset, Has, Queued
  <2> QED
    BY Zenon, <1>0, <2>1, <2>2, <2>3, <2>4, StartKeeps DEF Fresh, PcInv, RoundInv, Reset
<1>2. CASE RetryTimer
  <2>1. /\ phase = "dispatch" /\ pc = "idle" /\ "timer" \in active /\ active' = active \ {"timer"}
        /\ StartInLoop(Free, IF timers > 0 THEN timers - 1 ELSE 0)
        /\ UNCHANGED <<phase, batch, tasks, pc, cur, clientvars, uservars, stopped>>
    BY <1>2 DEF RetryTimer, Handles
  <2>2. /\ (IF timers > 0 THEN timers - 1 ELSE 0) = 0 /\ (timers = 1 \/ ~running_)
        /\ state_ = "DISCONNECTED" /\ ~Reset /\ active # {} /\ active' = {} /\ batch = <<>> /\ cur = NULL
    BY <1>0, <2>1 DEF RoundInv, PcInv, Types
  <2>3. /\ Queued' = Queued /\ (Begins' <=> Begins) /\ (Stops' <=> Stops)
    BY <2>1, SameQueues
  <2>4. connection_ = NULL /\ ~Begins /\ started /\ (running_ => ~stopped)
    BY <1>0, <2>2 DEF StateInv, StartInv, Fresh
  <2> QED
    BY <1>0, <2>1, <2>2, <2>3, <2>4, StartKeeps DEF QueueInv, Types, Reset
<1>3. CASE StartsInLoop
  <2>1. /\ pc = "start" /\ pc' = "idle" /\ StartInLoop(Free, timers)
        /\ UNCHANGED <<phase, active, batch, tasks, cur, clientvars, uservars, stopped>>
    BY Zenon, <1>3 DEF StartsInLoop
  <2>2. /\ state_ = "DISCONNECTED" /\ timers = 0 /\ connection_ = NULL /\ ~Reset /\ ~stopped /\ cur = NULL
        /\ active = {} /\ (phase = "dispatch" => batch = <<>>)
    BY <1>0, <2>1 DEF PcInv, RoundInv
  <2>3. /\ Queued' = Queued /\ (Begins' <=> Begins) /\ (Stops' <=> Stops)
    BY <2>1, SameQueues
  <2>4. ~Begins /\ started
    BY <1>0, <2>1 DEF StartInv, Fresh
  <2> QED
    BY <1>0, <2>1, <2>2, <2>3, <2>4, StartKeeps DEF QueueInv, Types, Reset
<1> QED
  BY <1>1, <1>2, <1>3

-----------------------------------------------------------------------------
(* Loop() *)

\* Steps that change only what the loop's thread still has to handle.
LEMMA RoundKeeps ==
  ASSUME Inv, UNCHANGED <<ctorvars, clientvars, uservars, stopped, batch, pc, cur>>,
         phase' \in {"tasks", "dispatch"}, active' \subseteq {"write", "error", "timer"} \cup Socks,
         RoundInv', ~started \/ Begins => active' = {}
  PROVE  Inv'
<1> USE DEF ctorvars, clientvars, uservars
<1>0. Types /\ StateInv /\ PcInv /\ RoundInv /\ QueueInv /\ StartInv /\ SockInv /\ UserInv
  BY DEF Inv
<1>1. /\ Queued' = Queued /\ (Reset' <=> Reset) /\ (Begins' <=> Begins) /\ (Stops' <=> Stops)
      /\ \A k : Has(tasks', k) <=> Has(tasks, k)
  BY Zenon, SameQueues
<1>2. Types'
  BY <1>0 DEF Types
<1>3. StateInv' /\ PcInv'
  BY <1>0, <1>1 DEF StateInv, PcInv
<1>4. QueueInv' /\ SockInv' /\ UserInv'
  BY Zenon, <1>0, <1>1 DEF QueueInv, SockInv, UserInv
<1>5. ~started \/ Begins => Fresh'
  BY Zenon, <1>0, <1>1 DEF StartInv, Fresh
<1>6. StartInv'
  BY <1>0, <1>1, <1>5 DEF StartInv
<1> QED
  BY Zenon, <1>2, <1>3, <1>4, <1>6 DEF Inv

\* The events of a round.
LEMMA PollKeeps ==
  ASSUME Inv, NEW events \in SUBSET Ready, Poll(events)
  PROVE  Inv'
<1>0. Types /\ StateInv /\ PcInv /\ RoundInv /\ StartInv /\ SockInv
  BY DEF Inv
<1>1. /\ phase = "tasks" /\ batch = <<>> /\ pc = "idle" /\ ~({"write", "error"} \subseteq events)
      /\ phase' = "dispatch" /\ active' = events
      /\ UNCHANGED <<ctorvars, clientvars, uservars, stopped, batch, pc, cur>>
  BY DEF Poll
<1>2. /\ events \subseteq {"write", "error", "timer"} \cup Socks
      /\ \A e \in events : e \in {"write", "error"} => watching
      /\ "timer" \in events => timers = 1
      /\ \A s \in events \cap Socks : sock[s] = "CONNECTED"
  BY <1>0, SockAssumption DEF Ready, Types
<1>3. /\ (Reset' <=> Reset) /\ (Reset => Has(tasks, "reset"))
      /\ Has(tasks', "reset") <=> Has(tasks, "reset")
  BY Zenon, <1>1, NoItems, SameQueues DEF ctorvars, Reset
<1>4. \A s \in events \cap Socks : connection_ = s /\ state_ = "CONNECTED"
  <2>1. \A s \in events \cap Socks : connection_ = s
    BY Zenon, <1>0, <1>2 DEF SockInv, Open
  <2> QED
    BY Zenon, <1>0, <2>1, SockAssumption DEF StateInv
<1>5. \A a, b \in events : a = b
  BY <1>0, <1>1, <1>2, <1>4 DEF StateInv
<1>6. Reset => stopped /\ state_ = "DISCONNECTED" /\ timers = 0
  BY Zenon, <1>0, <1>1, <1>3 DEF RoundInv, StartInv
<1>7. RoundInv'
  <2>1. \A s \in active' \cap Socks : sock'[s] = "CONNECTED" /\ ~Reset'
    BY Zenon, <1>1, <1>2, <1>3, <1>4, <1>6 DEF ctorvars
  <2>2. "timer" \in active' => state_' = "DISCONNECTED" /\ ~Reset' /\ timers' = 1
    BY <1>0, <1>1, <1>2, <1>3, <1>6 DEF StateInv, ctorvars
  <2> QED
    BY <1>1, <1>2, <1>3, <1>5, <1>6, <2>1, <2>2 DEF RoundInv, ctorvars
<1>8. ~started \/ Begins => events = {}
  <2>1. ~started \/ Begins => state_ = "DISCONNECTED" /\ timers = 0 /\ \A s \in Socks : sock[s] = "closed"
    BY Zenon, <1>0 DEF StartInv, Fresh
  <2> QED
    BY <1>0, <1>2, <2>1 DEF StateInv
<1> QED
  BY <1>1, <1>2, <1>7, <1>8, RoundKeeps

\* DoPendingTasks() takes the list.
LEMMA SwapKeeps ==
  ASSUME Inv, SwapTasks
  PROVE  Inv'
<1> USE DEF clientvars, uservars, attemptvars
<1>0. Types /\ StateInv /\ PcInv /\ RoundInv /\ QueueInv /\ StartInv /\ SockInv /\ UserInv
  BY DEF Inv
<1>1. /\ phase = "dispatch" /\ active = {} /\ pc = "idle"
      /\ phase' = "tasks" /\ batch' = tasks /\ tasks' = <<>> /\ batch = <<>>
      /\ UNCHANGED <<running_, attemptvars, sock, active, pc, cur, clientvars, uservars, stopped>>
  BY <1>0 DEF SwapTasks, RoundInv
<1>2. /\ Queued' = Queued /\ (Reset' <=> Reset) /\ (Begins' <=> Begins) /\ (Stops' <=> Stops)
      /\ ~Has(tasks', "reset") /\ ~Has(tasks', "start") /\ InOrder(tasks', sock')
  BY Zenon, <1>1, NoItems DEF Queued, Reset, Begins, Stops
<1>3. Types'
  BY <1>0, <1>1 DEF Types
<1>4. StateInv' /\ PcInv'
  BY <1>0, <1>1, <1>2 DEF StateInv, PcInv
<1>5. RoundInv'
  BY <1>1, <1>2 DEF RoundInv
<1>6. QueueInv' /\ SockInv' /\ UserInv'
  BY Zenon, <1>0, <1>1, <1>2 DEF QueueInv, SockInv, UserInv
<1>7. Fresh' <=> Fresh
  BY ZenonT(40), <1>1, <1>2 DEF Fresh
<1>8. StartInv'
  BY <1>0, <1>1, <1>2, <1>7, NoItems DEF StartInv
<1> QED
  BY Zenon, <1>3, <1>4, <1>5, <1>6, <1>8 DEF Inv

-----------------------------------------------------------------------------
(* The connector's events *)

\* While an attempt is under way no connection is open and no task starts one.
LEMMA AttemptFacts ==
  ASSUME Inv, watching
  PROVE  /\ state_ = "CONNECTING" /\ channel_ \in Socks /\ sock[channel_] = "attempt"
         /\ ~Reset /\ ~Begins /\ started /\ ~stopped /\ timers = 0 /\ connection_ = NULL
         /\ \A s \in Socks : sock[s] \notin Open
         /\ channel_ # arg /\ channel_ \notin held /\ \A t \in Queued : t.kind \in {"close", "destroy"} => t.sock # channel_
<1>0. Types /\ StateInv /\ StartInv /\ SockInv /\ UserInv
  BY DEF Inv
<1>1. state_ = "CONNECTING" /\ ~Reset /\ channel_ \in Socks
  BY Zenon, <1>0 DEF StateInv, Types, Ptrs
<1>2. connection_ = NULL /\ timers = 0 /\ ~Begins /\ started /\ ~stopped
  BY <1>0, <1>1 DEF StateInv, StartInv, Types, Fresh
<1>3. sock[channel_] = "attempt" /\ \A s \in Socks : sock[s] \notin Open
  BY <1>0, <1>1, <1>2, SockAssumption DEF SockInv
<1>4. channel_ # arg /\ channel_ \notin held
  BY Zenon, <1>0, <1>1, <1>3 DEF UserInv, ConnStates
<1>5. \A t \in Queued : t.kind \in {"close", "destroy"} => t.sock # channel_
  BY Zenon, <1>0, <1>3 DEF SockInv, ConnStates
<1> QED
  BY <1>1, <1>2, <1>3, <1>4, <1>5

(***************************************************************************)
(* The channel's event ends the attempt: its descriptor is closed, or, when *)
(* the attempt succeeds and running_ is set, goes to NewConnection().       *)
(***************************************************************************)
LEMMA AttemptEnds ==
  ASSUME Inv, watching, phase = "dispatch", pc = "idle", active' = {},
         RemoveAndResetChannel(tasks), UNCHANGED <<phase, batch, running_, channel_, clientvars, uservars, stopped>>,
         retry_delay_' \in InitDelay..MaxDelay,
         \/ /\ state_' = "DISCONNECTED" /\ sock' = [sock EXCEPT ![channel_] = "closed"] /\ UNCHANGED <<pc, cur>>
            /\ (running_ /\ timers' = 1) \/ (~running_ /\ timers' = 0)
         \/ /\ state_' = "CONNECTED" /\ ~running_ /\ timers' = 0
            /\ sock' = [sock EXCEPT ![channel_] = "closed"] /\ UNCHANGED <<pc, cur>>
         \/ state_' = "CONNECTED" /\ running_ /\ timers' = 0 /\ UNCHANGED sock /\ pc' = "new" /\ cur' = channel_
  PROVE  Inv'
<1> USE DEF clientvars, uservars
<1>0. Types /\ StateInv /\ PcInv /\ RoundInv /\ QueueInv /\ StartInv /\ SockInv /\ UserInv
  BY Zenon DEF Inv
<1>1. /\ state_ = "CONNECTING" /\ channel_ \in Socks /\ sock[channel_] = "attempt"
      /\ ~Reset /\ ~Begins /\ started /\ ~stopped /\ timers = 0 /\ connection_ = NULL
      /\ \A s \in Socks : sock[s] \notin Open
      /\ channel_ # arg /\ channel_ \notin held
      /\ \A t \in Queued : t.kind \in {"close", "destroy"} => t.sock # channel_
  BY Zenon, AttemptFacts
<1> DEFINE t == Task("reset", NULL)
<1>2. /\ t \in TaskSet /\ t.kind = "reset" /\ tasks' = Append(tasks, t) /\ batch' = batch
      /\ watching' = FALSE
  BY ZenonT(40), TaskFacts DEF RemoveAndResetChannel
<1> HIDE DEF t
<1>3. /\ tasks' \in Seq(TaskSet) /\ batch' \in Seq(TaskSet) /\ Queued' = Queued \cup {t}
      /\ Reset' /\ ~Begins' /\ (Stops' <=> Stops)
      /\ \A k : Has(tasks', k) <=> Has(tasks, k) \/ t.kind = k
  <2>1. /\ Reset' <=> Reset \/ t.kind = "reset"
        /\ Begins' <=> Begins \/ t.kind = "start"
        /\ Stops' <=> Stops \/ t.kind = "stop"
    BY Zenon, <1>0, <1>2, PutTask
  <2>2. /\ tasks' \in Seq(TaskSet) /\ batch' \in Seq(TaskSet) /\ Queued' = Queued \cup {t}
        /\ \A k : Has(tasks', k) <=> Has(tasks, k) \/ t.kind = k
    BY ZenonT(40), <1>0, <1>2, PutTask
  <2> QED
    BY ZenonT(40), <1>1, <1>2, <2>1, <2>2
<1>4. /\ sock' \in [Socks -> SockStates]
      /\ \A s \in Socks : s # channel_ => sock'[s] = sock[s]
      /\ sock'[channel_] \in {"closed", "attempt"}
      /\ sock'[channel_] = "attempt" <=> pc' = "new"
      /\ pc' = "new" => cur' = channel_
      /\ pc' # "new" => pc' = pc /\ cur' = cur
  BY <1>0, <1>1 DEF Types, SockStates
<1>5. \A u \in Queued : u.kind \in {"close", "destroy"} => u.sock \in Socks
  BY Zenon, <1>0, QueuedTypes
<1>6. Types'
  BY ZenonT(40), <1>0, <1>2, <1>3, <1>4 DEF Types
<1>7. StateInv' /\ PcInv' /\ RoundInv'
  BY Zenon, <1>0, <1>1, <1>2, <1>3, <1>4, SockAssumption DEF StateInv, PcInv, RoundInv
<1>8. QueueInv'
  <2>1. InOrder(tasks', sock)
    <3>1. \A u \in Items(tasks) : u.kind = "close" => sock[u.sock] \notin Open
      BY ZenonT(40), <1>1, <1>5 DEF Queued
    <3> QED
      BY <1>0, <1>2, <3>1, AppendOrder DEF QueueInv, Types
  <2>2. \A u \in Queued' : u.kind = "close" => sock'[u.sock] = sock[u.sock]
    BY <1>1, <1>2, <1>3, <1>4, <1>5
  <2>3. \A u \in Items(tasks') \cup Items(batch') :
          u.kind = "close" /\ sock[u.sock] \notin Open => sock'[u.sock] \notin Open
    BY Zenon, <2>2 DEF Queued
  <2>4. InOrder(tasks', sock') /\ InOrder(batch', sock')
    BY ZenonT(40), <1>0, <1>2, <2>1, <2>3, SameOrder DEF QueueInv
  <2> QED
    BY <1>0, <1>2, <1>3, <2>4 DEF QueueInv
<1>9. StartInv'
  BY <1>0, <1>1, <1>3, <1>4 DEF StartInv
<1>10. SockInv'
  <2>1. ASSUME NEW r \in Socks
        PROVE  /\ sock'[r] = "attempt" <=> (watching' /\ channel_' = r) \/ (pc' = "new" /\ cur' = r)
               /\ sock'[r] \in Open => connection_' = r
               /\ sock'[r] = "DISCONNECTING" => (pc' = "remove" /\ cur' = r) \/ Task("destroy", r) \in Queued'
    BY Zenon, <1>0, <1>1, <1>2, <1>3, <1>4 DEF SockInv, Open
  <2>2. ASSUME NEW u \in Queued'
        PROVE  /\ u.kind = "close" => sock'[u.sock] \in ConnStates
               /\ u.kind = "destroy" => sock'[u.sock] \in {"DISCONNECTING", "DISCONNECTED"}
    BY ZenonT(40), <1>0, <1>1, <1>2, <1>3, <1>4, <1>5 DEF SockInv
  <2> QED
    BY Zenon, <1>1, <2>1, <2>2 DEF SockInv
<1>11. UserInv'
  BY <1>0, <1>1, <1>4 DEF UserInv
<1> QED
  BY Zenon, <1>6, <1>7, <1>8, <1>9, <1>10, <1>11 DEF Inv

\* HandleError() and HandleWrite().
LEMMA EventsKeep ==
  ASSUME Inv, HandleError \/ HandleWrite
  PROVE  Inv'
<1>0. Types /\ StateInv /\ RoundInv /\ StartInv
  BY Zenon DEF Inv
<1>1. /\ phase = "dispatch" /\ pc = "idle" /\ UNCHANGED <<phase, batch, clientvars, uservars, stopped>>
      /\ active \cap {"write", "error"} # {} /\ active' = {}
  BY <1>0 DEF HandleError, HandleWrite, Handles, RoundInv
<1>2. retry_delay_ \in InitDelay..MaxDelay /\ NextDelay(retry_delay_) \in InitDelay..MaxDelay
  BY Zenon, <1>0, DelayFacts DEF Types
<1>3. CASE HandleError /\ state_ # "CONNECTING"
  <2>1. UNCHANGED <<ctorvars, pc, cur>>
    BY Zenon, <1>3 DEF HandleError
  <2>2. RoundInv'
    BY <1>0, <1>1, <2>1, NoItems DEF RoundInv, ctorvars
  <2> QED
    BY <1>0, <1>1, <2>1, <2>2, RoundKeeps DEF Types
<1>4. CASE (HandleError /\ state_ = "CONNECTING") \/ HandleWrite
  <2>1. watching /\ timers = 0
    BY <1>0, <1>4 DEF StateInv, RoundInv, HandleWrite, Handles, Types
  <2>2. /\ RemoveAndResetChannel(tasks) /\ UNCHANGED <<running_, channel_>>
        /\ \/ AttemptFails /\ UNCHANGED <<pc, cur>>
           \/ /\ AttemptSucceeds
              /\ \/ running_ /\ pc' = "new" /\ cur' = channel_
                 \/ ~running_ /\ UNCHANGED <<pc, cur>>
    BY Zenon, <1>4 DEF HandleError, HandleWrite, AttemptFails, AttemptSucceeds
  <2>3. /\ retry_delay_' \in InitDelay..MaxDelay
        /\ \/ /\ state_' = "DISCONNECTED" /\ sock' = [sock EXCEPT ![channel_] = "closed"] /\ UNCHANGED <<pc, cur>>
              /\ (running_ /\ timers' = 1) \/ (~running_ /\ timers' = 0)
           \/ /\ state_' = "CONNECTED" /\ ~running_ /\ timers' = 0
              /\ sock' = [sock EXCEPT ![channel_] = "closed"] /\ UNCHANGED <<pc, cur>>
           \/ state_' = "CONNECTED" /\ running_ /\ timers' = 0 /\ UNCHANGED sock /\ pc' = "new" /\ cur' = channel_
    BY <1>2, <2>1, <2>2 DEF AttemptFails, AttemptSucceeds, Retry
  <2> QED
    BY Zenon, <1>1, <2>1, <2>2, <2>3, AttemptEnds
<1> QED
  BY Zenon, <1>3, <1>4

-----------------------------------------------------------------------------
(* The connection *)

\* The state of one descriptor changes.
LEMMA SockFacts ==
  ASSUME Types, NEW s \in Socks, NEW v \in SockStates, sock' = [sock EXCEPT ![s] = v]
  PROVE  sock' \in [Socks -> SockStates] /\ sock'[s] = v /\ \A r \in Socks : r # s => sock'[r] = sock[r]
BY DEF Types

\* The order stays if no task is to close the connection that opens.
LEMMA OrderStays ==
  ASSUME Types, NEW s \in Socks, \A r \in Socks : r # s => sock'[r] = sock[r],
         Queued' \subseteq Queued,
         \/ sock[s] \in Open \/ sock'[s] \notin Open
         \/ \A t \in Queued : t.kind = "close" => t.sock # s,
         InOrder(tasks', sock), InOrder(batch', sock)
  PROVE  InOrder(tasks', sock') /\ InOrder(batch', sock')
<1>1. \A t \in Queued : t.kind \in {"close", "destroy"} => t.sock \in Socks
  BY Zenon, QueuedTypes
<1>2. \A t \in Queued : t.kind = "close" /\ sock[t.sock] \notin Open => sock'[t.sock] \notin Open
  BY Zenon, <1>1
<1>3. \A t \in Items(tasks') \cup Items(batch') :
        t.kind = "close" /\ sock[t.sock] \notin Open => sock'[t.sock] \notin Open
  BY Zenon, <1>2 DEF Queued
<1> QED
  BY Zenon, <1>3, SameOrder

\* NewConnection() and ConnectionEstablished().
LEMMA NewKeeps ==
  ASSUME Inv, NewConnection \/ ConnectionEstablished
  PROVE  Inv'
<1> USE DEF clientvars, uservars, attemptvars
<1>0. Types /\ StateInv /\ PcInv /\ RoundInv /\ QueueInv /\ StartInv /\ SockInv /\ UserInv
  BY DEF Inv
<1> DEFINE v == IF pc = "new" THEN "CONNECTING" ELSE "CONNECTED"
<1>1. /\ UNCHANGED <<running_, attemptvars, tasks, retry_, connect_, phase, active, batch, uservars, stopped>>
      /\ pc \in {"new", "establish"} /\ sock' = [sock EXCEPT ![cur] = v] /\ connection_' = cur
      /\ (pc = "new" /\ pc' = "establish" /\ cur' = cur) \/ (pc = "establish" /\ pc' = "idle" /\ cur' = NULL)
  BY <1>0 DEF NewConnection, ConnectionEstablished, PcInv
<1>2. v \in SockStates /\ v \in Open /\ v # "attempt"
  BY ZenonT(40) DEF SockStates, ConnStates, Open
<1> HIDE DEF v
<1>3. /\ cur \in Socks /\ cur # NULL /\ state_ = "CONNECTED" /\ ~watching /\ active = {} /\ timers = 0
      /\ pc = "new" => sock[cur] = "attempt" /\ connection_ = NULL
      /\ pc = "establish" => sock[cur] \in Open /\ connection_ = cur
  BY <1>0, <1>1 DEF PcInv, StateInv, RoundInv, Types, Ptrs
<1>4. /\ sock' \in [Socks -> SockStates] /\ sock'[cur] = v /\ \A r \in Socks : r # cur => sock'[r] = sock[r]
  BY Zenon, <1>0, <1>1, <1>2, <1>3, SockFacts
<1>5. /\ Queued' = Queued /\ (Reset' <=> Reset) /\ (Begins' <=> Begins) /\ (Stops' <=> Stops)
      /\ \A k : Has(tasks', k) <=> Has(tasks, k)
  BY Zenon, <1>1, SameQueues
<1>6. started /\ ~Begins
  BY <1>0, <1>1 DEF StartInv, Fresh
<1>7. \A u \in Queued : u.kind \in {"close", "destroy"} => u.sock \in Socks
  BY Zenon, <1>0, QueuedTypes
<1>8. \A u \in Queued :
        /\ u.kind = "destroy" => u.sock # cur
        /\ u.kind = "close" => pc # "new" \/ u.sock # cur
  <2>1. sock[cur] \notin {"DISCONNECTING", "DISCONNECTED"} /\ (pc = "new" => sock[cur] \notin ConnStates)
    BY ZenonT(40), <1>1, <1>3 DEF Open, ConnStates
  <2> QED
    BY Zenon, <1>0, <2>1 DEF SockInv
<1>9. Types'
  BY <1>0, <1>1, <1>3, <1>4 DEF Types, Ptrs
<1>10. StateInv' /\ PcInv' /\ RoundInv'
  <2>1. StateInv'
    BY Zenon, <1>0, <1>1, <1>3, <1>5 DEF StateInv
  <2>2. PcInv'
    BY ZenonT(40), <1>1, <1>2, <1>3, <1>4 DEF PcInv
  <2>3. RoundInv'
    BY <1>0, <1>1, <1>3, <1>5 DEF RoundInv
  <2> QED
    BY Zenon, <2>1, <2>2, <2>3
<1>11. QueueInv'
  <2>1. InOrder(tasks', sock) /\ InOrder(batch', sock)
    BY Zenon, <1>0, <1>1 DEF QueueInv
  <2>2. InOrder(tasks', sock') /\ InOrder(batch', sock')
    BY Zenon, <1>0, <1>1, <1>3, <1>4, <1>5, <1>8, <2>1, OrderStays
  <2> QED
    BY Zenon, <1>0, <1>1, <1>5, <2>2 DEF QueueInv
<1>12. StartInv'
  BY Zenon, <1>0, <1>1, <1>3, <1>5, <1>6 DEF StartInv
<1>13. SockInv'
  <2>1. ASSUME NEW r \in Socks
        PROVE  /\ sock'[r] = "attempt" <=> (watching' /\ channel_' = r) \/ (pc' = "new" /\ cur' = r)
               /\ sock'[r] \in Open => connection_' = r
               /\ sock'[r] = "DISCONNECTING" => (pc' = "remove" /\ cur' = r) \/ Task("destroy", r) \in Queued'
    <3>1. CASE r = cur
      BY Zenon, <1>1, <1>2, <1>3, <1>4, <3>1 DEF Open
    <3>2. CASE r # cur
      BY Zenon, <1>0, <1>1, <1>3, <1>4, <1>5, <3>2, SockAssumption DEF SockInv
    <3> QED
      BY Zenon, <3>1, <3>2
  <2>2. ASSUME NEW u \in Queued'
        PROVE  /\ u.kind = "close" => sock'[u.sock] \in ConnStates
               /\ u.kind = "destroy" => sock'[u.sock] \in {"DISCONNECTING", "DISCONNECTED"}
    BY Zenon, <1>0, <1>2, <1>4, <1>5, <1>7, <1>8 DEF SockInv, Open, ConnStates
  <2> QED
    BY Zenon, <1>1, <1>2, <1>4, <2>1, <2>2 DEF SockInv
<1>14. UserInv'
  BY <1>0, <1>1, <1>2, <1>4 DEF UserInv, Open, ConnStates
<1> QED
  BY ZenonT(40), <1>9, <1>10, <1>11, <1>12, <1>13, <1>14 DEF Inv

(***************************************************************************)
(* HandleClose() of the open connection, in an event or in its task, with  *)
(* no channel left to reset.                                               *)
(***************************************************************************)
LEMMA CloseKeeps ==
  ASSUME Inv, pc = "idle", NEW s \in Socks, sock[s] \in Open, HandleClose(s), ~Reset, active' = {},
         UNCHANGED <<running_, attemptvars, tasks, phase, clientvars, uservars, stopped>>,
         phase = "dispatch" => batch' = <<>>,
         batch' \in Seq(TaskSet), InOrder(batch', sock), ~Begins', Stops' => Stops,
         ~Reset', Queued' \subseteq Queued, \A t \in Queued : t.kind # "close" => t \in Queued'
  PROVE  Inv'
<1> USE DEF clientvars, uservars, attemptvars
<1>0. Types /\ StateInv /\ PcInv /\ RoundInv /\ QueueInv /\ StartInv /\ SockInv /\ UserInv
  BY Zenon DEF Inv
<1>1. sock' = [sock EXCEPT ![s] = "DISCONNECTING"] /\ pc' = "remove" /\ cur' = s
  BY DEF HandleClose
<1>2. /\ sock' \in [Socks -> SockStates] /\ sock'[s] = "DISCONNECTING"
      /\ \A r \in Socks : r # s => sock'[r] = sock[r]
  BY Zenon, <1>0, <1>1, SockFacts DEF SockStates, ConnStates
<1>3. s # NULL /\ connection_ = s /\ state_ = "CONNECTED" /\ ~watching
  BY Zenon, <1>0, SockAssumption DEF SockInv, StateInv
<1>4. started
  BY <1>0 DEF StartInv, Fresh, Open
<1>5. ~Has(tasks', "start") /\ ~Has(tasks', "reset")
  BY Zenon DEF Begins, Reset
<1>6. \A u \in Queued : u.kind \in {"close", "destroy"} => u.sock \in Socks
  BY ZenonT(40), <1>0, QueuedTypes
<1>7. Types'
  BY <1>0, <1>1, <1>2 DEF Types, Ptrs
<1>8. StateInv' /\ PcInv' /\ RoundInv'
  <2>1. StateInv'
    BY Zenon, <1>0, <1>3 DEF StateInv
  <2>2. PcInv'
    BY ZenonT(40), <1>1, <1>2, <1>3 DEF PcInv
  <2>3. RoundInv'
    BY <1>0, <1>3, <1>5 DEF RoundInv
  <2> QED
    BY Zenon, <2>1, <2>2, <2>3
<1>9. QueueInv'
  <2>1. InOrder(tasks', sock)
    BY Zenon, <1>0 DEF QueueInv
  <2>2. InOrder(tasks', sock') /\ InOrder(batch', sock')
    BY Zenon, <1>0, <1>2, <2>1, OrderStays
  <2> QED
    BY Zenon, <1>5, <2>2 DEF QueueInv
<1>10. StartInv'
  BY Zenon, <1>0, <1>1, <1>3, <1>4 DEF StartInv
<1>11. SockInv'
  <2>1. ASSUME NEW r \in Socks
        PROVE  /\ sock'[r] = "attempt" <=> (watching' /\ channel_' = r) \/ (pc' = "new" /\ cur' = r)
               /\ sock'[r] \in Open => connection_' = r
               /\ sock'[r] = "DISCONNECTING" => (pc' = "remove" /\ cur' = r) \/ Task("destroy", r) \in Queued'
    <3>1. CASE r = s
      BY Zenon, <1>1, <1>2, <1>3, <3>1 DEF Open
    <3>2. CASE r # s
      <4>1. sock[r] = "DISCONNECTING" => Task("destroy", r) \in Queued'
        BY Zenon, <1>0, DestroyFacts DEF SockInv
      <4> QED
        BY Zenon, <1>0, <1>1, <1>2, <1>3, <3>2, <4>1 DEF SockInv
    <3> QED
      BY Zenon, <3>1, <3>2
  <2>2. ASSUME NEW u \in Queued'
        PROVE  /\ u.kind = "close" => sock'[u.sock] \in ConnStates
               /\ u.kind = "destroy" => sock'[u.sock] \in {"DISCONNECTING", "DISCONNECTED"}
    BY Zenon, <1>0, <1>2, <1>6 DEF SockInv, Open, ConnStates
  <2> QED
    BY Zenon, <1>1, <2>1, <2>2 DEF SockInv
<1>12. UserInv'
  BY <1>0, <1>2 DEF UserInv, ConnStates
<1> QED
  BY Zenon, <1>7, <1>8, <1>9, <1>10, <1>11, <1>12 DEF Inv

(***************************************************************************)
(* A task that leaves only the state of its connection changed: it closes  *)
(* what is closed already, or is ConnectionDestroy().                      *)
(***************************************************************************)
LEMMA EndedKeeps ==
  ASSUME Inv, Runs("close") \/ Runs("destroy"),
         UNCHANGED <<running_, attemptvars, tasks, pc, cur, clientvars, uservars, stopped>>,
         \/ Runs("close") /\ UNCHANGED sock
         \/ Runs("destroy") /\ sock' = [sock EXCEPT ![Head(batch).sock] = "DISCONNECTED"]
  PROVE  Inv'
<1> USE DEF clientvars, uservars, attemptvars
<1>0. Types /\ StateInv /\ PcInv /\ RoundInv /\ QueueInv /\ StartInv /\ SockInv /\ UserInv
  BY DEF Inv
<1> DEFINE t == Head(batch)
<1> DEFINE s == t.sock
<1>1. /\ phase = "tasks" /\ pc = "idle" /\ batch # <<>> /\ batch' = Tail(batch) /\ UNCHANGED <<phase, active>>
      /\ t.kind \in {"close", "destroy"}
      /\ \/ UNCHANGED sock /\ t.kind = "close"
         \/ t.kind = "destroy" /\ sock' = [sock EXCEPT ![s] = "DISCONNECTED"]
  BY DEF Runs
<1>2. /\ tasks' \in Seq(TaskSet) /\ batch' \in Seq(TaskSet) /\ t \in TaskSet
      /\ Queued = Queued' \cup {t}
      /\ Reset <=> Reset' \/ t.kind = "reset"
      /\ ~Begins' /\ (Begins <=> t.kind = "start")
      /\ Stops <=> Stops' \/ t.kind = "stop"
      /\ InOrder(batch', sock) /\ InOrder(tasks', sock) /\ ~Has(tasks', "start")
  BY Zenon, <1>0, <1>1, TakeTask
<1>3. s \in Socks /\ t = Task(t.kind, s)
  BY Zenon, <1>1, <1>2, TaskFacts
<1> HIDE DEF s, t
<1>4. t.kind = "destroy" => sock[s] \in {"DISCONNECTING", "DISCONNECTED"}
  BY Zenon, <1>0, <1>2 DEF SockInv, s
<1>5. /\ sock' \in [Socks -> SockStates] /\ \A r \in Socks : r # s => sock'[r] = sock[r]
      /\ sock'[s] # sock[s] => t.kind = "destroy" /\ sock'[s] = "DISCONNECTED"
      /\ t.kind = "destroy" => sock'[s] = "DISCONNECTED"
  BY ZenonT(40), <1>0, <1>1, <1>3 DEF SockStates, ConnStates, Types
<1>6. (Reset' <=> Reset) /\ ~Begins /\ ~Begins' /\ (Stops' <=> Stops) /\ active = {}
  BY <1>0, <1>1, <1>2 DEF RoundInv
<1>7. started
  BY <1>0, <1>1 DEF StartInv
<1>8. \A u \in Queued : u.kind \in {"close", "destroy"} => u.sock \in Socks
  BY ZenonT(40), <1>0, QueuedTypes
<1>9. Types'
  BY <1>0, <1>1, <1>2, <1>5 DEF Types
<1>10. StateInv' /\ PcInv' /\ RoundInv'
  <2>1. StateInv'
    BY Zenon, <1>0, <1>6 DEF StateInv
  <2>2. PcInv'
    BY <1>0, <1>1 DEF PcInv
  <2>3. Has(tasks', "reset") <=> Has(tasks, "reset")
    BY Zenon
  <2>4. RoundInv'
    BY <1>0, <1>1, <1>6, <2>3 DEF RoundInv
  <2> QED
    BY Zenon, <2>1, <2>2, <2>4
<1>11. QueueInv'
  <2>1. sock'[s] \in Open => sock[s] \in Open
    BY <1>5 DEF Open
  <2>2. InOrder(tasks', sock') /\ InOrder(batch', sock')
    BY Zenon, <1>0, <1>2, <1>3, <1>5, <2>1, OrderStays
  <2> QED
    BY Zenon, <1>2, <2>2 DEF QueueInv
<1>12. StartInv'
  BY Zenon, <1>0, <1>1, <1>6, <1>7 DEF StartInv
<1>13. SockInv'
  <2>1. ASSUME NEW r \in Socks
        PROVE  /\ sock'[r] = "attempt" <=> (watching' /\ channel_' = r) \/ (pc' = "new" /\ cur' = r)
               /\ sock'[r] \in Open => connection_' = r
               /\ sock'[r] = "DISCONNECTING" => (pc' = "remove" /\ cur' = r) \/ Task("destroy", r) \in Queued'
    <3>1. sock'[r] = sock[r] \/ (sock'[r] = "DISCONNECTED" /\ sock[r] = "DISCONNECTING")
      BY <1>4, <1>5
    <3>2. ASSUME sock'[r] = "DISCONNECTING" PROVE Task("destroy", r) \in Queued'
      <4>1. sock[r] = "DISCONNECTING" /\ Task("destroy", r) \in Queued
        BY ZenonT(40), <1>0, <1>1, <3>1, <3>2 DEF SockInv
      <4>2. Task("destroy", r) # t
        <5>1. ASSUME Task("destroy", r) = t PROVE s = r /\ t.kind = "destroy"
          BY ZenonT(40), <1>1, <5>1, DestroyFacts DEF s
        <5> QED
          BY <1>5, <3>2, <5>1
      <4> QED
        BY Zenon, <1>2, <4>1, <4>2
    <3> QED
      BY Zenon, <1>0, <1>1, <3>1, <3>2 DEF SockInv, Open
  <2>2. ASSUME NEW u \in Queued'
        PROVE  /\ u.kind = "close" => sock'[u.sock] \in ConnStates
               /\ u.kind = "destroy" => sock'[u.sock] \in {"DISCONNECTING", "DISCONNECTED"}
    <3>1. /\ u \in Queued
          /\ u.kind = "close" => sock[u.sock] \in ConnStates
          /\ u.kind = "destroy" => sock[u.sock] \in {"DISCONNECTING", "DISCONNECTED"}
      BY Zenon, <1>0, <1>2 DEF SockInv
    <3> QED
      BY <1>5, <1>8, <3>1 DEF ConnStates
  <2>3. connection_' # NULL => sock'[connection_'] \in Open
    BY ZenonT(40), <1>0, <1>1, <1>4, <1>5 DEF SockInv, Open, Types, Ptrs
  <2> QED
    BY Zenon, <2>1, <2>2, <2>3 DEF SockInv
<1>14. UserInv'
  BY <1>0, <1>5 DEF UserInv, ConnStates
<1> QED
  BY Zenon, <1>9, <1>10, <1>11, <1>12, <1>13, <1>14 DEF Inv

\* A connection is closed: the peer's event, ForceCloseInLoop(), ConnectionDestroy().
LEMMA ClosesKeep ==
  ASSUME Inv, (\E s \in Socks : CloseEvent(s)) \/ TaskClose \/ ConnectionDestroy
  PROVE  Inv'
<1> USE DEF clientvars, uservars, attemptvars
<1>0. Types /\ StateInv /\ PcInv /\ RoundInv /\ QueueInv /\ StartInv /\ SockInv /\ UserInv
  BY DEF Inv
<1>1. ASSUME NEW s \in Socks, CloseEvent(s) PROVE Inv'
  <2>1. /\ phase = "dispatch" /\ pc = "idle" /\ s \in active /\ active' = active \ {s} /\ HandleClose(s)
        /\ UNCHANGED <<phase, batch, running_, attemptvars, tasks, clientvars, uservars, stopped>>
    BY Zenon, <1>1 DEF CloseEvent, Handles
  <2>2. active' = {} /\ batch = <<>> /\ sock[s] \in Open /\ ~Reset
    BY <1>0, <2>1 DEF RoundInv, Open
  <2>3. /\ Queued' = Queued /\ (Reset' <=> Reset) /\ (Begins' <=> Begins) /\ (Stops' <=> Stops)
    BY Zenon, <2>1, SameQueues
  <2>4. ~Begins
    BY Zenon, <1>0, <2>1 DEF StartInv, Fresh
  <2>5. batch' \in Seq(TaskSet) /\ InOrder(batch', sock)
    BY Zenon, <1>0, <2>1 DEF Types, QueueInv
  <2> QED
    BY Zenon, <2>1, <2>2, <2>3, <2>4, <2>5, CloseKeeps
<1>2. CASE TaskClose
  <2> DEFINE t == Head(batch)
  <2>1. /\ Runs("close") /\ ForceCloseInLoop(t.sock)
        /\ UNCHANGED <<running_, attemptvars, tasks, clientvars, uservars, stopped>>
    BY Zenon, <1>2 DEF TaskClose
  <2>2. /\ phase = "tasks" /\ pc = "idle" /\ batch # <<>> /\ batch' = Tail(batch) /\ UNCHANGED <<phase, active>>
        /\ t.kind = "close"
    BY Zenon, <2>1 DEF Runs
  <2>3. CASE sock[t.sock] \in {"DISCONNECTING", "DISCONNECTED"}
    <3>1. UNCHANGED <<sock, pc, cur>>
      BY Zenon, <2>1, <2>3 DEF ForceCloseInLoop
    <3> QED
      BY Zenon, <2>1, <3>1, EndedKeeps
  <2>4. CASE sock[t.sock] \notin {"DISCONNECTING", "DISCONNECTED"}
    <3>1. HandleClose(t.sock)
      BY Zenon, <2>1, <2>4 DEF ForceCloseInLoop
    <3>2. /\ batch' \in Seq(TaskSet) /\ t \in TaskSet /\ Queued = Queued' \cup {t}
          /\ Reset <=> Reset' \/ t.kind = "reset"
          /\ ~Begins' /\ (Stops <=> Stops' \/ t.kind = "stop") /\ InOrder(batch', sock)
      BY Zenon, <1>0, <2>1, <2>2, TakeTask
    <3>3. t.sock \in Socks
      BY Zenon, <2>2, <3>2, TaskFacts
    <3>4. sock[t.sock] \in Open
      <4>1. sock[t.sock] \in ConnStates
        BY Zenon, <1>0, <2>2, <3>2 DEF SockInv
      <4> QED
        BY Zenon, <2>4, <4>1 DEF ConnStates, Open
    <3>5. ~Has(batch', "reset")
      BY Zenon, <1>0, <2>2, <3>4, TailOrder DEF QueueInv, Types
    <3>6. state_ = "CONNECTED" /\ active = {}
      BY ZenonT(40), <1>0, <2>2, <3>3, <3>4, SockAssumption DEF SockInv, StateInv, RoundInv
    <3>7. ~Reset' /\ ~Reset
      <4>1. ~Has(tasks', "reset")
        BY <1>0, <2>1, <2>2, <3>6 DEF RoundInv
      <4>2. ~Reset'
        BY Zenon, <3>5, <4>1 DEF Reset
      <4> QED
        BY Zenon, <2>2, <3>2, <4>2
    <3>8. /\ Stops' => Stops
          /\ Queued' \subseteq Queued
          /\ \A u \in Queued : u.kind # "close" => u \in Queued'
          /\ phase # "dispatch" /\ active' = {}
      BY <2>2, <3>2, <3>6
    <3> QED
      BY Zenon, <2>1, <2>2, <3>1, <3>2, <3>3, <3>4, <3>7, <3>8, CloseKeeps
  <2> QED
    BY Zenon, <2>3, <2>4
<1>3. CASE ConnectionDestroy
  BY Zenon, <1>3, EndedKeeps DEF ConnectionDestroy
<1> QED
  BY Zenon, <1>1, <1>2, <1>3

\* RemoveConnection(), and Restart() after it.
LEMMA RemoveKeeps ==
  ASSUME Inv, RemoveConnection \/ RemoveRestarts
  PROVE  Inv'
<1> USE DEF clientvars, uservars, attemptvars
<1>0. Types /\ StateInv /\ PcInv /\ RoundInv /\ QueueInv /\ StartInv /\ SockInv /\ UserInv
  BY DEF Inv
<1>1. CASE RemoveConnection
  <2> DEFINE t == Task("destroy", cur)
  <2>1. /\ pc = "remove" /\ connection_' = NULL /\ tasks' = Append(tasks, t)
        /\ pc' \in {"restart", "idle"} /\ (pc' = "restart" => connect_)
        /\ (retry_ /\ connect_ => pc' = "restart")
        /\ cur' = NULL
        /\ UNCHANGED <<running_, attemptvars, sock, retry_, connect_, phase, active, batch, uservars, stopped>>
    BY Zenon, <1>1 DEF RemoveConnection
  <2>2. /\ cur \in Socks /\ connection_ = cur /\ sock[cur] = "DISCONNECTING" /\ ~Reset
        /\ state_ = "CONNECTED" /\ ~watching /\ active = {} /\ started /\ ~Begins /\ timers = 0
    BY ZenonT(40), <1>0, <2>1 DEF PcInv, StateInv, RoundInv, Types, Ptrs, StartInv, Fresh
  <2>3. t \in TaskSet /\ t.kind = "destroy" /\ t.sock = cur
    BY <2>2, TaskFacts
  <2> HIDE DEF t
  <2>4. /\ tasks' \in Seq(TaskSet) /\ batch' \in Seq(TaskSet) /\ Queued' = Queued \cup {t}
        /\ Reset' <=> Reset \/ t.kind = "reset"
        /\ Begins' <=> Begins \/ t.kind = "start"
        /\ Stops' <=> Stops \/ t.kind = "stop"
        /\ \A k : Has(tasks', k) <=> Has(tasks, k) \/ t.kind = k
    BY Zenon, <1>0, <2>1, <2>3, PutTask
  <2>5. InOrder(tasks', sock)
    BY Zenon, <1>0, <2>1, <2>3, AppendOrder DEF QueueInv, Types
  <2>6. ~Reset' /\ ~Begins' /\ (Stops' <=> Stops)
    BY ZenonT(40), <2>2, <2>3, <2>4
  <2>7. Types'
    <3>1. connection_' \in Ptrs /\ cur' \in Ptrs /\ pc' \in {"idle", "new", "establish", "remove", "restart", "start"}
      BY <2>1 DEF Ptrs
    <3>2. /\ UNCHANGED <<running_, state_, retry_delay_, timers, channel_, watching, sock, retry_, connect_>>
          /\ UNCHANGED <<phase, active, op, arg, held, started, stopped>>
          /\ tasks' \in Seq(TaskSet) /\ batch' \in Seq(TaskSet)
      BY Zenon, <2>1, <2>4
    <3> QED
      BY ONLY <1>0, <3>1, <3>2 DEF Types
  <2>8. StateInv' /\ PcInv' /\ RoundInv'
    <3>1. StateInv'
      BY <1>0, <2>1, <2>2, <2>6 DEF StateInv
    <3>2. PcInv'
      BY <1>0, <2>1, <2>2, <2>6 DEF PcInv, StartInv
    <3>3. Has(tasks', "reset") <=> Has(tasks, "reset")
      BY <2>3, <2>4
    <3>4. RoundInv'
      BY <1>0, <2>1, <2>2, <3>3 DEF RoundInv
    <3> QED
      BY <3>1, <3>2, <3>4
  <2>9. QueueInv'
    <3>1. ~Has(tasks', "start")
      BY Zenon, <2>6 DEF Begins
    <3> QED
      BY Zenon, <1>0, <2>1, <2>5, <3>1 DEF QueueInv
  <2>10. StartInv'
    BY Zenon, <1>0, <2>1, <2>2, <2>6 DEF StartInv
  <2>11. SockInv'
    <3>1. ASSUME NEW r \in Socks
          PROVE  /\ sock'[r] = "attempt" <=> (watching' /\ channel_' = r) \/ (pc' = "new" /\ cur' = r)
                 /\ sock'[r] \in Open => connection_' = r
                 /\ sock'[r] = "DISCONNECTING" => (pc' = "remove" /\ cur' = r) \/ Task("destroy", r) \in Queued'
      <4>1. sock[r] = "DISCONNECTING" => Task("destroy", r) \in Queued'
        BY Zenon, <1>0, <2>1, <2>4 DEF SockInv, t
      <4> QED
        BY Zenon, <1>0, <2>1, <2>2, <4>1 DEF SockInv, Open
    <3>2. ASSUME NEW u \in Queued'
          PROVE  /\ u.kind = "close" => sock'[u.sock] \in ConnStates
                 /\ u.kind = "destroy" => sock'[u.sock] \in {"DISCONNECTING", "DISCONNECTED"}
      BY Zenon, <1>0, <2>1, <2>2, <2>3, <2>4 DEF SockInv
    <3> QED
      BY Zenon, <2>1, <3>1, <3>2 DEF SockInv
  <2>12. UserInv'
    BY <1>0, <2>1 DEF UserInv
  <2> QED
    BY Zenon, <2>7, <2>8, <2>9, <2>10, <2>11, <2>12 DEF Inv
<1>2. CASE RemoveRestarts
  <2>1. /\ pc = "restart" /\ pc' = "start" /\ running_' = TRUE /\ state_' = "DISCONNECTED"
        /\ retry_delay_' = InitDelay
        /\ UNCHANGED <<channel_, watching, timers, sock, tasks>>
        /\ UNCHANGED <<phase, active, batch, cur, clientvars, uservars, stopped>>
    BY <1>2 DEF RemoveRestarts, Restart
  <2>2. /\ Queued' = Queued /\ (Reset' <=> Reset) /\ (Begins' <=> Begins) /\ (Stops' <=> Stops)
        /\ \A k : Has(tasks', k) <=> Has(tasks, k)
    BY Zenon, <2>1, SameQueues
  <2>3. /\ state_ = "CONNECTED" /\ connection_ = NULL /\ ~Reset /\ ~stopped /\ ~watching /\ timers = 0
        /\ started /\ ~Begins /\ active = {} /\ cur = NULL
    BY Zenon, <1>0, <2>1 DEF PcInv, StateInv, RoundInv, Types, StartInv, Fresh
  <2>4. Types'
    <3>1. /\ retry_delay_' \in InitDelay..MaxDelay /\ running_' \in BOOLEAN
          /\ state_' \in {"DISCONNECTED", "CONNECTING", "CONNECTED"}
          /\ pc' \in {"idle", "new", "establish", "remove", "restart", "start"}
      BY <2>1, DelayAssumption
    <3> QED
      BY ZenonT(40), <1>0, <2>1, <3>1 DEF Types
  <2>5. StateInv' /\ PcInv'
    BY <1>0, <2>1, <2>2, <2>3 DEF StateInv, PcInv
  <2>6. ~Has(tasks', "reset")
    BY ZenonT(40), <2>2, <2>3 DEF Reset
  <2>7. RoundInv'
    BY <1>0, <2>1, <2>3, <2>6 DEF RoundInv
  <2>8. QueueInv'
    BY Zenon, <1>0, <2>1, <2>2 DEF QueueInv
  <2>9. StartInv'
    BY Zenon, <1>0, <2>1, <2>2, <2>3 DEF StartInv
  <2>10. SockInv'
    BY Zenon, <1>0, <2>1, <2>2, <2>3 DEF SockInv
  <2>11. UserInv'
    BY <1>0, <2>1 DEF UserInv
  <2> QED
    BY ZenonT(40), <2>4, <2>5, <2>7, <2>8, <2>9, <2>10, <2>11 DEF Inv
<1> QED
  BY Zenon, <1>1, <1>2

-----------------------------------------------------------------------------
(* The connector's tasks *)

\* The task that resets the channel.
LEMMA ResetKeeps ==
  ASSUME Inv, TaskReset
  PROVE  Inv'
<1> USE DEF clientvars, uservars
<1>0. Types /\ StateInv /\ PcInv /\ RoundInv /\ QueueInv /\ StartInv /\ SockInv /\ UserInv
  BY DEF Inv
<1>1. /\ phase = "tasks" /\ pc = "idle" /\ batch # <<>> /\ Head(batch).kind = "reset" /\ batch' = Tail(batch)
      /\ channel_' = NULL /\ UNCHANGED <<running_, state_, retry_delay_, watching, timers, sock, tasks>>
      /\ UNCHANGED <<phase, active, pc, cur, clientvars, uservars, stopped>>
  BY DEF TaskReset, Runs, ResetChannel
<1>2. /\ tasks' \in Seq(TaskSet) /\ batch' \in Seq(TaskSet) /\ Head(batch) \in TaskSet
      /\ Queued = Queued' \cup {Head(batch)}
      /\ Reset <=> Reset' \/ Head(batch).kind = "reset"
      /\ ~Begins' /\ (Begins <=> Head(batch).kind = "start")
      /\ Stops <=> Stops' \/ Head(batch).kind = "stop"
      /\ InOrder(batch', sock) /\ InOrder(tasks', sock) /\ ~Has(tasks', "start")
  BY Zenon, <1>0, <1>1, TakeTask
<1>3. /\ Reset /\ ~Begins /\ (Stops' <=> Stops) /\ ~watching /\ active = {} /\ started
  BY ZenonT(40), <1>0, <1>1, <1>2 DEF StateInv, RoundInv, StartInv
<1>4. Types'
  <2>1. channel_' \in Ptrs
    BY <1>1 DEF Ptrs
  <2>2. /\ UNCHANGED <<running_, state_, retry_delay_, timers, watching, sock, retry_, connect_, connection_>>
        /\ UNCHANGED <<phase, active, pc, cur, op, arg, held, started, stopped>>
        /\ tasks' \in Seq(TaskSet) /\ batch' \in Seq(TaskSet)
    BY ZenonT(40), <1>1, <1>2
  <2> QED
    BY ONLY <1>0, <2>1, <2>2 DEF Types
<1>5. StateInv' /\ PcInv'
  BY <1>0, <1>1, <1>3 DEF StateInv, PcInv
<1>6. RoundInv'
  <2>1. Has(tasks', "reset") <=> Has(tasks, "reset")
    BY Zenon, <1>1
  <2> QED
    BY <1>0, <1>1, <1>3, <2>1 DEF RoundInv
<1>7. QueueInv'
  BY Zenon, <1>1, <1>2 DEF QueueInv
<1>8. StartInv'
  BY Zenon, <1>0, <1>1, <1>2, <1>3 DEF StartInv
<1>9. SockInv'
  <2>1. ASSUME NEW r \in Socks
        PROVE  /\ sock'[r] = "attempt" <=> (watching' /\ channel_' = r) \/ (pc' = "new" /\ cur' = r)
               /\ sock'[r] \in Open => connection_' = r
               /\ sock'[r] = "DISCONNECTING" => (pc' = "remove" /\ cur' = r) \/ Task("destroy", r) \in Queued'
    <3>1. Task("destroy", r) # Head(batch)
      BY <1>1, TaskFacts
    <3> QED
      BY ZenonT(40), <1>0, <1>1, <1>2, <1>3, <3>1 DEF SockInv
  <2>2. ASSUME NEW u \in Queued'
        PROVE  /\ u.kind = "close" => sock'[u.sock] \in ConnStates
               /\ u.kind = "destroy" => sock'[u.sock] \in {"DISCONNECTING", "DISCONNECTED"}
    BY Zenon, <1>0, <1>1, <1>2 DEF SockInv
  <2> QED
    BY Zenon, <1>0, <1>1, <2>1, <2>2 DEF SockInv
<1>10. UserInv'
  BY <1>0, <1>1 DEF UserInv
<1> QED
  BY ZenonT(40), <1>4, <1>5, <1>6, <1>7, <1>8, <1>9, <1>10 DEF Inv

(***************************************************************************)
(* StopInLoop() gives up an attempt.  Its caller has taken its task from   *)
(* the batch, or is a callback.                                            *)
(***************************************************************************)
LEMMA GiveUpKeeps ==
  ASSUME Inv, state_ = "CONNECTING", StopInLoop(tasks), pc = "idle",
         "write" \notin active, active' \in {active, active \ {"timer"}},
         stopped' = TRUE, connect_' = FALSE, running_' \in BOOLEAN,
         UNCHANGED <<phase, pc, cur, retry_, connection_, uservars>>,
         batch' \in Seq(TaskSet), InOrder(batch', sock), batch = <<>> => batch' = <<>>,
         Items(batch') \subseteq Items(batch), \A t \in Items(batch) : t.kind # "stop" => t \in Items(batch')
  PROVE  Inv'
<1> USE DEF uservars
<1>0. Types /\ StateInv /\ PcInv /\ RoundInv /\ QueueInv /\ StartInv /\ SockInv /\ UserInv
  BY Zenon DEF Inv
<1>1. watching
  BY <1>0 DEF StateInv
<1>2. /\ channel_ \in Socks /\ sock[channel_] = "attempt"
      /\ ~Reset /\ ~Begins /\ started /\ ~stopped /\ connection_ = NULL
      /\ \A s \in Socks : sock[s] \notin Open
      /\ channel_ # arg /\ channel_ \notin held
      /\ \A u \in Queued : u.kind \in {"close", "destroy"} => u.sock # channel_
  BY ZenonT(40), <1>1, AttemptFacts
<1> DEFINE t == Task("reset", NULL)
<1>3. /\ t \in TaskSet /\ t.kind = "reset" /\ tasks' = Append(tasks, t) /\ watching' = FALSE
      /\ state_' = "DISCONNECTED" /\ timers' = 0 /\ UNCHANGED <<retry_delay_, channel_>>
      /\ sock' = [sock EXCEPT ![channel_] = "lost"]
  BY TaskFacts DEF StopInLoop, RemoveAndResetChannel
<1> HIDE DEF t
<1>4. /\ sock' \in [Socks -> SockStates] /\ sock'[channel_] = "lost"
      /\ \A r \in Socks : r # channel_ => sock'[r] = sock[r]
  BY Zenon, <1>0, <1>2, <1>3, SockFacts DEF SockStates
<1>5. /\ tasks' \in Seq(TaskSet) /\ Items(tasks') = Items(tasks) \cup {t}
      /\ \A k : Has(tasks', k) <=> Has(tasks, k) \/ t.kind = k
  BY Zenon, <1>0, <1>3, AppendItems DEF Types
<1>6. /\ Queued' \subseteq Queued \cup {t}
      /\ \A u \in Queued : u.kind # "stop" => u \in Queued'
  BY Zenon, <1>5 DEF Queued
<1>7. Has(tasks', "reset") /\ Reset' /\ ~Begins' /\ ~Has(tasks', "start")
  <2>1. Has(tasks', "reset") /\ ~Has(tasks, "start") /\ ~Has(batch', "start")
    BY ZenonT(40), <1>2, <1>3, <1>5 DEF Begins, Has
  <2>2. ~Has(tasks', "start")
    BY <1>3, <1>5, <2>1
  <2> QED
    BY Zenon, <2>1, <2>2 DEF Begins, Reset
<1>8. \A u \in Queued : u.kind \in {"close", "destroy"} => u.sock \in Socks
  BY Zenon, <1>0, QueuedTypes
<1>9. Types'
  BY Zenon, <1>0, <1>3, <1>4, <1>5 DEF Types
<1>10. StateInv' /\ PcInv'
  BY Zenon, <1>0, <1>2, <1>3, <1>7 DEF StateInv, PcInv
<1>11. RoundInv'
  <2>1. \A s \in active' \cap Socks : FALSE
    BY <1>0, <1>2 DEF RoundInv, Open
  <2> QED
    BY ZenonT(40), <1>0, <1>3, <2>1 DEF RoundInv
<1>12. QueueInv'
  <2>1. \A u \in Items(tasks) : u.kind = "close" => sock[u.sock] \notin Open
    BY Zenon, <1>2, <1>8 DEF Queued
  <2>2. InOrder(tasks', sock)
    BY ZenonT(40), <1>0, <1>3, <2>1, AppendOrder DEF QueueInv, Types
  <2>3. \A u \in Queued' : u.kind = "close" => sock'[u.sock] = sock[u.sock]
    BY <1>2, <1>3, <1>4, <1>6, <1>8
  <2>4. \A u \in Items(tasks') \cup Items(batch') :
          u.kind = "close" /\ sock[u.sock] \notin Open => sock'[u.sock] \notin Open
    BY Zenon, <2>3 DEF Queued
  <2>5. InOrder(tasks', sock') /\ InOrder(batch', sock')
    BY Zenon, <2>2, <2>4, SameOrder
  <2> QED
    BY Zenon, <1>7, <2>5 DEF QueueInv
<1>13. StartInv'
  BY Zenon, <1>0, <1>2, <1>3, <1>7 DEF StartInv
<1>14. SockInv'
  <2>1. ASSUME NEW r \in Socks
        PROVE  /\ sock'[r] = "attempt" <=> (watching' /\ channel_' = r) \/ (pc' = "new" /\ cur' = r)
               /\ sock'[r] \in Open => connection_' = r
               /\ sock'[r] = "DISCONNECTING" => (pc' = "remove" /\ cur' = r) \/ Task("destroy", r) \in Queued'
    <3>1. Task("destroy", r) \in Queued => Task("destroy", r) \in Queued'
      BY Zenon, <1>6, DestroyFacts
    <3> QED
      BY Zenon, <1>0, <1>1, <1>2, <1>3, <1>4, <3>1 DEF SockInv, Open
  <2>2. ASSUME NEW u \in Queued'
        PROVE  /\ u.kind = "close" => sock'[u.sock] \in ConnStates
               /\ u.kind = "destroy" => sock'[u.sock] \in {"DISCONNECTING", "DISCONNECTED"}
    BY Zenon, <1>0, <1>2, <1>3, <1>4, <1>6, <1>8 DEF SockInv
  <2> QED
    BY Zenon, <1>2, <2>1, <2>2 DEF SockInv
<1>15. UserInv'
  BY Zenon, <1>0, <1>2, <1>4 DEF UserInv
<1> QED
  BY Zenon, <1>9, <1>10, <1>11, <1>12, <1>13, <1>14, <1>15 DEF Inv

(***************************************************************************)
(* StopInLoop() without an attempt under way.  Disconnect() may have       *)
(* queued a task that closes the connection.                               *)
(***************************************************************************)
LEMMA QuietKeeps ==
  ASSUME Inv, state_ # "CONNECTING", StopInLoop(tasks'), pc = "idle", started,
         active' \in {active, active \ {"timer"}}, active = {} \/ ~running_',
         stopped' = TRUE, connect_' = FALSE, running_' \in BOOLEAN, Begins' => ~running_',
         UNCHANGED <<phase, pc, cur, retry_, connection_, uservars>>,
         \/ UNCHANGED tasks
         \/ /\ connection_ # NULL /\ sock[connection_] = "CONNECTED"
            /\ tasks' = Append(tasks, Task("close", connection_)),
         batch' \in Seq(TaskSet), InOrder(batch', sock), batch = <<>> => batch' = <<>>,
         Items(batch') \subseteq Items(batch), \A t \in Items(batch) : t.kind # "stop" => t \in Items(batch')
  PROVE  Inv'
<1> USE DEF uservars
<1>0. Types /\ StateInv /\ PcInv /\ RoundInv /\ QueueInv /\ StartInv /\ SockInv /\ UserInv
  BY Zenon DEF Inv
<1>1. timers' = 0 /\ UNCHANGED <<state_, watching, sock, retry_delay_, channel_>>
  BY DEF StopInLoop
<1>2. \A u \in Queued : u.kind \in {"close", "destroy"} => u.sock \in Socks
  BY Zenon, <1>0, QueuedTypes
<1>3. PICK N \in SUBSET TaskSet :
        /\ \A t \in N : t.kind = "close" /\ sock[t.sock] = "CONNECTED" /\ connection_ # NULL
        /\ tasks' \in Seq(TaskSet) /\ Items(tasks') = Items(tasks) \cup N /\ InOrder(tasks', sock)
  <2>1. CASE UNCHANGED tasks
    <3>1. Items(tasks') = Items(tasks) \cup {} /\ tasks' \in Seq(TaskSet) /\ InOrder(tasks', sock)
      BY Zenon, <1>0, <2>1 DEF Types, QueueInv
    <3>2. {} \in SUBSET TaskSet /\ \A t \in {} : t.kind = "close" /\ sock[t.sock] = "CONNECTED" /\ connection_ # NULL
      BY Zenon
    <3> QED
      BY Zenon, <3>1, <3>2
  <2>2. CASE /\ connection_ # NULL /\ sock[connection_] = "CONNECTED"
             /\ tasks' = Append(tasks, Task("close", connection_))
    <3> DEFINE t == Task("close", connection_)
    <3>1. connection_ \in Socks
      BY Zenon, <1>0, <2>2 DEF Types, Ptrs
    <3>2. t \in TaskSet /\ t.kind = "close" /\ t.sock = connection_ /\ tasks' = Append(tasks, t)
      BY ZenonT(40), <2>2, <3>1, TaskFacts
    <3> HIDE DEF t
    <3>3. tasks' \in Seq(TaskSet) /\ Items(tasks') = Items(tasks) \cup {t}
      BY Zenon, <1>0, <3>2, AppendItems DEF Types
    <3>4. InOrder(tasks', sock)
      BY Zenon, <1>0, <3>2, AppendOrder DEF QueueInv, Types
    <3>5. /\ {t} \in SUBSET TaskSet
          /\ \A u \in {t} : u.kind = "close" /\ sock[u.sock] = "CONNECTED" /\ connection_ # NULL
      BY Zenon, <2>2, <3>2
    <3> QED
      BY Zenon, <3>3, <3>4, <3>5
  <2> QED
    BY Zenon, <2>1, <2>2
<1>4. /\ Queued' \subseteq Queued \cup N
      /\ \A u \in Queued : u.kind # "stop" => u \in Queued'
  BY Zenon, <1>3 DEF Queued
<1>5. \A k : k \notin {"close", "stop"} =>
        /\ Has(tasks', k) <=> Has(tasks, k)
        /\ Has(batch', k) <=> Has(batch, k)
  BY Zenon, <1>3 DEF Has
<1>6. (Reset' <=> Reset) /\ (Begins' <=> Begins) /\ (Has(tasks', "reset") <=> Has(tasks, "reset"))
      /\ (Has(tasks', "start") <=> Has(tasks, "start"))
  <2>1. "reset" \notin {"close", "stop"} /\ "start" \notin {"close", "stop"}
    BY Zenon
  <2> QED
    BY Zenon, <1>5, <2>1 DEF Reset, Begins
<1>7. Types'
  BY ZenonT(40), <1>0, <1>1, <1>3 DEF Types
<1>8. StateInv' /\ PcInv'
  BY <1>0, <1>1, <1>6 DEF StateInv, PcInv
<1>9. RoundInv'
  BY <1>0, <1>1, <1>6 DEF RoundInv
<1>10. QueueInv'
  BY Zenon, <1>0, <1>1, <1>3, <1>6 DEF QueueInv
<1>11. Begins => Fresh'
  <2>1. ASSUME Fresh PROVE N = {}
    BY Zenon, <1>3, <2>1 DEF Fresh
  <2>2. ASSUME Fresh PROVE Fresh'
    BY Zenon, <1>1, <1>4, <2>1, <2>2 DEF Fresh
  <2> QED
    BY Zenon, <1>0, <2>2 DEF StartInv
<1>12. StartInv'
  BY Zenon, <1>0, <1>1, <1>6, <1>11 DEF StartInv
<1>13. SockInv'
  <2>1. ASSUME NEW r \in Socks
        PROVE  /\ sock'[r] = "attempt" <=> (watching' /\ channel_' = r) \/ (pc' = "new" /\ cur' = r)
               /\ sock'[r] \in Open => connection_' = r
               /\ sock'[r] = "DISCONNECTING" => (pc' = "remove" /\ cur' = r) \/ Task("destroy", r) \in Queued'
    <3>1. Task("destroy", r) \in Queued => Task("destroy", r) \in Queued'
      BY Zenon, <1>4, DestroyFacts
    <3> QED
      BY Zenon, <1>0, <1>1, <3>1 DEF SockInv
  <2>2. ASSUME NEW u \in Queued'
        PROVE  /\ u.kind = "close" => sock'[u.sock] \in ConnStates
               /\ u.kind = "destroy" => sock'[u.sock] \in {"DISCONNECTING", "DISCONNECTED"}
    BY ZenonT(40), <1>0, <1>1, <1>3, <1>4 DEF SockInv, ConnStates
  <2> QED
    BY Zenon, <1>0, <1>1, <2>1, <2>2 DEF SockInv
<1>14. UserInv'
  BY <1>0, <1>1 DEF UserInv
<1> QED
  BY Zenon, <1>7, <1>8, <1>9, <1>10, <1>12, <1>13, <1>14 DEF Inv

\* Stop()'s task, and Disconnect() in the loop's thread.
LEMMA StopsKeep ==
  ASSUME Inv, TaskStop \/ (DisconnectInLoop /\ ~StopInCallback)
  PROVE  Inv'
<1> USE DEF clientvars, uservars
<1>0. Types /\ StateInv /\ PcInv /\ RoundInv /\ QueueInv /\ StartInv /\ SockInv /\ UserInv
  BY DEF Inv
<1>1. CASE TaskStop
  <2>1. /\ phase = "tasks" /\ pc = "idle" /\ batch # <<>> /\ Head(batch).kind = "stop" /\ batch' = Tail(batch)
        /\ StopInLoop(tasks) /\ stopped' = TRUE
        /\ UNCHANGED <<phase, active, running_, pc, cur, clientvars, uservars>>
    BY ZenonT(40), <1>1 DEF TaskStop, Runs
  <2>2. /\ active = {} /\ active' \in {active, active \ {"timer"}}
        /\ "write" \notin active /\ started /\ running_' \in BOOLEAN
    BY <1>0, <2>1 DEF RoundInv, StartInv, Types
  <2>3. batch \in Seq(TaskSet) /\ InOrder(batch, sock) /\ ~Has(tasks, "start")
    BY Zenon, <1>0, <2>1 DEF Types, QueueInv
  <2>4. /\ batch' \in Seq(TaskSet) /\ Items(batch) = {Head(batch)} \cup Items(batch')
        /\ \A k : Has(batch, k) <=> Head(batch).kind = k \/ Has(batch', k)
    BY Zenon, <2>1, <2>3, TailItems
  <2>5. InOrder(batch', sock) /\ ~Has(batch', "start")
    BY ZenonT(40), <2>1, <2>3, TailOrder
  <2>6. connect_' = FALSE
    <3>1. Stops
      BY Zenon, <2>1, <2>4 DEF Stops
    <3> QED
      BY <1>0, <2>1, <3>1 DEF StartInv, Types
  <2>7. /\ Items(batch') \subseteq Items(batch)
        /\ \A t \in Items(batch) : t.kind # "stop" => t \in Items(batch')
    BY Zenon, <2>1, <2>4
  <2>8. CASE state_ = "CONNECTING"
    BY Zenon, <2>1, <2>2, <2>4, <2>5, <2>6, <2>7, <2>8, GiveUpKeeps
  <2>9. CASE state_ # "CONNECTING"
    <3>1. tasks' = tasks /\ StopInLoop(tasks')
      BY <2>1, <2>9 DEF StopInLoop
    <3>2. ~Begins'
      BY Zenon, <2>3, <2>5, <3>1 DEF Begins
    <3> QED
      BY Zenon, <2>1, <2>2, <2>4, <2>5, <2>6, <2>7, <2>9, <3>1, <3>2, QuietKeeps
  <2> QED
    BY Zenon, <2>8, <2>9
<1>2. CASE DisconnectInLoop /\ ~StopInCallback
  <2>1. /\ pc = "idle" /\ started /\ "write" \notin active
        /\ connect_' = FALSE /\ running_' = FALSE /\ stopped' = TRUE
        /\ active' \in {active, active \ {"timer"}}
        /\ UNCHANGED <<retry_, connection_, phase, batch, pc, cur, uservars>>
    BY <1>2 DEF DisconnectInLoop
  <2>2. \/ /\ connection_ # NULL /\ sock[connection_] = "CONNECTED"
           /\ StopInLoop(Append(tasks, Task("close", connection_)))
        \/ StopInLoop(tasks)
    BY Zenon, <1>2 DEF DisconnectInLoop
  <2>3. batch' \in Seq(TaskSet) /\ InOrder(batch', sock)
    BY Zenon, <1>0, <2>1 DEF Types, QueueInv
  <2>4. running_' \in BOOLEAN /\ ~running_'
    BY Zenon, <2>1
  <2>5. CASE state_ = "CONNECTING"
    <3>1. StopInLoop(tasks)
      BY <1>0, <2>2, <2>5 DEF StateInv
    <3> QED
      BY Zenon, <2>1, <2>3, <2>4, <2>5, <3>1, GiveUpKeeps
  <2>6. CASE state_ # "CONNECTING"
    <3>1. /\ StopInLoop(tasks')
          /\ \/ UNCHANGED tasks
             \/ /\ connection_ # NULL /\ sock[connection_] = "CONNECTED"
                /\ tasks' = Append(tasks, Task("close", connection_))
      BY Zenon, <2>2, <2>6 DEF StopInLoop
    <3> QED
      BY Zenon, <2>1, <2>3, <2>4, <2>6, <3>1, QuietKeeps
  <2> QED
    BY Zenon, <2>5, <2>6
<1> QED
  BY Zenon, <1>1, <1>2

-----------------------------------------------------------------------------
(* Every state *)

\* Inv holds at first.
LEMMA InvInit == Init => Inv
<1> SUFFICES ASSUME Init PROVE Inv
  OBVIOUS
<1>1. /\ running_ = FALSE /\ state_ = "DISCONNECTED" /\ retry_delay_ = InitDelay
      /\ channel_ = NULL /\ watching = FALSE /\ timers = 0
      /\ sock = [s \in Socks |-> "closed"] /\ tasks = <<>>
      /\ retry_ = FALSE /\ connect_ = FALSE /\ connection_ = NULL
      /\ phase = "tasks" /\ active = {} /\ batch = <<>> /\ pc = "idle" /\ cur = NULL
      /\ op = "none" /\ arg = NULL /\ held = {} /\ started = FALSE /\ stopped = FALSE
  BY DEF Init, ConnectorInit
<1>2. Items(<<>>) = {} /\ (\A k : ~Has(<<>>, k)) /\ InOrder(<<>>, sock)
  BY Zenon, NoItems
<1>3. Queued = {} /\ ~Reset /\ ~Begins /\ ~Stops
  BY <1>1, <1>2 DEF Queued, Reset, Begins, Stops
<1>4. sock \in [Socks -> SockStates] /\ \A s \in Socks : sock[s] = "closed"
  BY Zenon, <1>1 DEF SockStates
<1>5. Types
  <2>1. retry_delay_ \in InitDelay..MaxDelay
    BY <1>1, DelayAssumption
  <2>2. tasks \in Seq(TaskSet) /\ batch \in Seq(TaskSet)
    BY <1>1
  <2> QED
    BY Zenon, <1>1, <1>4, <2>1, <2>2 DEF Types, Ptrs
<1>6. StateInv /\ PcInv /\ RoundInv
  BY <1>1, <1>2, <1>3 DEF StateInv, PcInv, RoundInv
<1>7. QueueInv
  BY Zenon, <1>1, <1>2 DEF QueueInv
<1>8. StartInv
  BY Zenon, <1>1, <1>3, <1>4 DEF StartInv, Fresh
<1>9. SockInv
  BY Zenon, <1>1, <1>3, <1>4 DEF SockInv, Open
<1>10. UserInv
  BY <1>1, SockAssumption DEF UserInv
<1> QED
  BY Zenon, <1>5, <1>6, <1>7, <1>8, <1>9, <1>10 DEF Inv

\* Every step keeps it.
LEMMA InvStep ==
  ASSUME ~StopInCallback, Inv, [Next]_vars
  PROVE  Inv'
<1>1. CASE LoopStep
  BY Zenon, <1>1, PollKeeps, SwapKeeps, EventsKeep, StartsKeep, NewKeeps, RemoveKeeps, ClosesKeep, StopsKeep,
     ResetKeeps DEF LoopStep
<1>2. CASE UserStep
  BY Zenon, <1>2, CallsKeep, QueuingKeeps DEF UserStep
<1>3. CASE \/ EnableRetry \/ ClientConnect \/ ClientConnectInLoop \/ Disconnect \/ DisconnectInLoop \/ Hold
           \/ (\E s \in Socks : ForceClose(s) \/ Release(s)) \/ UNCHANGED vars
  BY Zenon, <1>3, CallsKeep, ConnectKeeps, StopsKeep
<1> QED
  BY Zenon, <1>1, <1>2, <1>3 DEF Next

\* Inv holds in every state.
LEMMA InvHolds == ASSUME ~StopInCallback PROVE Spec => []Inv
<1>1. Inv /\ [Next]_vars => Inv'
  BY InvStep
<1> QED
  BY <1>1, InvInit, PTL DEF Spec

(***************************************************************************)
(* The assertions of TCPConnector and TCPClient never fail: an attempt     *)
(* starts from DISCONNECTED with the old channel reset, HandleWrite()      *)
(* finds CONNECTING, RemoveConnection() is called for the connection the   *)
(* client has; and at most one retry timer is set.                         *)
(***************************************************************************)
THEOREM AssertsAlwaysHold == ASSUME ~StopInCallback PROVE Spec => []AssertsHold
<1>1. Inv => AssertsHold
  <2> SUFFICES ASSUME Inv PROVE AssertsHold
    OBVIOUS
  <2>0. Types /\ StateInv /\ PcInv /\ RoundInv /\ QueueInv /\ StartInv
    BY DEF Inv
  <2>1. ASSUME batch # <<>>, Head(batch).kind = "start" PROVE state_ = "DISCONNECTED" /\ ~Reset
    <3>1. batch \in Seq(TaskSet)
      BY Zenon, <2>0 DEF Types
    <3>2. Has(batch, "start")
      BY Zenon, <2>1, <3>1, TailItems
    <3>3. Fresh
      BY Zenon, <2>0, <3>2 DEF Begins, StartInv
    <3>4. \A t \in Queued : t.kind # "reset"
      BY Zenon, <3>3 DEF Fresh
    <3> QED
      BY Zenon, <3>3, <3>4 DEF Fresh, Reset, Has, Queued
  <2>2. Starts => state_ = "DISCONNECTED" /\ ~Reset
    BY <2>0, <2>1 DEF Starts, PcInv, RoundInv, StateInv
  <2>3. Starts => channel_ = NULL
    BY Zenon, <2>0, <2>2 DEF StateInv
  <2> QED
    BY <2>0, <2>2, <2>3 DEF AssertsHold, PcInv, RoundInv, StateInv, Types
<1> QED
  BY <1>1, InvHolds, PTL

(***************************************************************************)
(* Every descriptor has one owner, through any number of attempts, closes  *)
(* and reconnects.                                                         *)
(***************************************************************************)
THEOREM SocketsStayOwned == ASSUME ~StopInCallback PROVE Spec => []SocketsOwned
<1>1. Inv => SocketsOwned
  <2> SUFFICES ASSUME Inv, NEW s \in Socks
               PROVE  /\ sock[s] = "attempt" <=>
                           (state_ = "CONNECTING" /\ watching /\ channel_ = s) \/ (pc = "new" /\ cur = s)
                      /\ sock[s] \in {"CONNECTING", "CONNECTED"} => connection_ = s
                      /\ sock[s] = "DISCONNECTING" => s \in Alive
    BY Zenon DEF SocketsOwned
  <2>0. StateInv /\ SockInv
    BY ZenonT(40) DEF Inv
  <2>1. /\ sock[s] = "attempt" <=>
             (state_ = "CONNECTING" /\ watching /\ channel_ = s) \/ (pc = "new" /\ cur = s)
        /\ sock[s] \in {"CONNECTING", "CONNECTED"} => connection_ = s
    BY <2>0 DEF SockInv, StateInv, Open
  <2>2. ASSUME sock[s] = "DISCONNECTING" PROVE s \in Alive
    <3>1. cur = s \/ Task("destroy", s) \in Queued
      BY Zenon, <2>0, <2>2 DEF SockInv
    <3>2. Task("destroy", s).sock = s /\ s # NULL
      BY Zenon, TaskFacts, SockAssumption
    <3> QED
      BY Zenon, <3>1, <3>2 DEF Alive
  <2> QED
    BY <2>1, <2>2
<1> QED
  BY <1>1, InvHolds, PTL

(***************************************************************************)
(* After StopInLoop() no attempt is under way and no retry timer is set,   *)
(* although Restart() may set running_ again.                              *)
(***************************************************************************)
THEOREM StopStaysQuiet == ASSUME ~StopInCallback PROVE Spec => []StoppedQuiet
<1>1. Inv => StoppedQuiet
  BY Zenon DEF Inv, StartInv, StoppedQuiet
<1> QED
  BY <1>1, InvHolds, PTL

(***************************************************************************)
(* A client that is to connect always has an attempt, a retry timer or,    *)
(* with EnableRetry(), a connection, and the back-off keeps its limits.    *)
(***************************************************************************)
THEOREM ClientKeepsTrying == ASSUME ~StopInCallback PROVE Spec => []KeepsTrying
<1>1. Inv => KeepsTrying
  <2> SUFFICES ASSUME Inv PROVE KeepsTrying
    OBVIOUS
  <2>0. Types /\ StartInv
    BY DEF Inv
  <2>1. ASSUME Begins PROVE Task("start", NULL) \in Queued
    <3>1. PICK t \in Queued : t.kind = "start"
      BY Zenon, <2>1 DEF Begins, Has, Queued
    <3>2. t \in TaskSet
      BY Zenon, <2>0, QueuedTypes
    <3>3. t = Task("start", NULL)
      BY <3>1, <3>2, TaskFacts
    <3> QED
      BY <3>3
  <2> QED
    BY <2>0, <2>1 DEF KeepsTrying, Types, StartInv
<1> QED
  BY <1>1, InvHolds, PTL
=============================================================================
