-------------------------- MODULE TcpServerProofs --------------------------
(***************************************************************************)
(* Proofs about TcpServer.tla, for any number of loops, connections and    *)
(* descriptors, whether or not Stop() is called in use.                    *)
(***************************************************************************)
EXTENDS TcpServer, TLAPS

-----------------------------------------------------------------------------
(* The task queues *)

Kinds == {"established", "close", "remove", "destroy"}
TaskSet == [kind : Kinds, conn : Conns]
Queues == [Loops -> Seq(TaskSet)]

\* The loops whose queue has task t.
Holders(q, t) == {l \in Loops : \E i \in DOMAIN q[l] : q[l][i] = t}

\* No task is queued twice in a loop, except that ForceClose() may be repeated.
Single(s) == \A i, j \in DOMAIN s : s[i] = s[j] /\ s[i].kind # "close" => i = j
Singles(q) == \A l \in Loops : Single(q[l])

\* A task is known by its kind and its connection.
LEMMA TaskFacts ==
  /\ \A k \in Kinds, c \in Conns :
       Task(k, c) \in TaskSet /\ Task(k, c).kind = k /\ Task(k, c).conn = c
  /\ \A t \in TaskSet : t.kind \in Kinds /\ t.conn \in Conns /\ t = Task(t.kind, t.conn)
  /\ \A k, j \in Kinds, c, d \in Conns : Task(k, c) = Task(j, d) => k = j /\ c = d
BY DEF Task, TaskSet

\* The task of ConnectionDestroy() is of one kind, and for one connection.
LEMMA DestroyTask ==
  \A k \in Kinds, c, d \in Conns : Task(k, d) = Task("destroy", c) <=> k = "destroy" /\ c = d
BY TaskFacts DEF Kinds

\* What a sequence holds after Append.
LEMMA AppendFacts ==
  ASSUME NEW s \in Seq(TaskSet), NEW t \in TaskSet
  PROVE  /\ Append(s, t) \in Seq(TaskSet)
         /\ \A u : (\E i \in DOMAIN Append(s, t) : Append(s, t)[i] = u)
                     <=> u = t \/ \E i \in DOMAIN s : s[i] = u
         /\ Single(s) /\ (t.kind = "close" \/ ~ \E i \in DOMAIN s : s[i] = t)
              => Single(Append(s, t))
<1>1. /\ Len(Append(s, t)) = Len(s) + 1 /\ Append(s, t) \in Seq(TaskSet)
      /\ \A i \in 1 .. Len(s) : Append(s, t)[i] = s[i]
      /\ Append(s, t)[Len(s) + 1] = t
  OBVIOUS
<1>2. /\ DOMAIN s = 1 .. Len(s) /\ Len(s) \in Nat
      /\ DOMAIN Append(s, t) = 1 .. Len(s) + 1
  BY <1>1
<1>3. ASSUME NEW u
      PROVE  (\E i \in DOMAIN Append(s, t) : Append(s, t)[i] = u)
               <=> u = t \/ \E i \in DOMAIN s : s[i] = u
  <2>1. \A i \in DOMAIN s : i \in DOMAIN Append(s, t) /\ Append(s, t)[i] = s[i]
    BY <1>1, <1>2
  <2>2. Len(s) + 1 \in DOMAIN Append(s, t)
    BY <1>2
  <2>3. \A i \in DOMAIN Append(s, t) : i \in DOMAIN s \/ i = Len(s) + 1
    BY <1>2
  <2> QED
    BY <1>1, <2>1, <2>2, <2>3
<1>4. ASSUME Single(s), t.kind = "close" \/ ~ \E i \in DOMAIN s : s[i] = t
      PROVE  Single(Append(s, t))
  <2> SUFFICES ASSUME NEW i \in DOMAIN Append(s, t), NEW j \in DOMAIN Append(s, t),
                      Append(s, t)[i] = Append(s, t)[j], Append(s, t)[i].kind # "close"
               PROVE  i = j
    BY DEF Single
  <2>1. (i \in DOMAIN s \/ i = Len(s) + 1) /\ (j \in DOMAIN s \/ j = Len(s) + 1)
    BY <1>2
  <2>2. \A n \in DOMAIN s : Append(s, t)[n] = s[n]
    BY <1>1, <1>2
  <2> QED
    BY <1>1, <1>4, <2>1, <2>2 DEF Single
<1> QED
  BY <1>1, <1>3, <1>4

\* What a sequence holds without its head.
LEMMA TailFacts ==
  ASSUME NEW s \in Seq(TaskSet), s # <<>>
  PROVE  /\ Head(s) \in TaskSet /\ Tail(s) \in Seq(TaskSet)
         /\ \E i \in DOMAIN s : s[i] = Head(s)
         /\ \A u : (\E i \in DOMAIN Tail(s) : Tail(s)[i] = u) => \E i \in DOMAIN s : s[i] = u
         /\ \A u : u # Head(s) /\ (\E i \in DOMAIN s : s[i] = u)
                     => \E i \in DOMAIN Tail(s) : Tail(s)[i] = u
         /\ Single(s) => Single(Tail(s))
         /\ Single(s) /\ Head(s).kind # "close"
              => ~ \E i \in DOMAIN Tail(s) : Tail(s)[i] = Head(s)
<1>1. /\ Head(s) = s[1] /\ Tail(s) \in Seq(TaskSet) /\ Len(Tail(s)) = Len(s) - 1
      /\ \A i \in 1 .. Len(Tail(s)) : Tail(s)[i] = s[i + 1]
      /\ Head(s) \in TaskSet
  OBVIOUS
<1>2. /\ DOMAIN s = 1 .. Len(s) /\ Len(s) \in Nat /\ Len(s) # 0
      /\ DOMAIN Tail(s) = 1 .. Len(s) - 1
  BY <1>1
<1>3. 1 \in DOMAIN s
  BY <1>2
<1>4. \A i \in DOMAIN Tail(s) : i + 1 \in DOMAIN s /\ Tail(s)[i] = s[i + 1] /\ i + 1 # 1
  BY <1>1, <1>2
<1>5. \A i \in DOMAIN s : i # 1 => i - 1 \in DOMAIN Tail(s) /\ Tail(s)[i - 1] = s[i]
  BY <1>1, <1>2
<1>6. ASSUME Single(s) PROVE Single(Tail(s))
  <2> SUFFICES ASSUME NEW i \in DOMAIN Tail(s), NEW j \in DOMAIN Tail(s),
                      Tail(s)[i] = Tail(s)[j], Tail(s)[i].kind # "close"
               PROVE  i = j
    BY DEF Single
  <2>1. i + 1 = j + 1
    BY <1>4, <1>6 DEF Single
  <2> QED
    BY <1>2, <2>1
<1>7. ASSUME Single(s), Head(s).kind # "close", NEW i \in DOMAIN Tail(s), Tail(s)[i] = Head(s)
      PROVE  FALSE
  BY <1>1, <1>3, <1>4, <1>7 DEF Single
<1> QED
  BY ZenonT(40), <1>1, <1>3, <1>4, <1>5, <1>6, <1>7

\* A task is put into the queue of loop l; the first is taken from it.
Put(q, l, t) == [q EXCEPT ![l] = Append(@, t)]
Take(q, l) == [q EXCEPT ![l] = Tail(@)]

\* Where the tasks are after Put.
LEMMA PutFacts ==
  ASSUME NEW q \in Queues, NEW l \in Loops, NEW t \in TaskSet
  PROVE  /\ Put(q, l, t) \in Queues
         /\ Holders(Put(q, l, t), t) = Holders(q, t) \cup {l}
         /\ \A u : u # t => Holders(Put(q, l, t), u) = Holders(q, u)
         /\ Singles(q) /\ (t.kind = "close" \/ l \notin Holders(q, t)) => Singles(Put(q, l, t))
<1> DEFINE p == Put(q, l, t)
<1>0. p = [q EXCEPT ![l] = Append(@, t)]
  BY DEF Put
<1> HIDE DEF p
<1>1. /\ \A m \in Loops : q[m] \in Seq(TaskSet)
      /\ p[l] = Append(q[l], t) /\ \A m \in Loops : m # l => p[m] = q[m]
  BY <1>0 DEF Queues
<1>2. /\ Append(q[l], t) \in Seq(TaskSet)
      /\ \A u : (\E i \in DOMAIN Append(q[l], t) : Append(q[l], t)[i] = u)
                  <=> u = t \/ \E i \in DOMAIN q[l] : q[l][i] = u
      /\ Single(q[l]) /\ (t.kind = "close" \/ ~ \E i \in DOMAIN q[l] : q[l][i] = t)
           => Single(Append(q[l], t))
  BY <1>1, AppendFacts
<1>3. p \in Queues
  BY <1>0, <1>2 DEF Queues
<1>4. \A u, m : m \in Holders(p, u) <=> m \in Holders(q, u) \/ (m = l /\ u = t)
  BY ZenonT(40), <1>1, <1>2 DEF Holders
<1>5. Singles(q) /\ (t.kind = "close" \/ l \notin Holders(q, t)) => Singles(p)
  BY Zenon, <1>1, <1>2 DEF Singles, Holders
<1>6. Holders(p, t) = Holders(q, t) \cup {l}
  BY <1>4
<1>7. ASSUME NEW u, u # t PROVE Holders(p, u) = Holders(q, u)
  <2>1. Holders(p, u) \subseteq Holders(q, u) /\ Holders(q, u) \subseteq Holders(p, u)
    BY ONLY <1>4, <1>7
  <2> QED
    BY ONLY Zenon, <2>1
<1> QED
  BY <1>3, <1>5, <1>6, <1>7 DEF p

\* Where the tasks are after Take, and where the first one was.
LEMMA TakeFacts ==
  ASSUME NEW q \in Queues, NEW l \in Loops, q[l] # <<>>
  PROVE  /\ Take(q, l) \in Queues /\ Head(q[l]) \in TaskSet /\ l \in Holders(q, Head(q[l]))
         /\ \A u : Holders(Take(q, l), u) \subseteq Holders(q, u)
         /\ \A u : u # Head(q[l]) => Holders(Take(q, l), u) = Holders(q, u)
         /\ Singles(q) => Singles(Take(q, l))
         /\ Singles(q) /\ Head(q[l]).kind # "close"
              => Holders(Take(q, l), Head(q[l])) = Holders(q, Head(q[l])) \ {l}
<1> DEFINE p == Take(q, l)
           t == Head(q[l])
<1>0. p = [q EXCEPT ![l] = Tail(@)]
  BY DEF Take
<1>00. t = Head(q[l])
  OBVIOUS
<1> HIDE DEF p, t
<1>1. /\ \A m \in Loops : q[m] \in Seq(TaskSet)
      /\ p[l] = Tail(q[l]) /\ \A m \in Loops : m # l => p[m] = q[m]
  BY <1>0 DEF Queues
<1>2. /\ t \in TaskSet /\ Tail(q[l]) \in Seq(TaskSet)
      /\ \E i \in DOMAIN q[l] : q[l][i] = t
      /\ \A u : (\E i \in DOMAIN Tail(q[l]) : Tail(q[l])[i] = u) => \E i \in DOMAIN q[l] : q[l][i] = u
      /\ \A u : u # t /\ (\E i \in DOMAIN q[l] : q[l][i] = u)
                  => \E i \in DOMAIN Tail(q[l]) : Tail(q[l])[i] = u
      /\ Single(q[l]) => Single(Tail(q[l]))
      /\ Single(q[l]) /\ t.kind # "close"
           => ~ \E i \in DOMAIN Tail(q[l]) : Tail(q[l])[i] = t
  BY Zenon, <1>1, <1>00, TailFacts
<1>3. p \in Queues
  BY <1>0, <1>2 DEF Queues
<1>4. l \in Holders(q, t)
  BY <1>2 DEF Holders
<1>5. \A u, m : m \in Holders(p, u) => m \in Holders(q, u)
  BY ZenonT(40), <1>1, <1>2 DEF Holders
<1>6. ASSUME NEW u, NEW m, u # t, m \in Holders(q, u) PROVE m \in Holders(p, u)
  <2>1. CASE m = l
    <3>1. \E i \in DOMAIN q[l] : q[l][i] = u
      BY ONLY <1>6, <2>1 DEF Holders
    <3>2. \E i \in DOMAIN Tail(q[l]) : Tail(q[l])[i] = u
      BY ONLY Zenon, <1>2, <1>6, <3>1
    <3> QED
      BY Zenon, <1>1, <2>1, <3>2 DEF Holders
  <2>2. CASE m # l
    BY ONLY <1>1, <1>6, <2>2 DEF Holders
  <2> QED
    BY <2>1, <2>2
<1>7. Singles(q) => Singles(p)
  BY <1>1, <1>2 DEF Singles
<1>8. Singles(q) /\ t.kind # "close" => l \notin Holders(p, t)
  BY Zenon, <1>1, <1>2 DEF Singles, Holders
<1>9. \A m : m # l /\ m \in Holders(q, t) => m \in Holders(p, t)
  BY <1>1 DEF Holders
<1>10. ASSUME NEW u, u # t PROVE Holders(p, u) = Holders(q, u)
  <2>1. Holders(p, u) \subseteq Holders(q, u) /\ Holders(q, u) \subseteq Holders(p, u)
    BY ONLY <1>5, <1>6, <1>10
  <2> QED
    BY ONLY <2>1
<1>11. Singles(q) /\ t.kind # "close" => Holders(p, t) = Holders(q, t) \ {l}
  BY <1>5, <1>8, <1>9
<1> QED
  BY Zenon, <1>2, <1>3, <1>4, <1>5, <1>7, <1>10, <1>11 DEF p, t

-----------------------------------------------------------------------------
(* The invariant *)

ConnStates == {"none", "CONNECTING", "CONNECTED", "DISCONNECTING", "DISCONNECTED"}

\* The loops in whose queue a task for c waits.
At(k, c) == Holders(queue, Task(k, c))

Types ==
  /\ state_ \in [Conns -> ConnStates] /\ fd_ \in [Conns -> Fds \cup {-1}]
  /\ owner_loop_ \in [Conns -> Loops] /\ listening \in [Conns -> BOOLEAN]
  /\ downs \in [Conns -> {0, 1}] /\ held \in SUBSET Conns
  /\ queue \in Queues /\ (running_ => Singles(queue))
  /\ backlog \subseteq {c \in Conns : state_[c] = "none"}

(***************************************************************************)
(* The pool: its loops, and that connections exist and tasks are run only  *)
(* once Start() and until Stop().                                          *)
(***************************************************************************)
PoolInv ==
  /\ stage \in {"new", "serving", "stopped", "gone"}
  /\ running_ \in BOOLEAN /\ stopping \in BOOLEAN
  /\ running_ <=> stage = "serving"
  /\ stopping => running_
  /\ thread_nums_ \in 0..MaxThreads /\ next_ \in Nat
  /\ loops_ \subseteq 0..(MaxThreads - 1) /\ alive \subseteq loops_
  /\ running_ => loops_ = 0..(thread_nums_ - 1)
  /\ alive # {} => running_
  /\ stage = "new" => \A c \in Conns : state_[c] = "none"

\* The list is indexed by descriptor.
ListInv ==
  /\ tcp_conn_list_ \in [Fds -> Conns \cup {NULL}]
  /\ \A f \in Fds : tcp_conn_list_[f] # NULL => fd_[tcp_conn_list_[f]] = f

(***************************************************************************)
(* Where a connection is, by its state: which tasks of it are queued, and  *)
(* in which loop; whether it is listed; how often it went down.            *)
(***************************************************************************)
ConnInv(c) ==
  /\ listening[c] <=> state_[c] = "CONNECTED"
  /\ state_[c] \in {"none", "CONNECTING", "CONNECTED"} => downs[c] = 0
  /\ state_[c] = "none" => c \notin Listed /\ c \notin held /\ \A k \in Kinds : At(k, c) = {}
  /\ state_[c] # "none" =>
       /\ fd_[c] \in Fds
       /\ IF loops_ = {} THEN owner_loop_[c] = Base ELSE owner_loop_[c] \in loops_
  /\ state_[c] \in {"CONNECTING", "DISCONNECTING"} => owner_loop_[c] # Base
  /\ c \in held => state_[c] # "CONNECTING"
  /\ At("close", c) # {} => state_[c] # "CONNECTING" /\ At("close", c) = {owner_loop_[c]}
  /\ At("established", c) = IF state_[c] = "CONNECTING" THEN {owner_loop_[c]} ELSE {}
  /\ At("remove", c) # {} =>
       At("remove", c) = {Base} /\ state_[c] = "DISCONNECTING" /\ (running_ => c \in Listed)
  /\ At("destroy", c) # {} =>
       /\ At("destroy", c) = {owner_loop_[c]} /\ owner_loop_[c] # Base
       /\ running_ => state_[c] = "DISCONNECTING" /\ c \notin Listed
  /\ state_[c] = "DISCONNECTING" => At("remove", c) # {} \/ At("destroy", c) # {}
  /\ state_[c] \in {"CONNECTING", "CONNECTED"} /\ stage # "gone" => c \in Listed
  /\ state_[c] = "CONNECTED" /\ ~running_ => At("destroy", c) # {}

ConnsInv == \A c \in Conns : ConnInv(c)

Inv == Types /\ ListInv /\ ConnsInv

\* A connection of which nothing changed but that a "close" task was taken.
LEMMA OtherConn ==
  ASSUME NEW d \in Conns, ConnInv(d), UNCHANGED <<loops_, running_, stage>>,
         state_'[d] = state_[d], listening'[d] = listening[d], downs'[d] = downs[d],
         fd_'[d] = fd_[d], owner_loop_'[d] = owner_loop_[d],
         d \in Listed' <=> d \in Listed, d \in held' <=> d \in held,
         At("close", d)' \subseteq At("close", d),
         \A k \in Kinds : k # "close" => At(k, d)' = At(k, d)
  PROVE  ConnInv(d)'
<1>1. /\ At("established", d)' = At("established", d) /\ At("remove", d)' = At("remove", d)
      /\ At("destroy", d)' = At("destroy", d)
  BY Zenon DEF Kinds
<1>2. At("close", d)' = At("close", d) \/ At("close", d)' = {}
  BY Zenon DEF ConnInv
<1> QED
  BY <1>1, <1>2 DEF ConnInv, Kinds

-----------------------------------------------------------------------------
(* The pool and the list *)

\* The base loop is none of the pool's.
LEMMA LoopFacts == Base \in Loops /\ \A l \in 0..(MaxThreads - 1) : l \in Loops /\ l # Base
BY PoolAssumption DEF Base, Loops

\* No action but Start, Stop and OnNewConnection bears on PoolInv.
LEMMA PoolHolds == Spec => []PoolInv
<1>1. Init => PoolInv
  <2> SUFFICES ASSUME Init PROVE PoolInv
    OBVIOUS
  <2>1. /\ stage = "new" /\ running_ = FALSE /\ stopping = FALSE /\ thread_nums_ = 0
        /\ next_ = 0 /\ loops_ = {} /\ alive = {}
    BY DEF Init, PoolInit
  <2>2. \A c \in Conns : state_[c] = "none"
    BY DEF Init
  <2>3. thread_nums_ \in 0..MaxThreads /\ next_ \in Nat
    BY <2>1, PoolAssumption
  <2> QED
    BY ONLY Zenon, <2>1, <2>2, <2>3 DEF PoolInv
<1>2. PoolInv /\ [Next]_vars => PoolInv'
  <2> SUFFICES ASSUME PoolInv, [Next]_vars PROVE PoolInv'
    OBVIOUS
  <2> USE DEF poolvars, servervars, connvars
  <2>0. ASSUME UNCHANGED poolvars, UNCHANGED stage, running_ \/ UNCHANGED state_ PROVE PoolInv'
    BY <2>0 DEF PoolInv
  <2>1. ASSUME NEW n \in 0..MaxThreads, SetEventLoopNums(n) PROVE PoolInv'
    BY <2>1 DEF SetEventLoopNums, SetThreadNums, PoolInv
  <2>2. CASE Start
    <3>1. loops_' = 0..(thread_nums_ - 1) /\ alive' = loops_' /\ running_' = TRUE
          /\ stage' = "serving" /\ UNCHANGED <<thread_nums_, next_, stopping>>
      BY <2>2 DEF Start, PoolStart
    <3>2. loops_' \subseteq 0..(MaxThreads - 1)
      BY <3>1, PoolAssumption DEF PoolInv
    <3> QED
      BY <3>1, <3>2 DEF PoolInv
  <2>3. CASE OtherThreads \/ AcceptorStep \/ \E c \in Conns : NewClient(c)
    BY Zenon, <2>0, <2>3 DEF OtherThreads, AcceptorStep, NewClient
  <2>4. ASSUME NEW c \in Conns, NEW f \in Fds, OnNewConnection(c, f) PROVE PoolInv'
    <3>1. /\ running_ /\ UNCHANGED <<running_, stopping, thread_nums_, loops_, alive, stage>>
          /\ next_' = next_ \/ next_' = next_ + 1
      BY Zenon, <2>4 DEF OnNewConnection, Serving, GetNextEventLoop
    <3> QED
      BY <3>1 DEF PoolInv
  <2>5. ASSUME NEW c \in Conns, CloseEvent(c) \/ Keep(c) \/ Release(c) \/ ForceClose(c)
        PROVE  PoolInv'
    <3>1. running_ \/ UNCHANGED state_
      BY Zenon, <2>5 DEF CloseEvent, Runs, Serving, Keep, Release, ForceClose, PoolInv
    <3> QED
      BY Zenon, <2>0, <2>5, <3>1 DEF CloseEvent, Keep, Release, ForceClose
  <2>6. ASSUME NEW l \in Loops, RunTask(l) PROVE PoolInv'
    BY Zenon, <2>0, <2>6 DEF RunTask, Runs, Serving, PoolInv
  <2>7. CASE Stop
    BY <2>7 DEF Stop, PoolStop, PoolInv
  <2>8. ASSUME NEW l \in alive, LoopExit(l) PROVE PoolInv'
    BY <2>8 DEF LoopExit, StopLoop, PoolInv
  <2>9. CASE StopConnections
    BY Zenon, <2>9 DEF StopConnections, PoolStopReturn, PoolInv
  <2>10. CASE DestroyServer
    BY <2>10 DEF DestroyServer, PoolInv
  <2>11. CASE UNCHANGED vars
    BY <2>0, <2>11 DEF vars
  <2> QED
    BY <2>1, <2>2, <2>3, <2>4, <2>5, <2>6, <2>7, <2>8, <2>9, <2>10, <2>11 DEF Next
<1> QED
  BY <1>1, <1>2, PTL DEF Spec

\* A connection that is listed is in the slot of its descriptor.
LEMMA ListedFacts ==
  ASSUME ListInv
  PROVE  /\ Listed \subseteq Conns
         /\ \A c \in Listed : fd_[c] \in Fds /\ tcp_conn_list_[fd_[c]] = c
         /\ \A f \in Fds : tcp_conn_list_[f] # NULL => tcp_conn_list_[f] \in Listed
BY NullAssumption DEF Listed, ListInv

\* AddConnListItem() finds the slot of the new descriptor empty.
LEMMA AddFacts ==
  ASSUME ListInv, NEW c \in Conns, NEW f \in Fds, c \notin Listed, tcp_conn_list_[f] = NULL,
         fd_ \in [Conns -> Fds \cup {-1}], fd_' = [fd_ EXCEPT ![c] = f],
         AddConnListItem(c, f)
  PROVE  ListInv' /\ Listed' = Listed \cup {c}
<1>1. /\ tcp_conn_list_ \in [Fds -> Conns \cup {NULL}]
      /\ tcp_conn_list_' = [tcp_conn_list_ EXCEPT ![f] = c]
      /\ tcp_conn_list_'[f] = c /\ \A g \in Fds : g # f => tcp_conn_list_'[g] = tcp_conn_list_[g]
  BY DEF AddConnListItem, ListInv
<1>2. Listed' = Listed \cup {c}
  BY <1>1, NullAssumption DEF Listed
<1>3. tcp_conn_list_' \in [Fds -> Conns \cup {NULL}]
  BY <1>1
<1>4. ASSUME NEW g \in Fds, tcp_conn_list_'[g] # NULL PROVE fd_'[tcp_conn_list_'[g]] = g
  <2>1. CASE g = f
    BY <1>1, <2>1
  <2>2. CASE g # f
    <3>1. tcp_conn_list_[g] \in Listed /\ tcp_conn_list_[g] # c
      BY <1>1, <1>4, <2>2 DEF Listed
    <3>2. tcp_conn_list_[g] \in Conns /\ fd_[tcp_conn_list_[g]] = g
      BY <1>1, <1>4, <2>2 DEF ListInv
    <3> QED
      BY <1>1, <2>2, <3>1, <3>2
  <2> QED
    BY <2>1, <2>2
<1> QED
  BY <1>2, <1>3, <1>4 DEF ListInv

\* DelConnListItem() drops the connection itself.
LEMMA DelFacts ==
  ASSUME ListInv, NEW c \in Listed, UNCHANGED fd_, DelConnListItem(c)
  PROVE  ListInv' /\ Listed' = Listed \ {c}
<1>0. fd_[c] \in Fds /\ tcp_conn_list_[fd_[c]] = c
  BY ListedFacts
<1>1. /\ tcp_conn_list_ \in [Fds -> Conns \cup {NULL}]
      /\ tcp_conn_list_' = [tcp_conn_list_ EXCEPT ![fd_[c]] = NULL]
      /\ tcp_conn_list_'[fd_[c]] = NULL
      /\ \A g \in Fds : g # fd_[c] => tcp_conn_list_'[g] = tcp_conn_list_[g]
  BY <1>0 DEF DelConnListItem, ListInv
<1>2. \A g \in Fds : tcp_conn_list_[g] = c => g = fd_[c]
  BY <1>1, NullAssumption DEF ListInv, Listed
<1>3. Listed' = Listed \ {c}
  BY <1>0, <1>1, <1>2 DEF Listed
<1>4. tcp_conn_list_' \in [Fds -> Conns \cup {NULL}]
  BY Zenon, <1>1
<1>5. \A g \in Fds : tcp_conn_list_'[g] # NULL => fd_'[tcp_conn_list_'[g]] = g
  BY <1>1 DEF ListInv
<1> QED
  BY <1>3, <1>4, <1>5 DEF ListInv

-----------------------------------------------------------------------------
(* The steps of a connection *)

\* At in the next state.
LEMMA AtNext == \A k, c : At(k, c)' = Holders(queue', Task(k, c))
BY DEF At, Holders

\* The task queues rest are those of the loops, but for a "close" task taken.
Leaves(rest) ==
  /\ rest \in Queues /\ Singles(rest)
  /\ \A d \in Conns :
       /\ Holders(rest, Task("close", d)) \subseteq At("close", d)
       /\ \A k \in Kinds : k # "close" => Holders(rest, Task(k, d)) = At(k, d)

\* A CONNECTED connection, while the server runs.
LEMMA ConnectedFacts ==
  ASSUME NEW c \in Conns, ConnInv(c), PoolInv, running_, state_[c] = "CONNECTED"
  PROVE  /\ c \in Listed /\ downs[c] = 0
         /\ At("established", c) = {} /\ At("remove", c) = {} /\ At("destroy", c) = {}
BY Zenon DEF ConnInv, PoolInv

\* The "close" tasks of a connection are in one queue.
LEMMA CloseTasks ==
  ASSUME NEW c, ConnInv(c), At("close", c)' \subseteq At("close", c)
  PROVE  At("close", c)' = {} \/ At("close", c)' = At("close", c)
<1>1. At("close", c) = {} \/ At("close", c) = {owner_loop_[c]}
  BY Zenon DEF ConnInv
<1> QED
  BY ONLY <1>1, At("close", c)' \subseteq At("close", c)

(***************************************************************************)
(* HandleClose() of a CONNECTED connection, from the event or the task.    *)
(***************************************************************************)
LEMMA CloseKeeps ==
  ASSUME Inv, PoolInv, running_, UNCHANGED <<held, stage, loops_, running_, backlog>>,
         NEW c \in Conns, state_[c] = "CONNECTED", NEW rest, Leaves(rest),
         HandleClose(c, rest)
  PROVE  Inv'
<1>0. /\ state_ \in [Conns -> ConnStates] /\ listening \in [Conns -> BOOLEAN]
      /\ downs \in [Conns -> {0, 1}] /\ ConnInv(c) /\ ListInv
  BY DEF Inv, Types, ConnsInv
<1>1. /\ c \in Listed /\ downs[c] = 0
      /\ At("established", c) = {} /\ At("remove", c) = {} /\ At("destroy", c) = {}
  BY <1>0, ConnectedFacts
<1>2. /\ UNCHANGED <<fd_, owner_loop_>>
      /\ listening' = [listening EXCEPT ![c] = FALSE]
      /\ downs' = [downs EXCEPT ![c] = @ + 1]
  BY DEF HandleClose
<1>3. /\ listening'[c] = FALSE /\ \A d \in Conns : d # c => listening'[d] = listening[d]
      /\ downs'[c] = 1 /\ \A d \in Conns : d # c => downs'[d] = downs[d]
      /\ listening' \in [Conns -> BOOLEAN] /\ downs' \in [Conns -> {0, 1}]
  BY <1>0, <1>1, <1>2
<1>4. ASSUME NEW st \in {"DISCONNECTING", "DISCONNECTED"}, state_' = [state_ EXCEPT ![c] = st],
             queue' \in Queues, Singles(queue')
      PROVE  /\ Types' /\ state_'[c] = st /\ \A d \in Conns : d # c => state_'[d] = state_[d]
  <2>1. /\ state_'[c] = st /\ \A d \in Conns : d # c => state_'[d] = state_[d]
        /\ state_' \in [Conns -> ConnStates]
    BY <1>0, <1>4 DEF ConnStates
  <2>2. backlog' \subseteq {d \in Conns : state_'[d] = "none"}
    BY Zenon, <2>1 DEF Inv, Types
  <2> QED
    BY Zenon, <1>2, <1>3, <1>4, <2>1, <2>2 DEF Inv, Types
<1>5. CASE owner_loop_[c] = Base
  <2>1. /\ DelConnListItem(c) /\ queue' = rest
        /\ state_' = [state_ EXCEPT ![c] = "DISCONNECTED"]
    BY <1>5 DEF HandleClose
  <2>2. ListInv' /\ Listed' = Listed \ {c}
    BY <1>0, <1>1, <1>2, <2>1, DelFacts
  <2>3. Types' /\ state_'[c] = "DISCONNECTED" /\ \A d \in Conns : d # c => state_'[d] = state_[d]
    BY <1>4, <2>1 DEF Leaves
  <2>4. \A d \in Conns : /\ At("close", d)' \subseteq At("close", d)
                         /\ \A k \in Kinds : k # "close" => At(k, d)' = At(k, d)
    BY Zenon, <2>1, AtNext DEF Leaves
  <2>5. ASSUME NEW d \in Conns, d # c PROVE ConnInv(d)'
    <3>1. ConnInv(d)
      BY Zenon DEF Inv, ConnsInv
    <3> QED
      BY Zenon, <1>2, <1>3, <2>2, <2>3, <2>4, <2>5, <3>1, OtherConn
  <2>6. ConnInv(c)'
    <3>1. At("established", c)' = {} /\ At("remove", c)' = {} /\ At("destroy", c)' = {}
      BY <1>1, <2>4 DEF Kinds
    <3>2. At("close", c)' = {} \/ At("close", c)' = At("close", c)
      BY Zenon, <1>0, <2>4, CloseTasks
    <3> QED
      BY Zenon, <1>0, <1>2, <1>3, <2>3, <3>1, <3>2 DEF ConnInv
  <2> QED
    BY Zenon, <2>2, <2>3, <2>5, <2>6 DEF Inv, ConnsInv
<1>6. CASE owner_loop_[c] # Base
  <2> DEFINE t == Task("remove", c)
  <2>1. /\ queue' = [rest EXCEPT ![Base] = Append(@, t)] /\ UNCHANGED listvars
        /\ state_' = [state_ EXCEPT ![c] = "DISCONNECTING"]
    BY Zenon, <1>6 DEF HandleClose, OnConnectionRemove
  <2>2. ListInv' /\ Listed' = Listed
    BY ZenonT(40), <1>0, <1>2, <2>1 DEF ListInv, Listed, listvars
  <2>t. t \in TaskSet /\ t.kind = "remove" /\ Holders(rest, t) = {}
        /\ \A k \in Kinds, d \in Conns : (k # "remove" \/ d # c) => Task(k, d) # t
    BY <1>1, TaskFacts DEF Leaves, Kinds, At
  <2>3. /\ queue' \in Queues /\ Singles(queue') /\ Holders(queue', t) = {Base}
        /\ \A u : u # t => Holders(queue', u) = Holders(rest, u)
    <3> HIDE DEF t
    <3>1. rest \in Queues /\ Singles(rest) /\ Base \in Loops
      BY LoopFacts DEF Leaves
    <3>2. queue' = Put(rest, Base, t)
      BY <2>1 DEF Put
    <3> QED
      BY ONLY <2>t, <3>1, <3>2, PutFacts
  <2>4. Types' /\ state_'[c] = "DISCONNECTING" /\ \A d \in Conns : d # c => state_'[d] = state_[d]
    BY Zenon, <1>4, <2>1, <2>3
  <2>5. /\ \A d \in Conns : At("close", d)' \subseteq At("close", d)
        /\ \A d \in Conns : d # c => \A k \in Kinds : k # "close" => At(k, d)' = At(k, d)
    BY Zenon, <2>t, <2>3, AtNext DEF Leaves, Kinds
  <2>6. ASSUME NEW d \in Conns, d # c PROVE ConnInv(d)'
    <3>1. ConnInv(d)
      BY DEF Inv, ConnsInv
    <3> QED
      BY Zenon, <1>2, <1>3, <2>2, <2>4, <2>5, <2>6, <3>1, OtherConn
  <2>7. ConnInv(c)'
    <3>1. /\ At("established", c)' = {} /\ At("remove", c)' = {Base} /\ At("destroy", c)' = {}
      BY Zenon, <1>1, <2>t, <2>3, AtNext DEF Leaves, Kinds
    <3>2. At("close", c)' = {} \/ At("close", c)' = At("close", c)
      BY Zenon, <1>0, <2>5, CloseTasks
    <3> QED
      BY Zenon, <1>0, <1>1, <1>2, <1>3, <1>6, <2>2, <2>4, <3>1, <3>2 DEF ConnInv
  <2> QED
    BY Zenon, <2>2, <2>4, <2>6, <2>7 DEF Inv, ConnsInv
<1> QED
  BY <1>5, <1>6

-----------------------------------------------------------------------------
(* The tasks *)

\* What DoPendingTasks() of loop l runs next, and what is then left.
First(l) == Head(queue[l])
Rest(l) == Take(queue, l)

\* Tasks are run while the server runs; the first one leaves the queue.
LEMMA FirstTask ==
  ASSUME Inv, PoolInv, NEW l \in Loops, RunTask(l)
  PROVE  /\ running_ /\ UNCHANGED <<held, stage, loops_, running_, backlog>>
         /\ First(l).kind \in Kinds /\ First(l).conn \in Conns
         /\ Rest(l) \in Queues /\ Singles(Rest(l))
         /\ l \in At(First(l).kind, First(l).conn)
         /\ Holders(Rest(l), Task(First(l).kind, First(l).conn)) \subseteq At(First(l).kind, First(l).conn)
         /\ First(l).kind # "close" =>
              Holders(Rest(l), Task(First(l).kind, First(l).conn))
                = At(First(l).kind, First(l).conn) \ {l}
         /\ \A k \in Kinds, d \in Conns :
              k # First(l).kind \/ d # First(l).conn => Holders(Rest(l), Task(k, d)) = At(k, d)
<1>1. running_ /\ queue[l] # <<>> /\ UNCHANGED <<held, stage, loops_, running_, backlog>>
  BY Zenon DEF RunTask, Runs, Serving, PoolInv, poolvars, accvars
<1>2. queue \in Queues /\ Singles(queue)
  BY Zenon, <1>1 DEF Inv, Types
<1>3. /\ Rest(l) \in Queues /\ First(l) \in TaskSet /\ l \in Holders(queue, First(l))
      /\ \A u : Holders(Rest(l), u) \subseteq Holders(queue, u)
      /\ \A u : u # First(l) => Holders(Rest(l), u) = Holders(queue, u)
      /\ Singles(Rest(l))
      /\ First(l).kind # "close" => Holders(Rest(l), First(l)) = Holders(queue, First(l)) \ {l}
  BY Zenon, <1>1, <1>2, TakeFacts DEF First, Rest
<1>4. /\ First(l).kind \in Kinds /\ First(l).conn \in Conns
      /\ First(l) = Task(First(l).kind, First(l).conn)
  BY Zenon, <1>3, TaskFacts
<1>5. ASSUME NEW k \in Kinds, NEW d \in Conns, k # First(l).kind \/ d # First(l).conn
      PROVE  Holders(Rest(l), Task(k, d)) = At(k, d)
  <2>1. Task(k, d) # First(l)
    BY <1>4, <1>5, TaskFacts
  <2> QED
    BY Zenon, <1>3, <2>1 DEF At
<1>6. At(First(l).kind, First(l).conn) = Holders(queue, First(l))
  BY <1>4 DEF At
<1> QED
  BY Zenon, <1>1, <1>3, <1>4, <1>5, <1>6

\* ForceCloseInLoop(): the connection may be closed already.
LEMMA CloseTaskKeeps ==
  ASSUME Inv, PoolInv, NEW l \in Loops, RunTask(l), First(l).kind = "close",
         ForceCloseInLoop(First(l).conn, Rest(l))
  PROVE  Inv'
<1> DEFINE c == First(l).conn
<1>1. /\ running_ /\ UNCHANGED <<held, stage, loops_, running_, backlog>> /\ c \in Conns
      /\ Rest(l) \in Queues /\ Singles(Rest(l)) /\ l \in At("close", c)
      /\ Holders(Rest(l), Task("close", c)) \subseteq At("close", c)
      /\ \A k \in Kinds, d \in Conns : k # "close" \/ d # c => Holders(Rest(l), Task(k, d)) = At(k, d)
  BY Zenon, FirstTask
<1> HIDE DEF c
<1>2. state_[c] \notin {"none", "CONNECTING"} /\ state_[c] \in ConnStates
  <2>1. ConnInv(c)
    BY Zenon, <1>1 DEF Inv, ConnsInv
  <2>2. state_[c] \in ConnStates
    BY <1>1 DEF Inv, Types
  <2>3. "close" \in Kinds
    BY Zenon DEF Kinds
  <2> QED
    BY Zenon, <1>1, <2>1, <2>2, <2>3 DEF ConnInv
<1>3. Leaves(Rest(l))
  BY Zenon, <1>1 DEF Leaves, Kinds
<1>4. CASE state_[c] = "CONNECTED"
  <2>1. HandleClose(c, Rest(l))
    BY <1>4 DEF ForceCloseInLoop, c
  <2> QED
    BY Zenon, <1>1, <1>3, <1>4, <2>1, CloseKeeps
<1>5. CASE state_[c] \in {"DISCONNECTING", "DISCONNECTED"}
  <2>1. queue' = Rest(l) /\ UNCHANGED <<connvars, listvars>>
    BY Zenon, <1>5 DEF ForceCloseInLoop, c
  <2>2. Types'
    BY Zenon, <1>1, <2>1 DEF Inv, Types, connvars
  <2>3. ListInv' /\ Listed' = Listed
    BY <2>1 DEF Inv, ListInv, Listed, connvars, listvars
  <2>4. ASSUME NEW d \in Conns PROVE ConnInv(d)'
    <3>1. ConnInv(d)
      BY Zenon DEF Inv, ConnsInv
    <3>2. /\ At("close", d)' \subseteq At("close", d)
          /\ \A k \in Kinds : k # "close" => At(k, d)' = At(k, d)
      BY Zenon, <1>3, <2>1, AtNext DEF Leaves
    <3> QED
      BY Zenon, <1>1, <2>1, <2>3, <3>1, <3>2, OtherConn DEF connvars
  <2> QED
    BY Zenon, <2>2, <2>3, <2>4 DEF Inv, ConnsInv
<1> QED
  BY Zenon, <1>2, <1>4, <1>5 DEF ConnStates

\* A task sets the state of its connection and whether epoll has its channel.
LEMMA SetStateTypes ==
  ASSUME Types, NEW c \in Conns, state_[c] # "none", NEW st \in ConnStates, NEW b \in BOOLEAN,
         state_' = [state_ EXCEPT ![c] = st], listening' = [listening EXCEPT ![c] = b],
         UNCHANGED <<fd_, owner_loop_, downs, held, backlog>>,
         queue' \in Queues, Singles(queue')
  PROVE  /\ Types' /\ state_'[c] = st /\ listening'[c] = b
         /\ \A d \in Conns : d # c => state_'[d] = state_[d] /\ listening'[d] = listening[d]
<1>1. state_ \in [Conns -> ConnStates] /\ listening \in [Conns -> BOOLEAN]
  BY DEF Types
<1>2. /\ state_'[c] = st /\ listening'[c] = b
      /\ \A d \in Conns : d # c => state_'[d] = state_[d] /\ listening'[d] = listening[d]
      /\ state_' \in [Conns -> ConnStates] /\ listening' \in [Conns -> BOOLEAN]
  BY Zenon, <1>1
<1>3. backlog' \subseteq {d \in Conns : state_'[d] = "none"}
  BY Zenon, <1>2 DEF Types
<1> QED
  BY Zenon, <1>2, <1>3 DEF Types

\* ConnectionEstablished() and ConnectionDestroy(), as tasks.
LEMMA StateTaskKeeps ==
  ASSUME Inv, PoolInv, NEW l \in Loops, RunTask(l), queue' = Rest(l),
         UNCHANGED <<fd_, owner_loop_, downs, listvars>>,
         NEW kind, First(l).kind = kind, NEW c, First(l).conn = c,
         \/ kind = "established" /\ Established(c)
         \/ kind = "destroy" /\ ConnectionDestroy(c)
  PROVE  Inv'
<1>1. /\ running_ /\ UNCHANGED <<held, stage, loops_, running_, backlog>> /\ c \in Conns
      /\ Rest(l) \in Queues /\ Singles(Rest(l)) /\ l \in At(kind, c)
      /\ Holders(Rest(l), Task(kind, c)) = At(kind, c) \ {l}
      /\ \A k \in Kinds, d \in Conns : k # kind \/ d # c => Holders(Rest(l), Task(k, d)) = At(k, d)
  BY FirstTask
<1>2. (kind = "established" /\ Established(c)) \/ (kind = "destroy" /\ ConnectionDestroy(c))
  BY Zenon
<1>3. ConnInv(c) /\ Types /\ kind \in Kinds
  BY <1>1, <1>2 DEF Inv, ConnsInv, Kinds
<1>4. state_[c] # "none"
  BY Zenon, <1>1, <1>3 DEF ConnInv
<1>5. /\ At(kind, c)' = At(kind, c) \ {l}
      /\ \A k \in Kinds, d \in Conns : k # kind \/ d # c => At(k, d)' = At(k, d)
  BY <1>1, AtNext
<1>6. ListInv' /\ Listed' = Listed
  BY Zenon DEF Inv, ListInv, Listed, listvars
<1>7. ASSUME NEW d \in Conns, d # c, state_'[d] = state_[d], listening'[d] = listening[d]
      PROVE  ConnInv(d)'
  <2>1. ConnInv(d)
    BY DEF Inv, ConnsInv
  <2> QED
    BY Zenon, <1>1, <1>5, <1>6, <1>7, <2>1, OtherConn DEF Kinds
<1>8. CASE kind = "established"
  <2>1. /\ Types' /\ state_'[c] = "CONNECTED" /\ listening'[c] = TRUE
        /\ \A d \in Conns : d # c => state_'[d] = state_[d] /\ listening'[d] = listening[d]
    BY Zenon, <1>1, <1>2, <1>3, <1>4, <1>8, SetStateTypes DEF Established, ConnStates
  <2>2. /\ state_[c] = "CONNECTING" /\ At("close", c) = {} /\ At("remove", c) = {}
        /\ At("destroy", c) = {} /\ At("established", c) = {l} /\ c \in Listed
    BY Zenon, <1>1, <1>3, <1>8 DEF ConnInv, PoolInv
  <2>3. /\ At("close", c)' = {} /\ At("remove", c)' = {}
        /\ At("destroy", c)' = {} /\ At("established", c)' = {}
    BY Zenon, <1>1, <1>5, <1>8, <2>2 DEF Kinds
  <2>4. ConnInv(c)'
    BY ZenonT(40), <1>1, <1>3, <1>6, <2>1, <2>2, <2>3 DEF ConnInv
  <2> QED
    BY Zenon, <1>6, <1>7, <2>1, <2>4 DEF Inv, ConnsInv
<1>9. CASE kind = "destroy"
  <2>1. /\ Types' /\ state_'[c] = "DISCONNECTED" /\ listening'[c] = FALSE
        /\ \A d \in Conns : d # c => state_'[d] = state_[d] /\ listening'[d] = listening[d]
    BY Zenon, <1>1, <1>2, <1>3, <1>4, <1>9, SetStateTypes DEF ConnectionDestroy, ConnStates
  <2>2. /\ state_[c] = "DISCONNECTING" /\ At("established", c) = {} /\ At("remove", c) = {}
        /\ At("destroy", c) = {l}
    BY Zenon, <1>1, <1>3, <1>9 DEF ConnInv
  <2>3. /\ At("close", c)' = At("close", c) /\ At("remove", c)' = {}
        /\ At("destroy", c)' = {} /\ At("established", c)' = {}
    BY Zenon, <1>1, <1>5, <1>9, <2>2 DEF Kinds
  <2>4. ConnInv(c)'
    BY Zenon, <1>1, <1>3, <1>6, <2>1, <2>2, <2>3 DEF ConnInv
  <2> QED
    BY <1>6, <1>7, <2>1, <2>4 DEF Inv, ConnsInv
<1> QED
  BY Zenon, <1>2, <1>8, <1>9

\* OnConnectionRemoveInLoop(), a task of the server's loop.
LEMMA RemoveTaskKeeps ==
  ASSUME Inv, PoolInv, NEW l \in Loops, RunTask(l), First(l).kind = "remove",
         NEW c, First(l).conn = c, OnConnectionRemoveInLoop(c, Rest(l))
  PROVE  Inv'
<1> DEFINE t == Task("destroy", c)
<1>1. /\ running_ /\ UNCHANGED <<held, stage, loops_, running_, backlog>> /\ c \in Conns
      /\ Rest(l) \in Queues /\ Singles(Rest(l)) /\ l \in At("remove", c)
      /\ Holders(Rest(l), Task("remove", c)) = At("remove", c) \ {l}
      /\ \A k \in Kinds, d \in Conns : k # "remove" \/ d # c => Holders(Rest(l), Task(k, d)) = At(k, d)
  BY Zenon, FirstTask
<1>2. DelConnListItem(c) /\ queue' = Put(Rest(l), owner_loop_[c], t) /\ UNCHANGED connvars
  BY DEF OnConnectionRemoveInLoop, Put
<1>t. c \in Conns => t \in TaskSet /\ t.kind = "destroy"
        /\ \A k \in Kinds, d \in Conns : (k # "destroy" \/ d # c) => Task(k, d) # t
  BY TaskFacts DEF Kinds
<1>a. Task("destroy", c) = t
  OBVIOUS
<1> HIDE DEF t
<1>3. ConnInv(c) /\ Types /\ ListInv /\ owner_loop_[c] \in Loops
  BY Zenon, <1>1 DEF Inv, ConnsInv, Types
<1>4. /\ state_[c] = "DISCONNECTING" /\ At("remove", c) = {l} /\ c \in Listed
      /\ At("destroy", c) = {} /\ At("established", c) = {} /\ owner_loop_[c] # Base
  BY Zenon, <1>1, <1>3 DEF ConnInv, Kinds
<1>5. Holders(Rest(l), t) = {}
  BY Zenon, <1>1, <1>4, <1>a DEF Kinds
<1>6. /\ queue' \in Queues /\ Singles(queue') /\ Holders(queue', t) = {owner_loop_[c]}
      /\ \A u : u # t => Holders(queue', u) = Holders(Rest(l), u)
  BY ONLY <1>1, <1>2, <1>3, <1>5, <1>t, PutFacts
<1>7. ListInv' /\ Listed' = Listed \ {c}
  BY Zenon, <1>2, <1>3, <1>4, DelFacts DEF connvars
<1>8. Types'
  BY <1>1, <1>2, <1>3, <1>6 DEF Types, connvars
<1>9. \A k \in Kinds, d \in Conns : (k # "destroy" /\ k # "remove") \/ d # c => At(k, d)' = At(k, d)
  BY Zenon, <1>1, <1>6, <1>t, AtNext
<1>10. ASSUME NEW d \in Conns, d # c PROVE ConnInv(d)'
  <2>1. ConnInv(d)
    BY DEF Inv, ConnsInv
  <2>2. At("close", d)' \subseteq At("close", d) /\ \A k \in Kinds : k # "close" => At(k, d)' = At(k, d)
    BY Zenon, <1>9, <1>10 DEF Kinds
  <2> QED
    BY Zenon, <1>1, <1>2, <1>7, <1>10, <2>1, <2>2, OtherConn DEF connvars
<1>11. ConnInv(c)'
  <2>1. /\ At("close", c)' = At("close", c) /\ At("established", c)' = {}
        /\ At("destroy", c)' = {owner_loop_[c]}
    BY Zenon, <1>1, <1>4, <1>6, <1>9, <1>a, AtNext DEF Kinds
  <2>2. At("remove", c)' = {}
    <3>1. Task("remove", c) # t
      BY <1>1, <1>t DEF Kinds
    <3> QED
      BY Zenon, <1>1, <1>4, <1>6, <3>1, AtNext
  <2> QED
    BY Zenon, <1>1, <1>2, <1>3, <1>4, <1>7, <2>1, <2>2 DEF ConnInv, connvars
<1> QED
  BY Zenon, <1>7, <1>8, <1>10, <1>11 DEF Inv, ConnsInv

(***************************************************************************)
(* DoPendingTasks() keeps the invariant, whatever task comes first.        *)
(***************************************************************************)
LEMMA RunTaskKeeps ==
  ASSUME Inv, PoolInv, NEW l \in Loops, RunTask(l)
  PROVE  Inv'
<1>1. \/ /\ First(l).kind = "established" /\ Established(First(l).conn) /\ queue' = Rest(l)
         /\ UNCHANGED <<fd_, owner_loop_, downs, listvars>>
      \/ First(l).kind = "close" /\ ForceCloseInLoop(First(l).conn, Rest(l))
      \/ First(l).kind = "remove" /\ OnConnectionRemoveInLoop(First(l).conn, Rest(l))
      \/ /\ First(l).kind = "destroy" /\ ConnectionDestroy(First(l).conn) /\ queue' = Rest(l)
         /\ UNCHANGED <<fd_, owner_loop_, downs, listvars>>
  BY DEF RunTask, First, Rest, Take
<1> QED
  BY ZenonT(40), <1>1, StateTaskKeeps, CloseTaskKeeps, RemoveTaskKeeps

-----------------------------------------------------------------------------
(* The acceptor, the users and the server *)

\* A new descriptor is none of a connection, the acceptor or another thread.
LEMMA NewFdFacts ==
  ASSUME NEW f, NEW used, NewFd(f, used)
  PROVE  f \in Fds /\ f \notin used /\ f \notin opened /\ f \notin others
BY DEF NewFd, Least, Free

\* The slot of a new descriptor is empty: whoever is listed in it has it open.
LEMMA SlotEmpty ==
  ASSUME ListInv, NEW f \in Fds, NewFd(f, Used)
  PROVE  tcp_conn_list_[f] = NULL
<1>1. f \notin Used
  BY NewFdFacts
<1>2. ASSUME tcp_conn_list_[f] # NULL PROVE FALSE
  <2>1. tcp_conn_list_[f] \in Alive /\ fd_[tcp_conn_list_[f]] = f
    BY <1>2 DEF Alive, ListInv
  <2> QED
    BY <1>1, <2>1 DEF Used
<1> QED
  BY <1>2

\* GetNextEventLoop() picks a loop of the pool, or none if there is none.
LEMMA PickFacts ==
  ASSUME PoolInv, GetNextEventLoop
  PROVE  /\ running_ /\ UNCHANGED <<running_, loops_>>
         /\ loops_ = {} => picked' = {}
         /\ loops_ # {} => \E l \in loops_ : picked' = {l}
<1>1. running_ /\ UNCHANGED <<running_, loops_>> /\ (loops_ = {} => picked' = {})
      /\ (loops_ # {} => picked' = {next_ % thread_nums_})
  BY DEF GetNextEventLoop, Index
<1>2. loops_ # {} => next_ % thread_nums_ \in loops_
  <2>1. loops_ = 0..(thread_nums_ - 1) /\ thread_nums_ \in 0..MaxThreads /\ next_ \in Nat
    BY <1>1 DEF PoolInv
  <2>2. thread_nums_ \in Nat
    BY <2>1, PoolAssumption
  <2>3. ASSUME loops_ # {} PROVE thread_nums_ >= 1
    BY <2>1, <2>2, <2>3
  <2> QED
    BY <2>1, <2>2, <2>3
<1> QED
  BY <1>1, <1>2

\* OnNewConnection(): a connection that is new to the list and to the queues.
LEMMA NewConnectionKeeps ==
  ASSUME Inv, PoolInv, NEW c \in Conns, NEW f \in Fds, OnNewConnection(c, f)
  PROVE  Inv'
<1>1. /\ running_ /\ UNCHANGED <<running_, loops_, stage, downs, held>>
      /\ c \in backlog /\ backlog' = backlog \ {c} /\ NewFd(f, Used)
      /\ AddConnListItem(c, f) /\ fd_' = [fd_ EXCEPT ![c] = f]
  BY DEF OnNewConnection, Accept, GetNextEventLoop
<1>2. state_[c] = "none" /\ ConnInv(c) /\ Types /\ ListInv
  BY Zenon, <1>1 DEF Inv, Types, ConnsInv
<1>3. c \notin Listed /\ c \notin held /\ \A k \in Kinds : At(k, c) = {}
  BY <1>2 DEF ConnInv
<1>4. tcp_conn_list_[f] = NULL
  BY <1>1, <1>2, SlotEmpty
<1>5. ListInv' /\ Listed' = Listed \cup {c}
  BY Zenon, <1>1, <1>2, <1>3, <1>4, AddFacts DEF Types
<1>6. /\ fd_'[c] = f /\ \A d \in Conns : d # c => fd_'[d] = fd_[d]
      /\ fd_' \in [Conns -> Fds \cup {-1}]
  BY Zenon, <1>1, <1>2 DEF Types
<1>7. ASSUME NEW l \in Loops, NEW st \in {"CONNECTING", "CONNECTED"},
             owner_loop_' = [owner_loop_ EXCEPT ![c] = l],
             state_' = [state_ EXCEPT ![c] = st]
      PROVE  /\ owner_loop_'[c] = l /\ \A d \in Conns : d # c => owner_loop_'[d] = owner_loop_[d]
             /\ state_'[c] = st /\ \A d \in Conns : d # c => state_'[d] = state_[d]
             /\ owner_loop_' \in [Conns -> Loops] /\ state_' \in [Conns -> ConnStates]
             /\ backlog' \subseteq {d \in Conns : state_'[d] = "none"}
  <2>1. /\ owner_loop_'[c] = l /\ \A d \in Conns : d # c => owner_loop_'[d] = owner_loop_[d]
        /\ state_'[c] = st /\ \A d \in Conns : d # c => state_'[d] = state_[d]
        /\ owner_loop_' \in [Conns -> Loops] /\ state_' \in [Conns -> ConnStates]
    BY <1>2, <1>7 DEF Types, ConnStates
  <2> QED
    BY <1>1, <1>2, <2>1 DEF Types
<1>8. CASE picked' = {} /\ owner_loop_' = [owner_loop_ EXCEPT ![c] = Base]
           /\ Established(c) /\ UNCHANGED queue
  <2>1. loops_ = {}
    BY <1>8, PickFacts DEF OnNewConnection
  <2>2. /\ owner_loop_'[c] = Base /\ \A d \in Conns : d # c => owner_loop_'[d] = owner_loop_[d]
        /\ state_'[c] = "CONNECTED" /\ \A d \in Conns : d # c => state_'[d] = state_[d]
        /\ owner_loop_' \in [Conns -> Loops] /\ state_' \in [Conns -> ConnStates]
        /\ backlog' \subseteq {d \in Conns : state_'[d] = "none"}
    BY Zenon, <1>7, <1>8, LoopFacts DEF Established
  <2>3. /\ listening'[c] = TRUE /\ \A d \in Conns : d # c => listening'[d] = listening[d]
        /\ listening' \in [Conns -> BOOLEAN]
    BY Zenon, <1>2, <1>8 DEF Established, Types
  <2>4. Types'
    BY <1>1, <1>2, <1>6, <1>8, <2>2, <2>3 DEF Types
  <2>5. \A k, d : At(k, d)' = At(k, d)
    BY ZenonT(40), <1>8 DEF At, Holders
  <2>6. ASSUME NEW d \in Conns, d # c PROVE ConnInv(d)'
    <3>1. ConnInv(d)
      BY Zenon DEF Inv, ConnsInv
    <3> QED
      BY <1>1, <1>5, <1>6, <2>2, <2>3, <2>5, <2>6, <3>1, OtherConn
  <2>7. ConnInv(c)'
    <3>1. /\ At("close", c)' = {} /\ At("remove", c)' = {} /\ At("destroy", c)' = {}
          /\ At("established", c)' = {}
      BY <1>3, <2>5 DEF Kinds
    <3> QED
      BY Zenon, <1>1, <1>2, <1>3, <1>5, <1>6, <2>1, <2>2, <2>3, <3>1 DEF ConnInv
  <2> QED
    BY <1>5, <2>4, <2>6, <2>7 DEF Inv, ConnsInv
<1>9. ASSUME NEW l \in picked', owner_loop_' = [owner_loop_ EXCEPT ![c] = l],
             state_' = [state_ EXCEPT ![c] = "CONNECTING"],
             queue' = [queue EXCEPT ![l] = Append(@, Task("established", c))],
             UNCHANGED listening
      PROVE  Inv'
  <2> DEFINE t == Task("established", c)
  <2>1. loops_ # {} /\ l \in loops_ /\ l \in Loops /\ l # Base
    BY <1>9, PickFacts, LoopFacts DEF OnNewConnection, PoolInv
  <2>2. /\ owner_loop_'[c] = l /\ \A d \in Conns : d # c => owner_loop_'[d] = owner_loop_[d]
        /\ state_'[c] = "CONNECTING" /\ \A d \in Conns : d # c => state_'[d] = state_[d]
        /\ owner_loop_' \in [Conns -> Loops] /\ state_' \in [Conns -> ConnStates]
        /\ backlog' \subseteq {d \in Conns : state_'[d] = "none"}
    BY Zenon, <1>7, <1>9, <2>1
  <2>t. t \in TaskSet /\ t.kind = "established"
        /\ \A k \in Kinds, d \in Conns : (k # "established" \/ d # c) => Task(k, d) # t
    BY TaskFacts DEF Kinds
  <2>a. At("established", c) = Holders(queue, t) /\ At("established", c)' = Holders(queue', t)
    BY AtNext DEF At
  <2>b. queue' = Put(queue, l, t)
    BY Zenon, <1>9 DEF Put
  <2>3. Holders(queue, t) = {} /\ queue \in Queues /\ Singles(queue)
    BY Zenon, <1>1, <1>2, <1>3, <2>a DEF Types, Kinds
  <2> HIDE DEF t
  <2>4. /\ queue' \in Queues /\ Singles(queue') /\ Holders(queue', t) = {l}
        /\ \A u : u # t => Holders(queue', u) = Holders(queue, u)
    BY ONLY <2>1, <2>t, <2>b, <2>3, PutFacts
  <2>5. Types'
    BY Zenon, <1>1, <1>2, <1>6, <1>9, <2>2, <2>4 DEF Types
  <2>6. \A k \in Kinds, d \in Conns : k # "established" \/ d # c => At(k, d)' = At(k, d)
    BY <2>t, <2>4, AtNext DEF At
  <2>7. ASSUME NEW d \in Conns, d # c PROVE ConnInv(d)'
    <3>1. ConnInv(d)
      BY DEF Inv, ConnsInv
    <3>2. At("close", d)' \subseteq At("close", d) /\ \A k \in Kinds : k # "close" => At(k, d)' = At(k, d)
      BY <2>6, <2>7 DEF Kinds
    <3> QED
      BY Zenon, <1>1, <1>5, <1>6, <1>9, <2>2, <2>7, <3>1, <3>2, OtherConn
  <2>8. ConnInv(c)'
    <3>1. /\ At("close", c)' = {} /\ At("remove", c)' = {} /\ At("destroy", c)' = {}
          /\ At("established", c)' = {l}
      BY ZenonT(40), <1>3, <2>4, <2>6, <2>a DEF Kinds
    <3>2. listening'[c] = FALSE
      BY <1>2, <1>9 DEF ConnInv, Types
    <3> QED
      BY Zenon, <1>1, <1>2, <1>3, <1>5, <1>6, <2>1, <2>2, <3>1, <3>2 DEF ConnInv
  <2> QED
    BY Zenon, <1>5, <2>5, <2>7, <2>8 DEF Inv, ConnsInv
<1> QED
  BY <1>8, <1>9 DEF OnNewConnection

\* Steps that leave the connections, the list and the queues alone.
LEMMA QuietKeeps ==
  ASSUME Inv, UNCHANGED <<servervars, loops_, running_>>,
         backlog' \subseteq {c \in Conns : state_[c] = "none"}
  PROVE  Inv'
<1> USE DEF servervars, connvars, listvars
<1>1. Types'
  BY Zenon DEF Inv, Types
<1>2. ListInv' /\ Listed' = Listed
  BY DEF Inv, ListInv, Listed
<1>3. \A k, d : At(k, d)' = At(k, d)
  BY ZenonT(40) DEF At, Holders
<1>4. ASSUME NEW d \in Conns PROVE ConnInv(d)'
  <2>1. ConnInv(d)
    BY DEF Inv, ConnsInv
  <2> QED
    BY <1>2, <1>3, <2>1, OtherConn
<1> QED
  BY <1>1, <1>2, <1>4 DEF Inv, ConnsInv

\* The acceptor leaves waiting connections waiting, or drops them.
LEMMA AcceptorKeeps ==
  ASSUME Inv, SetEventLoopNums(thread_nums_') \/ OtherThreads \/ AcceptorStep
                \/ (\E c \in Conns : NewClient(c)) \/ Stop \/ (\E l \in alive : LoopExit(l))
                \/ UNCHANGED vars
  PROVE  Inv'
<1>0. backlog \subseteq {c \in Conns : state_[c] = "none"}
  BY DEF Inv, Types
<1> USE DEF poolvars, accvars
<1>1. CASE SetEventLoopNums(thread_nums_')
  BY Zenon, <1>0, <1>1, QuietKeeps DEF SetEventLoopNums, SetThreadNums
<1>2. CASE OtherThreads
  BY <1>0, <1>2, QuietKeeps DEF OtherThreads, OthersOpen, OthersClose
<1>3. CASE AcceptorStep
  <2>1. backlog' \subseteq backlog /\ UNCHANGED <<servervars, poolvars>>
    BY <1>3 DEF AcceptorStep, HandleReadFails, AcceptBad, AcceptError, AcceptNone, AcceptFull,
                DropConnection, Reopen, Refuse
  <2> QED
    BY ZenonT(40), <1>0, <2>1, QuietKeeps
<1>4. ASSUME NEW c \in Conns, NewClient(c) PROVE Inv'
  <2>1. backlog' = backlog \cup {c} /\ state_[c] = "none" /\ UNCHANGED <<servervars, poolvars>>
    BY Zenon, <1>4 DEF NewClient, Connect
  <2> QED
    BY <1>0, <2>1, QuietKeeps
<1>5. CASE Stop
  BY Zenon, <1>0, <1>5, QuietKeeps DEF Stop, PoolStop
<1>6. ASSUME NEW l \in alive, LoopExit(l) PROVE Inv'
  BY Zenon, <1>0, <1>6, QuietKeeps DEF LoopExit, StopLoop
<1>7. CASE UNCHANGED vars
  BY <1>0, <1>7, QuietKeeps DEF vars
<1> QED
  BY <1>1, <1>2, <1>3, <1>4, <1>5, <1>6, <1>7

\* The callbacks of a channel run HandleClose(); users keep, release and close.
LEMMA UserKeeps ==
  ASSUME Inv, PoolInv, NEW c \in Conns,
         CloseEvent(c) \/ Keep(c) \/ Release(c) \/ ForceClose(c)
  PROVE  Inv'
<1>0. ConnInv(c) /\ Types /\ ListInv
  BY Zenon DEF Inv, ConnsInv
<1>a. UNCHANGED <<stage, loops_, running_, backlog>>
  BY Zenon DEF CloseEvent, Keep, Release, ForceClose, poolvars, accvars
<1>1. CASE CloseEvent(c)
  <2>1. /\ listening[c] /\ running_ /\ UNCHANGED held /\ HandleClose(c, queue)
    BY Zenon, <1>1 DEF CloseEvent, Runs, Serving, PoolInv
  <2>2. state_[c] = "CONNECTED"
    BY Zenon, <1>0, <2>1 DEF ConnInv
  <2>3. Leaves(queue)
    BY <1>0, <2>1 DEF Leaves, Types, At
  <2> QED
    BY Zenon, <1>a, <2>1, <2>2, <2>3, CloseKeeps
<1>2. CASE Keep(c) \/ Release(c)
  <2>1. /\ UNCHANGED <<connvars, listvars, queue>>
        /\ held' \in SUBSET Conns /\ \A d \in Conns : d # c => (d \in held' <=> d \in held)
        /\ c \in held' => state_[c] = "CONNECTED" \/ c \in held
    BY <1>0, <1>2 DEF Keep, Release, Types
  <2>2. \A k, d : At(k, d)' = At(k, d)
    BY <2>1 DEF At, Holders
  <2>3. ListInv' /\ Listed' = Listed
    BY Zenon, <1>0, <2>1 DEF ListInv, Listed, connvars, listvars
  <2>4. Types'
    BY Zenon, <1>0, <1>a, <2>1 DEF Types, connvars
  <2>5. ASSUME NEW d \in Conns, d # c PROVE ConnInv(d)'
    <3>1. ConnInv(d)
      BY Zenon DEF Inv, ConnsInv
    <3> QED
      BY Zenon, <1>a, <2>1, <2>2, <2>3, <2>5, <3>1, OtherConn DEF connvars
  <2>6. ConnInv(c)'
    BY Zenon, <1>0, <1>a, <2>1, <2>2, <2>3 DEF ConnInv, connvars
  <2> QED
    BY Zenon, <2>3, <2>4, <2>5, <2>6 DEF Inv, ConnsInv
<1>3. CASE ForceClose(c)
  <2> DEFINE t == Task("close", c)
  <2>1. /\ running_ /\ state_[c] = "CONNECTED" /\ queue' = Put(queue, owner_loop_[c], t)
        /\ UNCHANGED <<connvars, listvars, held>>
    BY Zenon, <1>3 DEF ForceClose, Serving, Put
  <2>2. queue \in Queues /\ Singles(queue) /\ owner_loop_[c] \in Loops
    BY <1>0, <2>1 DEF Types
  <2>t. t \in TaskSet /\ t.kind = "close"
        /\ \A k \in Kinds, d \in Conns : (k # "close" \/ d # c) => Task(k, d) # t
    BY TaskFacts DEF Kinds
  <2>a. At("close", c) = Holders(queue, t) /\ At("close", c)' = Holders(queue', t)
    BY ZenonT(40), AtNext DEF At
  <2> HIDE DEF t
  <2>3. /\ queue' \in Queues /\ Singles(queue')
        /\ Holders(queue', t) = Holders(queue, t) \cup {owner_loop_[c]}
        /\ \A u : u # t => Holders(queue', u) = Holders(queue, u)
    BY ONLY <2>1, <2>t, <2>2, PutFacts
  <2>4. \A k \in Kinds, d \in Conns : k # "close" \/ d # c => At(k, d)' = At(k, d)
    BY Zenon, <2>t, <2>3, AtNext DEF At
  <2>5. ListInv' /\ Listed' = Listed
    BY Zenon, <1>0, <2>1 DEF ListInv, Listed, connvars, listvars
  <2>6. Types'
    BY Zenon, <1>0, <1>a, <2>1, <2>3 DEF Types, connvars
  <2>7. ASSUME NEW d \in Conns, d # c PROVE ConnInv(d)'
    <3>1. ConnInv(d)
      BY DEF Inv, ConnsInv
    <3>2. At("close", d)' \subseteq At("close", d) /\ \A k \in Kinds : k # "close" => At(k, d)' = At(k, d)
      BY <2>4, <2>7 DEF Kinds
    <3> QED
      BY Zenon, <1>a, <2>1, <2>5, <2>7, <3>1, <3>2, OtherConn DEF connvars
  <2>8. ConnInv(c)'
    <3>1. /\ At("close", c)' = {owner_loop_[c]} /\ At("established", c)' = At("established", c)
          /\ At("remove", c)' = At("remove", c) /\ At("destroy", c)' = At("destroy", c)
      <4>1. At("close", c) = {} \/ At("close", c) = {owner_loop_[c]}
        BY Zenon, <1>0 DEF ConnInv
      <4>2. At("close", c)' = {owner_loop_[c]}
        BY ONLY <2>3, <2>a, <4>1
      <4> QED
        BY Zenon, <2>4, <4>2 DEF Kinds
    <3> QED
      BY Zenon, <1>0, <1>a, <2>1, <2>5, <3>1 DEF ConnInv, connvars
  <2> QED
    BY <2>5, <2>6, <2>7, <2>8 DEF Inv, ConnsInv
<1> QED
  BY <1>1, <1>2, <1>3

\* Start(): there are no connections and no tasks yet.
LEMMA StartKeeps ==
  ASSUME Inv, PoolInv, Start
  PROVE  Inv'
<1>1. /\ stage = "new" /\ UNCHANGED <<connvars, listvars, queue, held, accvars>>
  BY DEF Start
<1>2. Types /\ ListInv /\ ConnsInv /\ \A c \in Conns : state_[c] = "none"
  BY <1>1 DEF Inv, PoolInv
<1>3. Singles(queue)
  <2>1. ASSUME NEW l \in Loops, NEW i \in DOMAIN queue[l] PROVE FALSE
    <3>1. queue[l] \in Seq(TaskSet)
      BY <1>2 DEF Types, Queues
    <3>2. queue[l][i] \in TaskSet
      BY <3>1, <2>1
    <3>3. PICK k \in Kinds, c \in Conns : queue[l][i] = Task(k, c)
      BY <3>2, TaskFacts
    <3>4. l \in At(k, c)
      BY Zenon, <2>1, <3>3 DEF At, Holders
    <3> QED
      BY Zenon, <1>2, <3>4 DEF ConnsInv, ConnInv
  <2> QED
    BY Zenon, <2>1 DEF Singles, Single
<1>4. Types'
  BY Zenon, <1>1, <1>2, <1>3 DEF Types, connvars, accvars
<1>5. ListInv' /\ Listed' = Listed
  BY <1>1, <1>2 DEF ListInv, Listed, connvars, listvars
<1>6. \A k, d : At(k, d)' = At(k, d)
  BY Zenon, <1>1 DEF At, Holders
<1>7. ASSUME NEW d \in Conns PROVE ConnInv(d)'
  <2>1. ConnInv(d) /\ state_[d] = "none"
    BY Zenon, <1>2 DEF ConnsInv
  <2>2. \A k \in Kinds : At(k, d)' = {}
    BY Zenon, <1>6, <2>1 DEF ConnInv
  <2> QED
    BY Zenon, <1>1, <1>5, <2>1, <2>2 DEF ConnInv, connvars, Kinds
<1> QED
  BY <1>4, <1>5, <1>7 DEF Inv, ConnsInv

\* ~TCPServer(): the list goes; a connection that is CONNECTED is queued.
LEMMA DestroyKeeps ==
  ASSUME Inv, PoolInv, DestroyServer
  PROVE  Inv'
<1>1. /\ stage' = "gone" /\ running_' = running_ /\ ~running_ /\ UNCHANGED <<loops_, connvars, queue, held>>
      /\ tcp_conn_list_' = [f \in Fds |-> NULL] /\ tcp_conn_count_' = 0 /\ backlog' = {}
  BY DEF DestroyServer, DestroyAcceptor, PoolInv, poolvars
<1>2. Types'
  BY <1>1 DEF Inv, Types, connvars
<1>3. Listed' = {}
  BY <1>1 DEF Listed
<1>4. ListInv'
  BY <1>1 DEF ListInv
<1>5. \A k, d : At(k, d)' = At(k, d)
  BY <1>1 DEF At, Holders
<1>6. ASSUME NEW d \in Conns PROVE ConnInv(d)'
  <2>1. ConnInv(d)
    BY DEF Inv, ConnsInv
  <2> QED
    BY Zenon, <1>1, <1>3, <1>5, <2>1 DEF ConnInv, connvars
<1> QED
  BY <1>2, <1>4, <1>6 DEF Inv, ConnsInv

\* The connections that the tasks of the loops hold a TCPConnectionPtr to.
ConnsIn(q) == {d \in Conns : \E k \in Kinds : Holders(q, Task(k, d)) # {}}

\* ConnsIn finds the connection of every task, and no other.
LEMMA QueuedFacts ==
  ASSUME NEW q \in Queues
  PROVE  /\ \A l \in Loops : \A i \in DOMAIN q[l] : q[l][i].conn \in ConnsIn(q)
         /\ \A d \in ConnsIn(q) : \E l \in Loops : \E i \in DOMAIN q[l] : q[l][i].conn = d
<1>1. ASSUME NEW l \in Loops, NEW i \in DOMAIN q[l] PROVE q[l][i].conn \in ConnsIn(q)
  <2>1. q[l] \in Seq(TaskSet)
    BY DEF Queues
  <2>2. q[l][i] \in TaskSet
    BY <1>1, <2>1
  <2>3. PICK k \in Kinds, d \in Conns : q[l][i] = Task(k, d) /\ q[l][i].conn = d
    BY <2>2, TaskFacts
  <2>4. l \in Holders(q, Task(k, d))
    BY <1>1, <2>3 DEF Holders
  <2> QED
    BY <2>3, <2>4 DEF ConnsIn
<1>2. ASSUME NEW d \in ConnsIn(q) PROVE \E l \in Loops : \E i \in DOMAIN q[l] : q[l][i].conn = d
  <2>1. PICK k \in Kinds : Holders(q, Task(k, d)) # {}
    BY <1>2 DEF ConnsIn
  <2>2. PICK l \in Loops : \E i \in DOMAIN q[l] : q[l][i] = Task(k, d)
    BY Zenon, <2>1 DEF Holders
  <2>3. d \in Conns /\ Task(k, d).conn = d
    BY <1>2, TaskFacts DEF ConnsIn
  <2> QED
    BY <2>2, <2>3
<1> QED
  BY <1>1, <1>2

\* What keeps a connection alive: the list, a task, or a user.
LEMMA AliveFacts ==
  ASSUME queue \in Queues
  PROVE  Alive = Listed \cup ConnsIn(queue) \cup held
<1> DEFINE U == UNION {Queued(l) : l \in Loops}
<1>0. Alive = Listed \cup U \cup held
  BY Zenon DEF Alive, Listed
<1>1. U = ConnsIn(queue)
  <2>1. ASSUME NEW l \in Loops, NEW d \in Queued(l) PROVE d \in ConnsIn(queue)
    BY <2>1, QueuedFacts DEF Queued
  <2>2. ASSUME NEW d \in ConnsIn(queue) PROVE \E l \in Loops : d \in Queued(l)
    BY <2>2, QueuedFacts DEF Queued
  <2> QED
    BY Zenon, <2>1, <2>2
<1> HIDE DEF U
<1> QED
  BY ONLY Zenon, <1>0, <1>1

\* The same after a step.
LEMMA AliveNext ==
  ASSUME queue' \in Queues
  PROVE  Alive' = Listed' \cup ConnsIn(queue') \cup held'
<1> DEFINE U == UNION {Queued(l) : l \in Loops}
<1>0. Alive' = Listed' \cup U' \cup held'
  BY DEF Alive, Listed
<1>1. U' = ConnsIn(queue')
  <2>1. ASSUME NEW l \in Loops, NEW d, d \in Queued(l)' PROVE d \in ConnsIn(queue')
    BY Zenon, <2>1, QueuedFacts DEF Queued
  <2>2. ASSUME NEW d \in ConnsIn(queue') PROVE \E l \in Loops : d \in Queued(l)'
    BY <2>2, QueuedFacts DEF Queued
  <2> QED
    BY Zenon, <2>1, <2>2
<1> HIDE DEF U
<1> QED
  BY ONLY <1>0, <1>1

\* Appending a task, and taking one, adds no connection but the task's.
LEMMA ConnsInFacts ==
  ASSUME NEW q \in Queues, NEW l \in Loops, NEW t \in TaskSet
  PROVE  ConnsIn(Put(q, l, t)) \subseteq ConnsIn(q) \cup {t.conn}
<1> SUFFICES ASSUME NEW d \in ConnsIn(Put(q, l, t)), d # t.conn
             PROVE  d \in ConnsIn(q)
  OBVIOUS
<1>1. PICK k \in Kinds : d \in Conns /\ Holders(Put(q, l, t), Task(k, d)) # {}
  BY Zenon DEF ConnsIn
<1>2. Task(k, d) # t /\ Task(k, d) \in TaskSet
  BY <1>1, TaskFacts
<1>3. Holders(Put(q, l, t), Task(k, d)) = Holders(q, Task(k, d))
  BY <1>2, PutFacts
<1> QED
  BY <1>1, <1>3 DEF ConnsIn

\* The connections that RunTask() leaves a task for had one before.
LEMMA RunTaskConns ==
  ASSUME Inv, PoolInv, NEW l \in Loops, RunTask(l)
  PROVE  queue' \in Queues /\ ConnsIn(queue') \subseteq ConnsIn(queue) /\ Listed' \subseteq Listed
<1>1. /\ queue \in Queues /\ queue[l] # <<>> /\ owner_loop_ \in [Conns -> Loops]
      /\ tcp_conn_list_ \in [Fds -> Conns \cup {NULL}]
  BY Zenon DEF RunTask, Inv, Types, ListInv
<1>2. /\ Rest(l) \in Queues /\ First(l) \in TaskSet /\ l \in Holders(queue, First(l))
      /\ \A u : Holders(Rest(l), u) \subseteq Holders(queue, u)
  BY Zenon, <1>1, TakeFacts DEF First, Rest
<1>3. First(l).kind \in Kinds /\ First(l).conn \in Conns /\ First(l) = Task(First(l).kind, First(l).conn)
  BY Zenon, <1>2, TaskFacts
<1>4. First(l).conn \in ConnsIn(queue)
  BY <1>2, <1>3 DEF ConnsIn
<1>5. ConnsIn(Rest(l)) \subseteq ConnsIn(queue)
  BY <1>2 DEF ConnsIn
<1>6. \/ queue' = Rest(l)
      \/ queue' = Put(Rest(l), Base, Task("remove", First(l).conn))
      \/ queue' = Put(Rest(l), owner_loop_[First(l).conn], Task("destroy", First(l).conn))
  BY Zenon DEF RunTask, ForceCloseInLoop, HandleClose, OnConnectionRemove, OnConnectionRemoveInLoop,
         First, Rest, Take, Put
<1>7. /\ Task("remove", First(l).conn) \in TaskSet /\ Task("remove", First(l).conn).conn = First(l).conn
      /\ Task("destroy", First(l).conn) \in TaskSet /\ Task("destroy", First(l).conn).conn = First(l).conn
      /\ Base \in Loops /\ owner_loop_[First(l).conn] \in Loops
  <2>1. "remove" \in Kinds /\ "destroy" \in Kinds
    BY Zenon DEF Kinds
  <2>2. Base \in Loops /\ owner_loop_[First(l).conn] \in Loops
    BY Zenon, <1>1, <1>3, LoopFacts
  <2> QED
    BY Zenon, <1>3, <2>1, <2>2, TaskFacts
<1>8. ASSUME NEW m \in Loops, NEW t \in TaskSet, t.conn = First(l).conn
      PROVE  /\ Put(Rest(l), m, t) \in Queues
             /\ ConnsIn(Put(Rest(l), m, t)) \subseteq ConnsIn(Rest(l)) \cup {First(l).conn}
  <2>1. Put(Rest(l), m, t) \in Queues
    BY ONLY Zenon, <1>2, <1>8, PutFacts
  <2>2. ConnsIn(Put(Rest(l), m, t)) \subseteq ConnsIn(Rest(l)) \cup {t.conn}
    BY ONLY Zenon, <1>2, <1>8, ConnsInFacts
  <2> QED
    BY ONLY Zenon, <1>8, <2>1, <2>2
<1>9. queue' \in Queues /\ ConnsIn(queue') \subseteq ConnsIn(Rest(l)) \cup {First(l).conn}
  BY ONLY Zenon, <1>2, <1>6, <1>7, <1>8
<1>10. \/ UNCHANGED tcp_conn_list_
       \/ tcp_conn_list_' = [tcp_conn_list_ EXCEPT ![fd_[First(l).conn]] = NULL]
  BY Zenon DEF RunTask, ForceCloseInLoop, HandleClose, OnConnectionRemove, OnConnectionRemoveInLoop,
         DelConnListItem, First, listvars
<1>11. Listed' \subseteq Listed
  BY Zenon, <1>1, <1>10 DEF Listed
<1> QED
  BY Zenon, <1>4, <1>5, <1>9, <1>11

\* What the concatenation of two sequences holds.
LEMMA ConcatFacts ==
  ASSUME NEW s \in Seq(TaskSet), NEW t \in Seq(TaskSet)
  PROVE  /\ s \o t \in Seq(TaskSet)
         /\ \A u : (\E i \in DOMAIN (s \o t) : (s \o t)[i] = u)
              <=> (\E i \in DOMAIN s : s[i] = u) \/ (\E i \in DOMAIN t : t[i] = u)
<1>1. /\ s \o t \in Seq(TaskSet) /\ Len(s \o t) = Len(s) + Len(t)
      /\ \A i \in 1 .. Len(s) + Len(t) :
           (s \o t)[i] = IF i <= Len(s) THEN s[i] ELSE t[i - Len(s)]
  OBVIOUS
<1>2. /\ DOMAIN s = 1 .. Len(s) /\ DOMAIN t = 1 .. Len(t)
      /\ DOMAIN (s \o t) = 1 .. Len(s) + Len(t)
      /\ Len(s) \in Nat /\ Len(t) \in Nat
  BY <1>1
<1>3. \A i \in DOMAIN s : i \in DOMAIN (s \o t) /\ (s \o t)[i] = s[i]
  BY <1>1, <1>2
<1>4. \A i \in DOMAIN t : i + Len(s) \in DOMAIN (s \o t) /\ (s \o t)[i + Len(s)] = t[i]
  BY <1>1, <1>2
<1>5. ASSUME NEW i \in DOMAIN (s \o t)
      PROVE  \/ i \in DOMAIN s /\ (s \o t)[i] = s[i]
             \/ i - Len(s) \in DOMAIN t /\ (s \o t)[i] = t[i - Len(s)]
  <2>1. CASE i <= Len(s)
    BY <1>1, <1>2, <2>1
  <2>2. CASE i > Len(s)
    BY <1>1, <1>2, <2>2
  <2> QED
    BY <1>2, <2>1, <2>2
<1>6. ASSUME NEW u
      PROVE  (\E i \in DOMAIN (s \o t) : (s \o t)[i] = u)
               <=> (\E i \in DOMAIN s : s[i] = u) \/ (\E i \in DOMAIN t : t[i] = u)
  BY ONLY Zenon, <1>3, <1>4, <1>5
<1> QED
  BY Zenon, <1>1, <1>6

-----------------------------------------------------------------------------
(* Stop() *)

\* The tasks that Stop() queues in loop l are those for the listed connections.
DestroysListed(l) ==
  /\ DestroyTasks(l) \in Seq(TaskSet)
  /\ \A u : (\E i \in DOMAIN DestroyTasks(l) : DestroyTasks(l)[i] = u)
       <=> \E c \in Listed : owner_loop_[c] = l /\ u = Task("destroy", c)

(***************************************************************************)
(* Stop() has joined the pool: the connections that are still listed are   *)
(* destroyed at once, or ConnectionDestroy() is queued in their loops.     *)
(***************************************************************************)
LEMMA StopKeeps ==
  ASSUME Inv, PoolInv, StopConnections, \A l : DestroysListed(l)
  PROVE  Inv'
<1>1. /\ running_ /\ stage = "serving" /\ running_' = FALSE /\ stage' = "stopped"
      /\ UNCHANGED <<loops_, fd_, owner_loop_, downs, listvars, held, accvars>>
  BY DEF StopConnections, PoolStopReturn, PoolInv
<1>2. Types /\ ListInv /\ \A d \in Conns : ConnInv(d)
  BY Zenon DEF Inv, ConnsInv
<1>3. ListInv' /\ Listed' = Listed
  BY <1>1, <1>2 DEF ListInv, Listed, listvars
<1>4. CASE loops_ = {}
  <2>1. /\ state_' = [c \in Conns |-> IF c \in Listed THEN "DISCONNECTED" ELSE state_[c]]
        /\ listening' = [c \in Conns |-> listening[c] /\ c \notin Listed] /\ UNCHANGED queue
    BY Zenon, <1>4 DEF StopConnections, ToDestroy
  <2>2. \A d \in Listed : state_[d] # "none"
    BY Zenon, <1>2, ListedFacts DEF ConnInv
  <2>3. state_' \in [Conns -> ConnStates] /\ listening' \in [Conns -> BOOLEAN]
    BY Zenon, <1>2, <2>1 DEF Types, ConnStates
  <2>4. backlog' \subseteq {d \in Conns : state_'[d] = "none"}
    BY <1>1, <1>2, <2>1, <2>2 DEF Types, accvars
  <2>5. Types'
    BY Zenon, <1>1, <1>2, <2>1, <2>3, <2>4 DEF Types
  <2>6. \A k, d : At(k, d)' = At(k, d)
    BY Zenon, <2>1 DEF At, Holders
  <2>7. ASSUME NEW d \in Conns PROVE ConnInv(d)'
    <3>1. /\ state_'[d] = (IF d \in Listed THEN "DISCONNECTED" ELSE state_[d])
          /\ listening'[d] <=> (listening[d] /\ d \notin Listed)
      BY Zenon, <2>1
    <3>2. ConnInv(d) /\ listening[d] \in BOOLEAN
      BY <1>2 DEF Types
    <3>3. CASE d \in Listed
      <4>1. state_'[d] = "DISCONNECTED" /\ ~listening'[d] /\ state_[d] # "none"
        BY Zenon, <2>2, <3>1, <3>3
      <4>2. owner_loop_[d] = Base
        BY Zenon, <1>4, <3>2, <4>1 DEF ConnInv
      <4>3. At("established", d) = {} /\ At("remove", d) = {} /\ At("destroy", d) = {}
        BY Zenon, <1>1, <3>2, <4>2 DEF ConnInv
      <4> QED
        BY Zenon, <1>1, <1>3, <2>6, <3>2, <4>1, <4>2, <4>3 DEF ConnInv
    <3>4. CASE d \notin Listed
      <4>1. state_'[d] = state_[d] /\ (listening'[d] <=> listening[d])
        BY Zenon, <3>1, <3>4
      <4>2. state_[d] \notin {"CONNECTING", "CONNECTED"}
        BY Zenon, <1>1, <3>2, <3>4 DEF ConnInv
      <4> QED
        BY Zenon, <1>1, <1>3, <2>6, <3>2, <4>1, <4>2 DEF ConnInv
    <3> QED
      BY <3>3, <3>4
  <2> QED
    BY <1>3, <2>5, <2>7 DEF Inv, ConnsInv
<1>5. CASE loops_ # {}
  <2>1. /\ queue' = [l \in Loops |-> queue[l] \o DestroyTasks(l)] /\ UNCHANGED <<state_, listening>>
    BY <1>5 DEF StopConnections
  <2>2. ASSUME NEW l \in Loops
        PROVE  /\ queue'[l] \in Seq(TaskSet)
               /\ \A u : (\E i \in DOMAIN queue'[l] : queue'[l][i] = u)
                    <=> \/ \E i \in DOMAIN queue[l] : queue[l][i] = u
                        \/ \E c \in Listed : owner_loop_[c] = l /\ u = Task("destroy", c)
    <3>1. queue[l] \in Seq(TaskSet) /\ queue'[l] = queue[l] \o DestroyTasks(l)
      BY <1>2, <2>1 DEF Types, Queues
    <3>2. /\ DestroyTasks(l) \in Seq(TaskSet)
          /\ \A u : (\E i \in DOMAIN DestroyTasks(l) : DestroyTasks(l)[i] = u)
               <=> \E c \in Listed : owner_loop_[c] = l /\ u = Task("destroy", c)
      <4>1. DestroysListed(l)
        BY Zenon
      <4> QED
        BY ONLY Zenon, <4>1 DEF DestroysListed
    <3>3. /\ queue[l] \o DestroyTasks(l) \in Seq(TaskSet)
          /\ \A u : (\E i \in DOMAIN (queue[l] \o DestroyTasks(l)) : (queue[l] \o DestroyTasks(l))[i] = u)
               <=> \/ \E i \in DOMAIN queue[l] : queue[l][i] = u
                   \/ \E i \in DOMAIN DestroyTasks(l) : DestroyTasks(l)[i] = u
      BY Zenon, <3>1, <3>2, ConcatFacts
    <3> QED
      BY ONLY Zenon, <3>1, <3>2, <3>3
  <2>3. queue' \in Queues
    BY Zenon, <2>1, <2>2 DEF Queues
  <2>4. Types'
    BY <1>1, <1>2, <2>1, <2>3 DEF Types, accvars
  <2>5. ASSUME NEW k \in Kinds, NEW d \in Conns
        PROVE  /\ k # "destroy" \/ d \notin Listed => At(k, d)' = At(k, d)
               /\ k = "destroy" /\ d \in Listed => At(k, d)' = At(k, d) \cup {owner_loop_[d]}
    <3>1. Listed \subseteq Conns /\ owner_loop_[d] \in Loops
      BY <1>2, ListedFacts DEF Types
    <3>2. \A c \in Listed : Task(k, d) = Task("destroy", c) <=> k = "destroy" /\ c = d
      BY ZenonT(40), <3>1, DestroyTask
    <3>3. ASSUME NEW l \in Loops
          PROVE  l \in At(k, d)' <=> l \in At(k, d) \/ (k = "destroy" /\ d \in Listed /\ owner_loop_[d] = l)
      <4>1. l \in At(k, d)' <=> \E i \in DOMAIN queue'[l] : queue'[l][i] = Task(k, d)
        BY DEF At, Holders
      <4>2. l \in At(k, d) <=> \E i \in DOMAIN queue[l] : queue[l][i] = Task(k, d)
        BY Zenon DEF At, Holders
      <4>3. (\E i \in DOMAIN queue'[l] : queue'[l][i] = Task(k, d))
              <=> \/ \E i \in DOMAIN queue[l] : queue[l][i] = Task(k, d)
                  \/ \E c \in Listed : owner_loop_[c] = l /\ Task(k, d) = Task("destroy", c)
        BY ONLY ZenonT(40), <2>2, l \in Loops
      <4> QED
        BY ONLY <3>2, <4>1, <4>2, <4>3
    <3>4. At(k, d) \subseteq Loops /\ At(k, d)' \subseteq Loops
      BY DEF At, Holders
    <3> QED
      BY ONLY Zenon, <3>1, <3>3, <3>4
  <2>6. ASSUME NEW d \in Conns PROVE ConnInv(d)'
    <3>1. ConnInv(d)
      BY <1>2
    <3>2. /\ At("close", d)' = At("close", d) /\ At("established", d)' = At("established", d)
          /\ At("remove", d)' = At("remove", d)
          /\ d \notin Listed => At("destroy", d)' = At("destroy", d)
          /\ d \in Listed => At("destroy", d)' = At("destroy", d) \cup {owner_loop_[d]}
      BY Zenon, <2>5 DEF Kinds
    <3>3. d \in Listed => owner_loop_[d] # Base /\ state_[d] # "none"
      <4>1. d \in Listed => state_[d] # "none" /\ owner_loop_[d] \in loops_
        BY <1>5, <3>1 DEF ConnInv
      <4> QED
        BY Zenon, <4>1, LoopFacts DEF PoolInv
    <3>4. CASE d \in Listed
      <4>1. At("destroy", d)' = {owner_loop_[d]}
        BY Zenon, <3>1, <3>2, <3>4 DEF ConnInv
      <4> QED
        BY Zenon, <1>1, <1>3, <2>1, <3>1, <3>2, <3>3, <3>4, <4>1 DEF ConnInv
    <3>5. CASE d \notin Listed
      <4>1. \A k \in Kinds : At(k, d)' = At(k, d)
        BY ZenonT(40), <3>2, <3>5 DEF Kinds
      <4>2. state_[d] \notin {"CONNECTING", "CONNECTED"}
        BY <1>1, <3>1, <3>5 DEF ConnInv
      <4> QED
        BY Zenon, <1>1, <1>3, <2>1, <3>1, <3>2, <3>5, <4>1, <4>2 DEF ConnInv
    <3> QED
      BY <3>4, <3>5
  <2> QED
    BY <1>3, <2>4, <2>6 DEF Inv, ConnsInv
<1> QED
  BY <1>4, <1>5

\* The initial states.
LEMMA InvInit ==
  ASSUME Init
  PROVE  Inv
<1>1. /\ state_ = [c \in Conns |-> "none"] /\ fd_ = [c \in Conns |-> -1]
      /\ owner_loop_ = [c \in Conns |-> Base] /\ listening = [c \in Conns |-> FALSE]
      /\ downs = [c \in Conns |-> 0] /\ queue = [l \in Loops |-> <<>>] /\ held = {}
      /\ tcp_conn_list_ = [f \in Fds |-> NULL] /\ tcp_conn_count_ = 0 /\ backlog = {}
  BY DEF Init, AcceptorInit
<1>2. queue \in Queues /\ Singles(queue)
  BY <1>1 DEF Queues, Singles, Single
<1>3. Types
  BY <1>1, <1>2, LoopFacts DEF Types, ConnStates
<1>4. Listed = {}
  BY <1>1 DEF Listed
<1>5. ListInv
  BY <1>1 DEF ListInv
<1>6. \A k, d : At(k, d) = {}
  BY <1>1 DEF At, Holders
<1>7. ASSUME NEW d \in Conns PROVE ConnInv(d)
  BY Zenon, <1>1, <1>4, <1>6 DEF ConnInv
<1> QED
  BY Zenon, <1>3, <1>5, <1>7 DEF Inv, ConnsInv

\* Every step keeps the invariant.
LEMMA InvStep ==
  ASSUME Inv, PoolInv, [Next]_vars, \A l : DestroysListed(l)
  PROVE  Inv'
<1>1. ASSUME NEW n \in 0..MaxThreads, SetEventLoopNums(n) PROVE Inv'
  <2>1. n = thread_nums_'
    BY <1>1 DEF SetEventLoopNums, SetThreadNums
  <2> QED
    BY <1>1, <2>1, AcceptorKeeps
<1>2. CASE \/ OtherThreads \/ AcceptorStep \/ (\E c \in Conns : NewClient(c))
           \/ Stop \/ (\E l \in alive : LoopExit(l)) \/ UNCHANGED vars
  BY <1>2, AcceptorKeeps
<1> QED
  BY <1>1, <1>2, StartKeeps, NewConnectionKeeps, UserKeeps, RunTaskKeeps, StopKeeps, DestroyKeeps
     DEF Next

-----------------------------------------------------------------------------
(* The list, its count and what follows from the invariant *)

\* How a step changes the list and its count.
ListStep ==
  \/ UNCHANGED listvars
  \/ \E c \in Listed : Listed' = Listed \ {c} /\ tcp_conn_count_' = tcp_conn_count_ - 1
  \/ \E c \in Conns \ Listed : Listed' = Listed \cup {c} /\ tcp_conn_count_' = tcp_conn_count_ + 1
  \/ Listed' = {} /\ tcp_conn_count_' = 0

\* Every handler that changes the list counts the change.
LEMMA ListSteps ==
  ASSUME Inv, PoolInv, [Next]_vars
  PROVE  ListStep
<1>0. ListInv /\ Types
  BY DEF Inv
<1>1. CASE UNCHANGED listvars
  BY <1>1 DEF ListStep
<1>2. ASSUME NEW c \in Listed, UNCHANGED fd_, DelConnListItem(c) PROVE ListStep
  <2>1. Listed' = Listed \ {c}
    BY <1>0, <1>2, DelFacts
  <2> QED
    BY Zenon, <1>2, <2>1 DEF ListStep, DelConnListItem
<1>3. ASSUME NEW c \in Conns, NEW f \in Fds, OnNewConnection(c, f) PROVE ListStep
  <2>1. /\ AddConnListItem(c, f) /\ fd_' = [fd_ EXCEPT ![c] = f] /\ NewFd(f, Used) /\ c \in backlog
    BY <1>3 DEF OnNewConnection, Accept
  <2>2. state_[c] = "none" /\ ConnInv(c) /\ fd_ \in [Conns -> Fds \cup {-1}]
    BY Zenon, <1>0, <2>1 DEF Types, Inv, ConnsInv
  <2>3. c \notin Listed /\ tcp_conn_list_[f] = NULL
    BY Zenon, <1>0, <2>1, <2>2, SlotEmpty DEF ConnInv
  <2>4. Listed' = Listed \cup {c}
    BY Zenon, <1>0, <2>1, <2>2, <2>3, AddFacts
  <2> QED
    BY Zenon, <2>1, <2>3, <2>4 DEF ListStep, AddConnListItem
<1>4. ASSUME NEW c \in Conns, NEW rest, HandleClose(c, rest), running_, state_[c] = "CONNECTED"
      PROVE  ListStep
  <2>1. c \in Listed
    BY Zenon, <1>4 DEF Inv, ConnsInv, ConnInv, PoolInv
  <2>2. UNCHANGED listvars \/ (DelConnListItem(c) /\ UNCHANGED fd_)
    BY Zenon, <1>4 DEF HandleClose, OnConnectionRemove
  <2> QED
    BY Zenon, <1>1, <1>2, <2>1, <2>2
<1>5. ASSUME NEW c \in Conns, CloseEvent(c) PROVE ListStep
  <2>1. listening[c] /\ running_ /\ HandleClose(c, queue)
    BY Zenon, <1>5 DEF CloseEvent, Runs, Serving, PoolInv
  <2>2. state_[c] = "CONNECTED"
    BY Zenon, <2>1 DEF Inv, ConnsInv, ConnInv
  <2> QED
    BY Zenon, <1>4, <2>1, <2>2
<1>6. ASSUME NEW l \in Loops, RunTask(l) PROVE ListStep
  <2>1. PICK c \in Conns, k \in Kinds : c = First(l).conn /\ k = First(l).kind /\ l \in At(k, c) /\ running_
    BY <1>6, FirstTask
  <2>2. \/ UNCHANGED listvars
        \/ k = "close" /\ HandleClose(c, Rest(l)) /\ state_[c] \notin {"DISCONNECTING", "DISCONNECTED"}
        \/ k = "remove" /\ DelConnListItem(c) /\ UNCHANGED fd_
    BY Zenon, <1>6, <2>1 DEF RunTask, ForceCloseInLoop, OnConnectionRemoveInLoop, First, Rest, Take, connvars
  <2>3. ConnInv(c) /\ state_[c] \in ConnStates
    BY Zenon, <1>0 DEF Types, Inv, ConnsInv
  <2>4. CASE k = "close" /\ HandleClose(c, Rest(l)) /\ state_[c] \notin {"DISCONNECTING", "DISCONNECTED"}
    <3>1. state_[c] = "CONNECTED"
      BY Zenon, <2>1, <2>3, <2>4 DEF ConnInv, ConnStates
    <3> QED
      BY Zenon, <1>4, <2>1, <2>4, <3>1
  <2>5. CASE k = "remove" /\ DelConnListItem(c) /\ UNCHANGED fd_
    <3>1. c \in Listed
      BY Zenon, <2>1, <2>3, <2>5 DEF ConnInv
    <3> QED
      BY Zenon, <1>2, <2>5, <3>1
  <2> QED
    BY Zenon, <1>1, <2>2, <2>4, <2>5
<1>7. CASE DestroyServer
  <2>1. Listed' = {} /\ tcp_conn_count_' = 0
    BY Zenon, <1>7 DEF DestroyServer, Listed
  <2> QED
    BY Zenon, <2>1 DEF ListStep
<1>8. CASE \/ (\E n \in 0..MaxThreads : SetEventLoopNums(n)) \/ Start \/ Stop \/ OtherThreads
           \/ AcceptorStep \/ (\E c \in Conns : NewClient(c)) \/ (\E l \in alive : LoopExit(l))
           \/ StopConnections \/ UNCHANGED vars
  BY Zenon, <1>1, <1>8 DEF SetEventLoopNums, Start, Stop, OtherThreads, AcceptorStep, NewClient, LoopExit,
                    StopConnections, vars, servervars
<1>9. CASE \E c \in Conns : Keep(c) \/ Release(c) \/ ForceClose(c)
  BY Zenon, <1>1, <1>9 DEF Keep, Release, ForceClose
<1> QED
  BY <1>3, <1>5, <1>6, <1>7, <1>8, <1>9 DEF Next

\* The list is counted.
CountInv == tcp_conn_count_ = Cardinality(Listed)

\* What the list is like.
LEMMA ListImplied ==
  ASSUME Inv, PoolInv, CountInv
  PROVE  ListConsistent
<1>1. DumpConnections
  BY DEF Inv, ListInv, CountInv, DumpConnections
<1>2. ASSUME NEW f \in Free(Used) PROVE tcp_conn_list_[f] = NULL
  <2>1. f \in Fds /\ f \notin Used
    BY <1>2 DEF Free
  <2>2. ASSUME tcp_conn_list_[f] # NULL PROVE FALSE
    <3>1. tcp_conn_list_[f] \in Alive /\ fd_[tcp_conn_list_[f]] = f
      BY ZenonT(40), <2>1, <2>2 DEF Alive, Inv, ListInv
    <3> QED
      BY <2>1, <3>1 DEF Used
  <2> QED
    BY <2>2
<1>3. ASSUME NEW c \in Listed PROVE owner_loop_[c] \in loops_ \cup {Base}
  <2>1. c \in Conns /\ ConnInv(c)
    BY Zenon, ListedFacts DEF Inv, ConnsInv
  <2> QED
    BY <2>1 DEF ConnInv
<1>4. ASSUME NEW c \in Conns, state_[c] = "DISCONNECTING", Serving
      PROVE  (tcp_conn_list_[fd_[c]] = c)
               <=> (Task("remove", c) \in {queue[Base][i] : i \in DOMAIN queue[Base]})
  <2>1. ConnInv(c) /\ running_ /\ ListInv
    BY <1>4 DEF Serving, Inv, ConnsInv
  <2>2. (Task("remove", c) \in {queue[Base][i] : i \in DOMAIN queue[Base]}) <=> Base \in At("remove", c)
    BY Zenon, LoopFacts DEF At, Holders
  <2>3. fd_[c] \in Fds
    BY Zenon, <1>4, <2>1 DEF ConnInv
  <2>4. (tcp_conn_list_[fd_[c]] = c) <=> c \in Listed
    BY Zenon, <2>1, <2>3, ListedFacts, NullAssumption
  <2>5. c \in Listed <=> Base \in At("remove", c)
    BY ZenonT(40), <1>4, <2>1 DEF ConnInv
  <2> QED
    BY Zenon, <2>2, <2>4, <2>5
<1> QED
  BY Zenon, <1>1, <1>2, <1>3, <1>4 DEF ListConsistent

\* How often a connection went down.
LEMMA DownImplied ==
  ASSUME Inv
  PROVE  DownOnce
<1> SUFFICES ASSUME NEW c \in Conns
             PROVE  /\ downs[c] <= 1
                    /\ state_[c] \in {"none", "CONNECTING", "CONNECTED"} => downs[c] = 0
  BY DEF DownOnce
<1>1. downs[c] \in {0, 1} /\ ConnInv(c)
  BY DEF Inv, Types, ConnsInv
<1> QED
  BY <1>1 DEF ConnInv

\* Connections without a pointer.
LEMMA FreedImplied ==
  ASSUME Inv, PoolInv
  PROVE  FreedClean
<1> SUFFICES ASSUME NEW c \in Conns, state_[c] # "none", c \notin Alive
             PROVE  state_[c] = "DISCONNECTED" /\ ~listening[c]
  BY DEF FreedClean, Created
<1>1. ConnInv(c) /\ state_[c] \in ConnStates /\ queue \in Queues /\ listening[c] \in BOOLEAN
  BY Zenon DEF Inv, Types, ConnsInv
<1>2. c \notin Listed /\ c \notin ConnsIn(queue)
  BY <1>1, AliveFacts
<1>3. \A k \in Kinds : At(k, c) = {}
  BY <1>2 DEF ConnsIn, At
<1>4. At("established", c) = {} /\ At("remove", c) = {} /\ At("destroy", c) = {}
  BY Zenon, <1>3 DEF Kinds
<1>5. state_[c] \notin {"CONNECTING", "CONNECTED", "DISCONNECTING"}
  BY Zenon, <1>1, <1>2, <1>4 DEF ConnInv, PoolInv
<1> QED
  BY Zenon, <1>1, <1>5 DEF ConnInv, ConnStates

-----------------------------------------------------------------------------
(* The acceptor's spare descriptor *)

\* What the spare descriptor is at each step of the acceptor, and that nobody
\* else holds it.
IdleInv ==
  /\ step \in {"poll", "accept", "drop", "reopen"}
  /\ others \subseteq Fds /\ opened \cap (Used \cup others) = {}
  /\ stage # "gone" => opened = IF step \in {"poll", "accept"} THEN {idle_fd_} \ {-1} ELSE {}

(***************************************************************************)
(* A connection that lost its last pointer never gets one again: only      *)
(* OnNewConnection() makes one that is new alive.                          *)
(***************************************************************************)
LEMMA AliveShrinks ==
  ASSUME Inv, PoolInv, Inv', Next, \A l : DestroysListed(l),
         ~ \E c \in Conns, f \in Fds : OnNewConnection(c, f)
  PROVE  Used' \subseteq Used
<1>1. /\ queue \in Queues /\ queue' \in Queues /\ owner_loop_ \in [Conns -> Loops]
      /\ held \subseteq Conns
      /\ tcp_conn_list_ \in [Fds -> Conns \cup {NULL}] /\ UNCHANGED fd_
  <2>1. UNCHANGED fd_
    BY Zenon DEF Next, SetEventLoopNums, Start, OtherThreads, AcceptorStep, NewClient, CloseEvent, Keep,
           Release, ForceClose, RunTask, Stop, LoopExit, StopConnections, DestroyServer, HandleClose,
           ForceCloseInLoop, OnConnectionRemoveInLoop, servervars, connvars
  <2> QED
    BY <2>1 DEF Inv, Types, ListInv
<1>2. Alive = Listed \cup ConnsIn(queue) \cup held
  BY <1>1, AliveFacts
<1>3. Alive' = Listed' \cup ConnsIn(queue') \cup held'
  BY <1>1, AliveNext
<1>4. SUFFICES Alive' \subseteq Alive
  BY Zenon, <1>1 DEF Used
<1>5. CASE UNCHANGED <<listvars, queue, held>>
  BY Zenon, <1>2, <1>3, <1>5 DEF Listed, listvars
<1>6. ASSUME NEW c \in Conns, CloseEvent(c) PROVE Alive' \subseteq Alive
  <2>1. /\ c \in Alive /\ UNCHANGED held
        /\ queue' = queue \/ queue' = Put(queue, Base, Task("remove", c))
        /\ UNCHANGED tcp_conn_list_ \/ tcp_conn_list_' = [tcp_conn_list_ EXCEPT ![fd_[c]] = NULL]
    BY Zenon, <1>6 DEF CloseEvent, HandleClose, OnConnectionRemove, DelConnListItem, Put, listvars
  <2>2. Listed' \subseteq Listed
    BY Zenon, <1>1, <2>1 DEF Listed
  <2>3. Task("remove", c) \in TaskSet /\ Task("remove", c).conn = c
    BY Zenon, TaskFacts DEF Kinds
  <2>4. ConnsIn(queue') \subseteq ConnsIn(queue) \cup {c}
    BY Zenon, <1>1, <2>1, <2>3, ConnsInFacts, LoopFacts
  <2> QED
    BY <1>2, <1>3, <2>1, <2>2, <2>4
<1>7. ASSUME NEW c \in Conns, Keep(c) \/ Release(c) PROVE Alive' \subseteq Alive
  <2>1. /\ held' \subseteq held \cup Alive /\ UNCHANGED <<listvars, queue>>
    BY Zenon, Zenon, <1>7 DEF Keep, Release
  <2>2. Listed' = Listed
    BY Zenon, <2>1 DEF Listed, listvars
  <2> QED
    BY <1>2, <1>3, <2>1, <2>2
<1>8. ASSUME NEW c \in Conns, ForceClose(c) PROVE Alive' \subseteq Alive
  <2>1. /\ c \in held /\ queue' = Put(queue, owner_loop_[c], Task("close", c))
        /\ UNCHANGED <<listvars, held>>
    BY Zenon, <1>8 DEF ForceClose, Put
  <2>2. Task("close", c) \in TaskSet /\ Task("close", c).conn = c
    BY TaskFacts DEF Kinds
  <2>3. ConnsIn(queue') \subseteq ConnsIn(queue) \cup {c}
    BY Zenon, <1>1, <2>1, <2>2, ConnsInFacts
  <2>4. Listed' = Listed
    BY Zenon, <2>1 DEF Listed, listvars
  <2> QED
    BY <1>2, <1>3, <2>1, <2>3, <2>4
<1>9. ASSUME NEW l \in Loops, RunTask(l) PROVE Alive' \subseteq Alive
  <2>1. UNCHANGED held
    BY <1>9 DEF RunTask
  <2> QED
    BY Zenon, <1>2, <1>3, <1>9, <2>1, RunTaskConns
<1>10. CASE StopConnections
  <2>1. /\ UNCHANGED <<listvars, held>>
        /\ queue' = queue \/ queue' = [l \in Loops |-> queue[l] \o DestroyTasks(l)]
    BY Zenon, <1>10 DEF StopConnections
  <2>2. Listed' = Listed
    BY Zenon, <2>1 DEF Listed, listvars
  <2>3. ASSUME NEW d \in ConnsIn(queue'), queue' # queue PROVE d \in ConnsIn(queue) \cup Listed
    <3>1. PICK k \in Kinds, l \in Loops : d \in Conns /\ \E i \in DOMAIN queue'[l] : queue'[l][i] = Task(k, d)
      BY <2>3 DEF ConnsIn, Holders
    <3>2. /\ queue'[l] = queue[l] \o DestroyTasks(l) /\ queue[l] \in Seq(TaskSet)
      BY Zenon, <1>1, <2>1, <2>3 DEF Queues
    <3>3. /\ DestroyTasks(l) \in Seq(TaskSet)
          /\ \A u : (\E i \in DOMAIN DestroyTasks(l) : DestroyTasks(l)[i] = u)
               <=> \E c \in Listed : owner_loop_[c] = l /\ u = Task("destroy", c)
      <4>1. DestroysListed(l)
        BY Zenon
      <4> QED
        BY ONLY Zenon, <4>1 DEF DestroysListed
    <3>4. \/ \E i \in DOMAIN queue[l] : queue[l][i] = Task(k, d)
          \/ \E i \in DOMAIN DestroyTasks(l) : DestroyTasks(l)[i] = Task(k, d)
      <4>1. \A u : (\E i \in DOMAIN (queue[l] \o DestroyTasks(l)) : (queue[l] \o DestroyTasks(l))[i] = u)
              <=> (\E i \in DOMAIN queue[l] : queue[l][i] = u)
                    \/ (\E i \in DOMAIN DestroyTasks(l) : DestroyTasks(l)[i] = u)
        BY Zenon, <3>2, <3>3, ConcatFacts
      <4> QED
        BY Zenon, <3>1, <3>2, <4>1
    <3>5. CASE \E i \in DOMAIN queue[l] : queue[l][i] = Task(k, d)
      BY Zenon, <3>1, <3>5 DEF ConnsIn, Holders
    <3>6. CASE \E i \in DOMAIN DestroyTasks(l) : DestroyTasks(l)[i] = Task(k, d)
      <4>1. PICK c \in Listed : Task(k, d) = Task("destroy", c)
        BY Zenon, <3>3, <3>6
      <4>2. c \in Conns
        BY ListedFacts DEF Inv
      <4> QED
        BY Zenon, <3>1, <4>1, <4>2, DestroyTask
    <3> QED
      BY Zenon, <3>4, <3>5, <3>6
  <2> QED
    BY <1>2, <1>3, <2>1, <2>2, <2>3
<1>11. CASE DestroyServer
  <2>1. Listed' = {} /\ UNCHANGED <<queue, held>>
    BY Zenon, <1>11 DEF DestroyServer, Listed
  <2> QED
    BY <1>2, <1>3, <2>1
<1> QED
  BY Zenon, <1>5, <1>6, <1>7, <1>8, <1>9, <1>10, <1>11
     DEF Next, SetEventLoopNums, Start, OtherThreads, AcceptorStep, NewClient, Stop, LoopExit, servervars

\* The initial states.
LEMMA IdleInit ==
  ASSUME Init
  PROVE  IdleInv
<1>1. /\ step = "poll" /\ Least(idle_fd_, Fds) /\ opened = {idle_fd_} /\ others = {}
      /\ tcp_conn_list_ = [f \in Fds |-> NULL] /\ queue = [l \in Loops |-> <<>>] /\ held = {}
  BY DEF Init, AcceptorInit
<1>2. Alive = {}
  BY <1>1 DEF Alive, Queued
<1>3. idle_fd_ # -1
  BY <1>1, FdAssumption DEF Least
<1> QED
  BY Zenon, <1>1, <1>2, <1>3 DEF IdleInv, Used

\* Every step keeps the spare descriptor's invariant.
LEMMA IdleStep ==
  ASSUME Inv, Inv', PoolInv, IdleInv, [Next]_vars, \A l : DestroysListed(l)
  PROVE  IdleInv'
<1>1. ASSUME NEW c \in Conns, NEW f \in Fds, OnNewConnection(c, f) PROVE IdleInv'
  <2>1. /\ step \in {"poll", "accept"} /\ step' = "accept" /\ f \notin opened
        /\ UNCHANGED <<idle_fd_, opened, others, stage>>
    <3>1. Accept(c, f, Used) /\ UNCHANGED stage
      BY <1>1 DEF OnNewConnection
    <3>2. f \notin opened
      BY <3>1, NewFdFacts DEF Accept
    <3> QED
      BY Zenon, <3>1, <3>2 DEF Accept, Accepting
  <2>2. Used' \subseteq Used \cup {f}
    <3>1. /\ queue \in Queues /\ queue' \in Queues /\ UNCHANGED held
          /\ fd_ \in [Conns -> Fds \cup {-1}] /\ fd_' = [fd_ EXCEPT ![c] = f]
          /\ tcp_conn_list_ \in [Fds -> Conns \cup {NULL}]
          /\ tcp_conn_list_' = [tcp_conn_list_ EXCEPT ![f] = c]
          /\ queue' = queue \/ \E l \in Loops : queue' = Put(queue, l, Task("established", c))
      <4>1. picked' = {} \/ \E l \in loops_ : picked' = {l}
        BY Zenon, <1>1, PickFacts DEF OnNewConnection
      <4>2. loops_ \subseteq Loops
        BY Zenon, LoopFacts DEF PoolInv
      <4>3. queue' = queue \/ \E l \in Loops : queue' = Put(queue, l, Task("established", c))
        BY <1>1, <4>1, <4>2 DEF OnNewConnection, Put
      <4>4. UNCHANGED held /\ fd_' = [fd_ EXCEPT ![c] = f]
            /\ tcp_conn_list_' = [tcp_conn_list_ EXCEPT ![f] = c]
        BY Zenon, <1>1 DEF OnNewConnection, AddConnListItem
      <4> QED
        BY Zenon, <4>3, <4>4 DEF Inv, Types, ListInv
    <3>2. Task("established", c) \in TaskSet /\ Task("established", c).conn = c
      BY Zenon, TaskFacts DEF Kinds
    <3>3. ConnsIn(queue') \subseteq ConnsIn(queue) \cup {c}
      BY <3>1, <3>2, ConnsInFacts
    <3>4. Listed' \subseteq Listed \cup {c}
      BY Zenon, <3>1 DEF Listed
    <3>5. /\ Alive = Listed \cup ConnsIn(queue) \cup held
          /\ Alive' = Listed' \cup ConnsIn(queue') \cup held'
      BY Zenon, <3>1, AliveFacts, AliveNext
    <3>6. Alive' \subseteq Alive \cup {c}
      BY Zenon, <3>1, <3>3, <3>4, <3>5
    <3>7. \A d : d # c => fd_'[d] = fd_[d]
      BY <3>1
    <3> QED
      BY Zenon, <3>1, <3>6, <3>7 DEF Used
  <2> QED
    BY <2>1, <2>2 DEF IdleInv
<1>2. CASE UNCHANGED vars
  <2>1. Used' = Used
    BY <1>2 DEF vars, servervars, connvars, listvars, Used, Alive, Queued
  <2> QED
    BY ZenonT(40), <1>2, <2>1 DEF IdleInv, vars, servervars, accvars
<1>3. CASE Next /\ ~ \E c \in Conns, f \in Fds : OnNewConnection(c, f)
  <2>1. Used' \subseteq Used
    BY <1>3, AliveShrinks
  <2>2. CASE UNCHANGED accvars /\ (stage' # "gone" => stage # "gone")
    BY Zenon, <2>1, <2>2 DEF IdleInv, accvars
  <2>3. CASE OtherThreads
    <3>1. PICK f \in Fds : OthersOpen(f, Used) \/ OthersClose(f)
      BY Zenon, <2>3 DEF OtherThreads
    <3>2. UNCHANGED <<step, idle_fd_, opened, stage>>
      BY <2>3, <3>1 DEF OtherThreads, OthersOpen, OthersClose, servervars
    <3>3. others' \cap opened \subseteq others \cap opened /\ others' \subseteq others \cup {f}
      <4>1. CASE OthersOpen(f, Used)
        BY <4>1, NewFdFacts DEF OthersOpen, Free
      <4>2. CASE OthersClose(f)
        BY Zenon, <4>2 DEF OthersClose
      <4> QED
        BY Zenon, <3>1, <4>1, <4>2
    <3> QED
      BY <2>1, <3>2, <3>3 DEF IdleInv
  <2>4. CASE AcceptorStep
    <3>1. UNCHANGED <<stage, others>> /\ HandleReadFails(Used)
      BY Zenon, <2>4 DEF AcceptorStep, servervars, HandleReadFails, AcceptBad, AcceptError, AcceptNone,
                  AcceptFull, DropConnection, Reopen
    <3>2. CASE Reopen(Used)
      <4>1. ASSUME NEW f \in Free(Used), idle_fd_' = f, opened' = opened \cup {f} PROVE IdleInv'
        <5>1. f # -1 /\ f \notin Used \cup others
          BY FdAssumption DEF Free
        <5> QED
          BY <2>1, <3>1, <3>2, <4>1, <5>1 DEF IdleInv, Reopen
      <4>2. CASE idle_fd_' = -1 /\ UNCHANGED opened
        BY Zenon, <2>1, <3>1, <3>2, <4>2 DEF IdleInv, Reopen
      <4> QED
        BY Zenon, <3>2, <4>1, <4>2 DEF Reopen
    <3>3. CASE DropConnection(Used)
      BY <2>1, <3>1, <3>3 DEF IdleInv, DropConnection
    <3>4. CASE AcceptFull(Used)
      BY Zenon, <2>1, <3>1, <3>4 DEF IdleInv, AcceptFull, Accepting
    <3>5. CASE AcceptNone(Used) \/ \E c \in backlog : AcceptBad(c, Used) \/ AcceptError(c, Used)
      BY Zenon, <2>1, <3>1, <3>5 DEF IdleInv, AcceptNone, AcceptBad, AcceptError, Accepting
    <3> QED
      BY Zenon, <3>1, <3>2, <3>3, <3>4, <3>5 DEF HandleReadFails
  <2>5. ASSUME NEW c \in Conns, NewClient(c) PROVE IdleInv'
    BY Zenon, <2>1, <2>5 DEF IdleInv, NewClient, Connect, servervars
  <2>6. CASE DestroyServer
    BY ZenonT(40), <2>1, <2>6 DEF IdleInv, DestroyServer, DestroyAcceptor
  <2>7. CASE (\E n \in 0..MaxThreads : SetEventLoopNums(n)) \/ Start \/ Stop
             \/ (\E l \in alive : LoopExit(l)) \/ StopConnections
    BY <2>2, <2>7 DEF SetEventLoopNums, Start, Stop, LoopExit, StopConnections, PoolInv, servervars,
                      PoolStopReturn, PoolStart
  <2>8. CASE \/ \E c \in Conns : CloseEvent(c) \/ Keep(c) \/ Release(c) \/ ForceClose(c)
             \/ \E l \in Loops : RunTask(l)
    BY Zenon, <2>2, <2>8 DEF CloseEvent, Keep, Release, ForceClose, RunTask
  <2> QED
    BY Zenon, <1>3, <2>3, <2>4, <2>5, <2>6, <2>7, <2>8 DEF Next
<1> QED
  BY Zenon, <1>1, <1>2, <1>3

\* What the spare descriptor is.
LEMMA IdleImplied ==
  ASSUME Inv, IdleInv
  PROVE  IdleOwned
<1> SUFFICES ASSUME step \in {"poll", "accept"}, stage # "gone"
             PROVE  opened = {idle_fd_} \ {-1} /\ idle_fd_ \notin Used \cup others
  BY DEF IdleOwned
<1>1. ASSUME NEW c \in Alive PROVE fd_[c] \in Fds
  <2>1. queue \in Queues /\ held \subseteq Conns /\ Listed \subseteq Conns
    BY ListedFacts DEF Inv, Types
  <2>2. c \in Listed \cup ConnsIn(queue) \cup held
    BY <1>1, <2>1, AliveFacts
  <2>3. c \in Conns /\ (c \in Listed \/ c \in held \/ \E k \in Kinds : At(k, c) # {})
    BY <2>1, <2>2 DEF ConnsIn, At
  <2>4. ConnInv(c)
    BY Zenon, <2>3 DEF Inv, ConnsInv
  <2> QED
    BY Zenon, <2>3, <2>4 DEF ConnInv
<1>2. -1 \notin Fds
  BY FdAssumption
<1>3. -1 \notin Used \cup others
  BY Zenon, <1>1, <1>2 DEF Used, IdleInv
<1> QED
  BY Zenon, <1>3 DEF IdleInv

-----------------------------------------------------------------------------
(* The results, with the theorems on finite sets *)

INSTANCE FiniteSetTheorems

\* The list is finite, as there are finitely many descriptors.
LEMMA FiniteList ==
  ASSUME ListInv
  PROVE  IsFiniteSet(Listed)
<1> DEFINE T == {tcp_conn_list_[f] : f \in Fds}
<1>1. tcp_conn_list_ \in Surjection(Fds, T)
  BY DEF ListInv, Surjection
<1> HIDE DEF T
<1>2. IsFiniteSet(T)
  BY Zenon, <1>1, FdAssumption, FS_Surjection
<1>3. Listed \subseteq T
  BY Zenon DEF Listed, T
<1> QED
  BY Zenon, <1>2, <1>3, FS_Subset

\* The tasks that Stop() queues in loop l.
LEMMA DestroyTasksFacts ==
  ASSUME ListInv, NEW l
  PROVE  DestroysListed(l)
<1> DEFINE S == {c \in ToDestroy : owner_loop_[c] = l}
           n == Cardinality(S)
           conns == CHOOSE s \in [1..n -> S] : \A c \in S : \E i \in DOMAIN s : s[i] = c
<1>1. S \in SUBSET Listed /\ IsFiniteSet(Listed) /\ Listed \subseteq Conns
  BY Zenon, ListedFacts, FiniteList DEF ToDestroy
<1>a. S = {c \in Listed : owner_loop_[c] = l}
  BY Zenon DEF ToDestroy
<1>2. DestroyTasks(l) = [i \in DOMAIN conns |-> Task("destroy", conns[i])]
  BY Zenon DEF DestroyTasks
<1> HIDE DEF S
<1>3. IsFiniteSet(S) /\ n \in Nat
  BY Zenon, <1>1, FS_Subset, FS_CardinalityType
<1>4. conns \in [1..n -> S] /\ \A x \in S : \E i \in 1..n : conns[i] = x
  <2>1. ExistsBijection(1..n, S)
    BY <1>3, FS_CardinalityType
  <2>2. \E s \in [1..n -> S] : \A c \in S : \E i \in DOMAIN s : s[i] = c
    BY Zenon, <2>1 DEF ExistsBijection, Bijection, Injection, Surjection
  <2> QED
    BY Zenon, <2>2
<1> HIDE DEF n, conns
<1>5. /\ DOMAIN DestroyTasks(l) = 1..n
      /\ \A i \in 1..n : DestroyTasks(l)[i] = Task("destroy", conns[i]) /\ conns[i] \in S
      /\ DestroyTasks(l) = [i \in 1..n |-> Task("destroy", conns[i])]
  BY <1>2, <1>4
<1>6. \A c \in S : Task("destroy", c) \in TaskSet
  BY Zenon, <1>1, TaskFacts DEF Kinds
<1>7. DestroyTasks(l) \in [1..n -> TaskSet]
  BY Zenon, <1>5, <1>6
<1>8. DestroyTasks(l) \in Seq(TaskSet)
  BY <1>3, <1>7
<1>9. ASSUME NEW u
      PROVE  (\E i \in DOMAIN DestroyTasks(l) : DestroyTasks(l)[i] = u)
               <=> \E c \in S : u = Task("destroy", c)
  BY <1>4, <1>5
<1> QED
  BY Zenon, <1>8, <1>9, <1>a DEF DestroysListed

\* The invariant of the server and its connections.
LEMMA InvHolds == Spec => []Inv
<1>1. Init => Inv
  BY InvInit
<1>2. Inv /\ PoolInv /\ [Next]_vars => Inv'
  BY InvStep, DestroyTasksFacts DEF Inv
<1> QED
  BY <1>1, <1>2, PoolHolds, PTL DEF Spec

\* The count.
LEMMA CountHolds == Spec => []CountInv
<1>1. Init => CountInv
  <2> SUFFICES ASSUME Init PROVE CountInv
    OBVIOUS
  <2>1. Listed = {} /\ tcp_conn_count_ = 0
    BY DEF Init, Listed
  <2> QED
    BY Zenon, <2>1, FS_EmptySet DEF CountInv
<1>2. Inv /\ PoolInv /\ CountInv /\ [Next]_vars => CountInv'
  <2> SUFFICES ASSUME Inv, PoolInv, CountInv, [Next]_vars PROVE CountInv'
    OBVIOUS
  <2>0. IsFiniteSet(Listed) /\ ListStep
    BY Zenon, FiniteList, ListSteps DEF Inv
  <2>1. CASE UNCHANGED listvars
    BY Zenon, <2>1 DEF CountInv, Listed, listvars
  <2>2. ASSUME NEW c \in Listed, Listed' = Listed \ {c}, tcp_conn_count_' = tcp_conn_count_ - 1
        PROVE  CountInv'
    BY Zenon, <2>0, <2>2, FS_RemoveElement DEF CountInv
  <2>3. ASSUME NEW c \in Conns \ Listed, Listed' = Listed \cup {c},
               tcp_conn_count_' = tcp_conn_count_ + 1
        PROVE  CountInv'
    BY ZenonT(40), <2>0, <2>3, FS_AddElement DEF CountInv
  <2>4. CASE Listed' = {} /\ tcp_conn_count_' = 0
    BY <2>4, FS_EmptySet DEF CountInv
  <2> QED
    BY ZenonT(40), <2>0, <2>1, <2>2, <2>3, <2>4 DEF ListStep
<1> QED
  BY <1>1, <1>2, InvHolds, PoolHolds, PTL DEF Spec

(***************************************************************************)
(* The list is indexed by descriptor and counted, a descriptor that is     *)
(* free has an empty slot, and a removal under way finds its connection.   *)
(***************************************************************************)
THEOREM ListStaysConsistent == Spec => []ListConsistent
<1>1. Inv /\ PoolInv /\ CountInv => ListConsistent
  BY ListImplied
<1> QED
  BY <1>1, InvHolds, PoolHolds, CountHolds, PTL

(***************************************************************************)
(* disconnection_cb_ is called at most once for a connection.              *)
(***************************************************************************)
THEOREM GoesDownOnce == Spec => []DownOnce
<1>1. Inv => DownOnce
  BY DownImplied
<1> QED
  BY <1>1, InvHolds, PTL

(***************************************************************************)
(* A connection is freed only when it is DISCONNECTED and epoll does not   *)
(* know its channel any more.                                              *)
(***************************************************************************)
THEOREM FreedConnectionsClean == Spec => []FreedClean
<1>1. Inv /\ PoolInv => FreedClean
  BY FreedImplied
<1> QED
  BY <1>1, InvHolds, PoolHolds, PTL

(***************************************************************************)
(* Whenever HandleRead() may close idle_fd_, it names the one descriptor   *)
(* that the acceptor has open, or none, and nobody else has got it.        *)
(***************************************************************************)
THEOREM IdleStaysOwned == Spec => []IdleOwned
<1>1. Init => IdleInv
  BY IdleInit
<1>2. Inv /\ Inv' /\ PoolInv /\ IdleInv /\ [Next]_vars => IdleInv'
  BY IdleStep, DestroyTasksFacts DEF Inv
<1>3. Inv /\ IdleInv => IdleOwned
  BY IdleImplied
<1> QED
  BY <1>1, <1>2, <1>3, InvHolds, PoolHolds, PTL DEF Spec
=============================================================================
