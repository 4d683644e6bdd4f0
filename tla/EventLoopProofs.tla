-------------------------- MODULE EventLoopProofs --------------------------
(***************************************************************************)
(* Proofs about EventLoop.tla and EventLoopThread.tla, for any set of      *)
(* threads, tasks and signals.                                             *)
(***************************************************************************)
EXTENDS EventLoopThread, SequenceTheorems, TLAPS

(***************************************************************************)
(* Type correctness: the fields of EventLoop keep their types and looping_ *)
(* is set exactly while Owner is inside Loop().                            *)
(***************************************************************************)
THEOREM TypeCorrect == Spec => []TypeOK
<1>1. Init => TypeOK
  <2>1. Init => /\ looping_ \in BOOLEAN /\ (looping_ <=> pc # "idle")
                /\ quit_ \in BOOLEAN /\ need_wakup_ \in BOOLEAN
                /\ wakeupfd \in BOOLEAN /\ draining \in BOOLEAN
                /\ sig_channel_ \in BOOLEAN
    BY Zenon DEF Init
  <2>2. Init => TypeOK!2 /\ TypeOK!3 /\ TypeOK!4 /\ TypeOK!5 /\ TypeOK!6 /\ TypeOK!8 /\ TypeOK!9
    BY DEF Init, PCs
  <2> QED
    BY <2>1, <2>2, Zenon DEF TypeOK, Init
<1>2. TypeOK /\ [Next]_vars => TypeOK'
  <2> SUFFICES ASSUME TypeOK, [Next]_vars PROVE TypeOK'
    OBVIOUS
  <2> USE DEF TypeOK, PCs, Channels, loopvars, taskvars, sigvars
  <2>1. CASE Loop
    BY <2>1 DEF Loop
  <2>1a. CASE LoopClearQuit
    BY Zenon, <2>1a DEF LoopClearQuit
  <2>1b. CASE LoopEnd
    BY Zenon, <2>1b DEF LoopEnd
  <2>2. CASE LoopTest
    <3>1. Len(submitted) \in Nat
      BY LenProperties
    <3> QED
      BY Zenon, <2>2, <3>1 DEF LoopTest
  <2>3. CASE PollReady \/ PollEvent \/ PollTimeout
    BY <2>3, ZenonT(60) DEF PollReady, PollEvent, PollTimeout, PollReturns, Ready
  <2>4. CASE HandleWakeup \/ HandleSignal \/ HandleEvent \/ CallbackReturn
    BY <2>4, ZenonT(60) DEF HandleWakeup, HandleSignal, HandleEvent, CallbackReturn
  <2>5. CASE MarkWakeup \/ TaskReturn \/ TasksDone
    BY Zenon, <2>5 DEF MarkWakeup, TaskReturn, TasksDone
  <2>6. CASE SwapTasks
    BY <2>6 DEF SwapTasks
  <2>7. CASE RunTask
    BY <2>7 DEF RunTask
  <2>8. CASE SetHandleSingnal
    BY <2>8 DEF SetHandleSingnal
  <2>9. ASSUME NEW s \in Signals, RaiseSignal(s) PROVE TypeOK'
    BY <2>9 DEF RaiseSignal
  <2>10. ASSUME NEW t \in Threads, NEW k \in Tasks, QueueInLoop(t, k) PROVE TypeOK'
    BY <2>10 DEF QueueInLoop
  <2>11. ASSUME NEW t \in Threads, NEW k \in Tasks, RunInLoop(t, k) PROVE TypeOK'
    <3>1. CASE QueueInLoop(t, k)
      BY <2>10, <3>1
    <3>2. CASE RunInLoop(t, k)!1
      BY <3>2
    <3> QED
      BY <2>11, <3>1, <3>2 DEF RunInLoop
  <2>12. ASSUME NEW t \in Threads, QueueInLoopWakeup(t) PROVE TypeOK'
    BY <2>12 DEF QueueInLoopWakeup
  <2>13. ASSUME NEW t \in Threads, Quit(t) PROVE TypeOK'
    BY <2>13 DEF Quit
  <2>14. ASSUME NEW t \in Threads, QuitWakeup(t) PROVE TypeOK'
    BY <2>14 DEF QuitWakeup
  <2>15. CASE UNCHANGED vars
    BY <2>15 DEF vars
  <2> QED
    BY <2>1, <2>1a, <2>1b, <2>2, <2>3, <2>4, <2>5, <2>6, <2>7, <2>8, <2>9, <2>10, <2>11,
       <2>12, <2>13, <2>14, <2>15 DEF Next, LoopStep, Call
<1> QED
  BY <1>1, <1>2, PTL DEF Spec

(***************************************************************************)
(* The inductive invariant behind NoLostWakeup.  While the batch of a      *)
(* DoPendingTasks() runs, need_wakup_ is set, so even the loop's own tasks *)
(* write the eventfd; the eventfd is only reset in the dispatch phase,     *)
(* which the swap of the list follows before the next poll.                *)
(***************************************************************************)
AfterSwap == {"idle", "begin", "test", "poll", "run", "task", "end"}

WakeupInv ==
  /\ pc \in {"swap", "run", "task"} => need_wakup_
  /\ op[Owner] # "none" => pc \in {"idle", "callback", "task"}
  /\ (op[Owner] = "queue" /\ pc = "idle") => OwnerQueuesIdle
  /\ (pc \in AfterSwap /\ task_list_ # <<>>)
       => wakeupfd \/ \E t \in Threads : op[t] = "queue"
  /\ (pc = "poll" /\ quit_) => wakeupfd \/ \E t \in Others : op[t] = "quit"

(***************************************************************************)
(* Every step keeps WakeupInv: one case per action of EventLoop.           *)
(***************************************************************************)
LEMMA WakeupInductive ==
  ASSUME TypeOK, OwnerQueuesIdle = FALSE, WakeupInv, [Next]_vars
  PROVE  WakeupInv'
<1> USE DEF TypeOK, WakeupInv, AfterSwap, PCs, loopvars, taskvars, sigvars
<1> USE ThreadAssumption DEF Threads
<1>1. CASE Loop \/ LoopClearQuit \/ LoopTest \/ LoopEnd
  BY <1>1 DEF Loop, LoopClearQuit, LoopTest, LoopEnd
<1>2. CASE PollReady \/ PollEvent \/ PollTimeout
  BY <1>2 DEF PollReady, PollEvent, PollTimeout, PollReturns
<1>3. CASE HandleWakeup \/ HandleSignal \/ HandleEvent \/ CallbackReturn
  BY <1>3 DEF HandleWakeup, HandleSignal, HandleEvent, CallbackReturn
<1>4. CASE MarkWakeup \/ SwapTasks \/ RunTask \/ TaskReturn \/ TasksDone
  BY <1>4 DEF MarkWakeup, SwapTasks, RunTask, TaskReturn, TasksDone
<1>5. CASE SetHandleSingnal \/ \E s \in Signals : RaiseSignal(s)
  BY <1>5 DEF SetHandleSingnal, RaiseSignal
<1>6. ASSUME NEW t \in Threads, NEW k \in Tasks, QueueInLoop(t, k)
      PROVE  WakeupInv'
  BY <1>6 DEF QueueInLoop, CanCall
<1>7. ASSUME NEW t \in Threads, NEW k \in Tasks, RunInLoop(t, k)
      PROVE  WakeupInv'
  BY <1>6, <1>7 DEF RunInLoop
<1>8. ASSUME NEW t \in Threads, QueueInLoopWakeup(t)
      PROVE  WakeupInv'
  BY Zenon, <1>8 DEF QueueInLoopWakeup
<1>9. ASSUME NEW t \in Threads, Quit(t)
      PROVE  WakeupInv'
  BY <1>9 DEF Quit, CanCall
<1>10. ASSUME NEW t \in Threads, QuitWakeup(t)
       PROVE  WakeupInv'
  BY <1>10 DEF QuitWakeup
<1>11. CASE UNCHANGED vars
  BY <1>11 DEF vars
<1> QED
  BY <1>1, <1>2, <1>3, <1>4, <1>5, <1>6, <1>7, <1>8, <1>9, <1>10, <1>11
     DEF Next, LoopStep, Call

(***************************************************************************)
(* The loop never sleeps on a request: if tasks reach task_list_ only      *)
(* through other threads, callbacks and tasks, a poll that blocks with     *)
(* work or a Quit() outstanding is about to be woken.                      *)
(***************************************************************************)
THEOREM WakeupNeverLost ==
  ASSUME OwnerQueuesIdle = FALSE
  PROVE  Spec => []NoLostWakeup
<1>1. Init => WakeupInv
  BY DEF Init, WakeupInv, Threads, AfterSwap
<1>2. TypeOK /\ WakeupInv /\ [Next]_vars => WakeupInv'
  BY Zenon, WakeupInductive
<1>3. WakeupInv => NoLostWakeup
  BY DEF WakeupInv, NoLostWakeup, Threads, AfterSwap
<1> QED
  BY <1>1, <1>2, <1>3, TypeCorrect, PTL DEF Spec

-----------------------------------------------------------------------------
(***************************************************************************)
(* Concatenation of lists of tasks is associative.                         *)
(***************************************************************************)
LEMMA TasksConcatAssociative ==
  \A s, t, u \in Seq(Tasks) : s \o (t \o u) = (s \o t) \o u
BY ConcatAssociative, SMTT(30)

(***************************************************************************)
(* Inserting at the back of task_list_ is inserting at the back of the     *)
(* whole queue (QueueInLoop).                                              *)
(***************************************************************************)
LEMMA AppendConcat ==
  \A a, b, c \in Seq(Tasks), x \in Tasks :
         /\ b \o Append(c, x) = Append(b \o c, x)
         /\ a \o (b \o Append(c, x)) = Append(a \o (b \o c), x)
<1> SUFFICES ASSUME NEW a \in Seq(Tasks), NEW b \in Seq(Tasks),
                    NEW c \in Seq(Tasks), NEW x \in Tasks
             PROVE  /\ b \o Append(c, x) = Append(b \o c, x)
                    /\ a \o (b \o Append(c, x)) = Append(a \o (b \o c), x)
  BY Zenon
<1>1. b \o Append(c, x) = Append(b \o c, x)
  <2>1. <<x>> \in Seq(Tasks)
    OBVIOUS
  <2>2. Append(c, x) = c \o <<x>> /\ Append(b \o c, x) = (b \o c) \o <<x>>
    BY AppendIsConcat, ConcatProperties
  <2> QED
    BY <2>1, <2>2, TasksConcatAssociative
<1>2. a \o Append(b \o c, x) = Append(a \o (b \o c), x)
  <2>1. <<x>> \in Seq(Tasks) /\ b \o c \in Seq(Tasks) /\ a \o (b \o c) \in Seq(Tasks)
    BY ConcatProperties
  <2>2. /\ Append(b \o c, x) = (b \o c) \o <<x>>
        /\ Append(a \o (b \o c), x) = (a \o (b \o c)) \o <<x>>
    BY <2>1, AppendIsConcat
  <2> QED
    BY <2>1, <2>2, TasksConcatAssociative, SMTT(30)
<1> QED
  BY <1>1, <1>2

(***************************************************************************)
(* Taking the head of the batch takes the oldest task that waits (the loop *)
(* of DoPendingTasks).                                                     *)
(***************************************************************************)
LEMMA HeadConcat ==
  \A a, b, c \in Seq(Tasks) : b # <<>> =>
         /\ Head(b \o c) = Head(b)
         /\ Tail(b \o c) = Tail(b) \o c
         /\ b \o c # <<>>
         /\ a \o (b \o c) = Append(a, Head(b)) \o (Tail(b) \o c)
<1> SUFFICES ASSUME NEW a \in Seq(Tasks), NEW b \in Seq(Tasks),
                    NEW c \in Seq(Tasks), b # <<>>
             PROVE  /\ Head(b \o c) = Head(b)
                    /\ Tail(b \o c) = Tail(b) \o c
                    /\ b \o c # <<>>
                    /\ a \o (b \o c) = Append(a, Head(b)) \o (Tail(b) \o c)
  BY Zenon
<1>0. /\ Head(b) \in Tasks /\ Tail(b) \in Seq(Tasks) /\ Len(Tail(b)) = Len(b) - 1
      /\ \A i \in 1..Len(Tail(b)) : Tail(b)[i] = b[i+1]
      /\ Len(b) \in Nat \ {0} /\ Len(c) \in Nat
  BY HeadTailProperties, LenProperties, EmptySeq
<1>1. b \o c \in Seq(Tasks) /\ b \o c # <<>> /\ Len(b \o c) = Len(b) + Len(c)
  BY <1>0, ConcatProperties, EmptySeq
<1>2. Head(b \o c) = Head(b)
  BY <1>0, <1>1, ConcatProperties
<1>3. Tail(b \o c) = Tail(b) \o c
  <2>1. /\ Tail(b \o c) \in Seq(Tasks) /\ Len(Tail(b \o c)) = Len(b) + Len(c) - 1
        /\ \A i \in 1..(Len(b) + Len(c) - 1) : Tail(b \o c)[i] = (b \o c)[i+1]
    BY <1>0, <1>1, HeadTailProperties
  <2>2. /\ Tail(b) \o c \in Seq(Tasks) /\ Len(Tail(b) \o c) = Len(b) + Len(c) - 1
    BY <1>0, ConcatProperties
  <2>3. ASSUME NEW i \in 1..(Len(b) + Len(c) - 1)
        PROVE  Tail(b \o c)[i] = (Tail(b) \o c)[i]
    BY <1>0, <2>1, <2>2, ConcatProperties
  <2> QED
    BY <2>1, <2>2, <2>3, SeqEqual
<1>4. b = <<Head(b)>> \o Tail(b)
  <2>1. <<Head(b)>> \in Seq(Tasks) /\ Len(<<Head(b)>>) = 1 /\ <<Head(b)>>[1] = Head(b)
    BY <1>0
  <2>2. /\ <<Head(b)>> \o Tail(b) \in Seq(Tasks)
        /\ Len(<<Head(b)>> \o Tail(b)) = Len(b)
    BY <1>0, <2>1, ConcatProperties
  <2>3. ASSUME NEW i \in 1..Len(b) PROVE b[i] = (<<Head(b)>> \o Tail(b))[i]
    BY <1>0, <2>1, <2>2, ConcatProperties
  <2> QED
    BY <2>2, <2>3, SeqEqual
<1>5. a \o (b \o c) = Append(a, Head(b)) \o (Tail(b) \o c)
  <2>1. <<Head(b)>> \in Seq(Tasks) /\ Tail(b) \o c \in Seq(Tasks)
    BY <1>0, ConcatProperties
  <2>2. b \o c = <<Head(b)>> \o (Tail(b) \o c)
    BY <1>0, <1>4, <2>1, TasksConcatAssociative
  <2>3. a \o (<<Head(b)>> \o (Tail(b) \o c)) = (a \o <<Head(b)>>) \o (Tail(b) \o c)
    BY <2>1, TasksConcatAssociative, ZenonT(60)
  <2>4. Append(a, Head(b)) = a \o <<Head(b)>>
    BY <1>0, AppendIsConcat
  <2> QED
    BY Zenon, <2>2, <2>3, <2>4
<1> QED
  BY <1>1, <1>2, <1>3, <1>5

(***************************************************************************)
(* The inductive invariant behind FifoOnce and DrainOnReturn: outside the  *)
(* for loop of DoPendingTasks() the batch is empty, and the last batch     *)
(* reaches at least to the tasks that were queued when quit_ was seen.     *)
(***************************************************************************)
QueueInv ==
  /\ pc \notin {"run", "task"} => tasks = <<>>
  /\ FifoOnce
  /\ draining => pc \in {"mark", "swap", "run", "task", "end"}
  /\ pc = "end" => draining
  /\ (draining /\ pc \in {"mark", "swap"}) => drainMark <= Len(submitted)
  /\ (draining /\ pc \in {"run", "task", "end"})
       => drainMark <= Len(executed) + Len(tasks)

(***************************************************************************)
(* Every step keeps QueueInv.  Only QueueInLoop, SwapTasks and RunTask     *)
(* move tasks.                                                             *)
(***************************************************************************)
LEMMA QueueInductive ==
  ASSUME TypeOK, QueueInv, [Next]_vars
  PROVE  QueueInv'
<1> USE DEF TypeOK, PCs, loopvars, taskvars, sigvars
<1>t. /\ task_list_ \in Seq(Tasks) /\ tasks \in Seq(Tasks)
      /\ submitted \in Seq(Tasks) /\ executed \in Seq(Tasks)
  OBVIOUS
<1>0. /\ Len(submitted) \in Nat /\ Len(executed) \in Nat /\ Len(tasks) \in Nat
      /\ Len(task_list_) \in Nat
  BY LenProperties
<1>a. ASSUME UNCHANGED <<submitted, executed, tasks, task_list_>> PROVE FifoOnce'
  BY <1>a, Zenon DEF QueueInv, FifoOnce
<1>1. CASE Loop \/ LoopClearQuit \/ LoopTest \/ LoopEnd
  BY <1>0, <1>a, <1>1 DEF QueueInv, Loop, LoopClearQuit, LoopTest, LoopEnd
<1>2. CASE PollReady \/ PollEvent \/ PollTimeout
  BY <1>a, <1>2 DEF QueueInv, PollReady, PollEvent, PollTimeout, PollReturns
<1>3. CASE HandleWakeup \/ HandleSignal \/ HandleEvent \/ CallbackReturn
  BY <1>a, <1>3 DEF QueueInv, HandleWakeup, HandleSignal, HandleEvent, CallbackReturn
<1>4. CASE MarkWakeup \/ TaskReturn \/ TasksDone
  BY <1>a, <1>4 DEF QueueInv, MarkWakeup, TaskReturn, TasksDone
<1>5. CASE SwapTasks
  <2>1. tasks = <<>>
    BY <1>5 DEF QueueInv, SwapTasks
  <2>2. tasks \o task_list_ = task_list_ /\ tasks' \o task_list_' = task_list_
    BY <1>5, <2>1, ConcatEmptySeq DEF SwapTasks
  <2>3. FifoOnce'
    BY <1>5, <2>2 DEF QueueInv, FifoOnce, SwapTasks
  <2>4. Len(submitted) = Len(executed) + Len(tasks')
    BY <1>5, <2>2, ConcatProperties DEF QueueInv, FifoOnce, SwapTasks
  <2> QED
    BY <1>0, <1>5, <2>3, <2>4 DEF QueueInv, SwapTasks
<1>6. CASE RunTask
  <2>1. /\ tasks # <<>> /\ executed' = Append(executed, Head(tasks))
        /\ tasks' = Tail(tasks) /\ UNCHANGED <<task_list_, submitted>>
    BY <1>6 DEF RunTask
  <2>2. executed \o (tasks \o task_list_) = executed' \o (tasks' \o task_list_')
    <3>1. executed \o (tasks \o task_list_)
            = Append(executed, Head(tasks)) \o (Tail(tasks) \o task_list_)
      BY <1>t, <2>1, HeadConcat, ZenonT(60)
    <3> QED
      BY <2>1, <3>1, Zenon
  <2>2a. FifoOnce'
    BY <2>1, <2>2, Zenon DEF QueueInv, FifoOnce
  <2>3. Len(executed') + Len(tasks') = Len(executed) + Len(tasks)
    BY <2>1, <1>0, HeadTailProperties, AppendProperties
  <2> QED
    BY <1>6, <2>2a, <2>3 DEF QueueInv, RunTask
<1>7. CASE SetHandleSingnal \/ \E s \in Signals : RaiseSignal(s)
  BY <1>a, <1>7 DEF QueueInv, SetHandleSingnal, RaiseSignal
<1>8. ASSUME NEW t \in Threads, NEW k \in Tasks, QueueInLoop(t, k)
      PROVE  QueueInv'
  <2>1. /\ k \notin Elems(submitted) /\ submitted' = Append(submitted, k)
        /\ task_list_' = Append(task_list_, k)
        /\ UNCHANGED <<tasks, executed, pc, draining, drainMark>>
    BY <1>8 DEF QueueInLoop, Used
  <2>2. submitted' = executed' \o (tasks' \o task_list_')
    <3>1. executed \o (tasks \o Append(task_list_, k))
            = Append(executed \o (tasks \o task_list_), k)
      BY <1>t, AppendConcat, SMTT(90)
    <3> QED
      BY <2>1, <3>1, Zenon DEF QueueInv, FifoOnce
  <2>3. /\ Len(submitted') = Len(submitted) + 1
        /\ \A i \in 1..Len(submitted) : submitted'[i] = submitted[i]
        /\ submitted'[Len(submitted) + 1] = k
        /\ DOMAIN submitted = 1..Len(submitted)
        /\ DOMAIN submitted' = 1..(Len(submitted) + 1)
    BY <2>1, <1>0, AppendProperties, LenProperties
  <2>4. ASSUME NEW i \in DOMAIN submitted', NEW j \in DOMAIN submitted',
               submitted'[i] = submitted'[j]
        PROVE  i = j
    <3>1. \A m, n \in DOMAIN submitted : submitted[m] = submitted[n] => m = n
      BY Zenon DEF QueueInv, FifoOnce
    <3>2. \A m \in DOMAIN submitted : submitted[m] # k
      BY <2>1, Zenon DEF Elems
    <3> HIDE DEF TypeOK
    <3> QED
      BY <2>3, <2>4, <3>1, <3>2, <1>0
  <2>5. FifoOnce'
    BY <2>2, <2>4, Zenon DEF FifoOnce
  <2> QED
    BY <2>1, <2>3, <2>5, <1>0 DEF QueueInv
<1>9. ASSUME NEW t \in Threads, NEW k \in Tasks, RunInLoop(t, k)
      PROVE  QueueInv'
  <2>1. CASE QueueInLoop(t, k)
    BY <1>8, <2>1
  <2>2. CASE RunInLoop(t, k)!1
    BY <1>a, <2>2 DEF QueueInv
  <2> QED
    BY <1>9, <2>1, <2>2 DEF RunInLoop
<1>10. ASSUME NEW t \in Threads, QueueInLoopWakeup(t) \/ Quit(t) \/ QuitWakeup(t)
       PROVE  QueueInv'
  BY <1>a, <1>10 DEF QueueInv, QueueInLoopWakeup, Quit, QuitWakeup
<1>11. CASE UNCHANGED vars
  BY <1>a, <1>11 DEF QueueInv, vars
<1> QED
  BY <1>1, <1>2, <1>3, <1>4, <1>5, <1>6, <1>7, <1>8, <1>9, <1>10, <1>11
     DEF Next, LoopStep, Call

(***************************************************************************)
(* QueueInv always holds.                                                  *)
(***************************************************************************)
LEMMA QueueInvariant == Spec => []QueueInv
<1>1. Init => QueueInv
  BY ConcatEmptySeq, EmptySeq DEF Init, QueueInv, FifoOnce
<1>2. TypeOK /\ QueueInv /\ [Next]_vars => QueueInv'
  BY QueueInductive
<1> QED
  BY <1>1, <1>2, TypeCorrect, PTL DEF Spec

(***************************************************************************)
(* Tasks queued with QueueInLoop() run exactly once and in order, whatever *)
(* threads queue them and wherever DoPendingTasks() is.                    *)
(***************************************************************************)
THEOREM TasksFifoOnce == Spec => []FifoOnce
<1>1. QueueInv => FifoOnce
  BY DEF QueueInv
<1> QED
  BY <1>1, QueueInvariant, PTL

(***************************************************************************)
(* Loop() does not return before it ran every task that was queued when it *)
(* noticed quit_.                                                          *)
(***************************************************************************)
THEOREM ReturnDrains == Spec => []DrainOnReturn
<1>1. TypeOK /\ QueueInv => DrainOnReturn
  BY LenProperties, EmptySeq DEF TypeOK, QueueInv, DrainOnReturn
<1> QED
  BY <1>1, QueueInvariant, TypeCorrect, PTL

-----------------------------------------------------------------------------
(***************************************************************************)
(* A task that was never submitted is neither waiting nor executed.        *)
(***************************************************************************)
LEMMA UnusedIsFresh ==
  ASSUME TypeOK, FifoOnce, NEW k, k \notin Elems(submitted)
  PROVE  k \notin Elems(tasks \o task_list_) \cup Elems(executed)
<1>1. /\ executed \in Seq(Tasks) /\ tasks \o task_list_ \in Seq(Tasks)
      /\ submitted = executed \o (tasks \o task_list_)
  BY ConcatProperties DEF TypeOK, FifoOnce
<1>2. ASSUME NEW a \in Seq(Tasks), NEW b \in Seq(Tasks)
      PROVE  /\ \A i \in DOMAIN a : i \in DOMAIN (a \o b) /\ (a \o b)[i] = a[i]
             /\ \A i \in DOMAIN b : /\ Len(a) + i \in DOMAIN (a \o b)
                                   /\ (a \o b)[Len(a) + i] = b[i]
  <2>1. /\ DOMAIN a = 1..Len(a) /\ DOMAIN b = 1..Len(b)
        /\ Len(a) \in Nat /\ Len(b) \in Nat
    BY LenProperties
  <2>2. DOMAIN (a \o b) = 1..(Len(a) + Len(b))
    BY ConcatProperties, LenProperties
  <2>3. \A i \in 1..(Len(a) + Len(b)) :
           (a \o b)[i] = IF i <= Len(a) THEN a[i] ELSE b[i - Len(a)]
    BY ConcatProperties
  <2> QED
    BY <2>1, <2>2, <2>3, SMTT(30)
<1>3. ASSUME NEW a \in Seq(Tasks), NEW b \in Seq(Tasks), k \in Elems(a) \cup Elems(b)
      PROVE  k \in Elems(a \o b)
  <2>1. CASE k \in Elems(a)
    <3>1. PICK i \in DOMAIN a : k = a[i]
      BY <2>1 DEF Elems
    <3>2. i \in DOMAIN (a \o b) /\ (a \o b)[i] = k
      BY <1>2, <3>1, Zenon
    <3> QED
      BY <3>2, Zenon DEF Elems
  <2>2. CASE k \in Elems(b)
    <3>1. PICK i \in DOMAIN b : k = b[i]
      BY <2>2 DEF Elems
    <3>2. Len(a) + i \in DOMAIN (a \o b) /\ (a \o b)[Len(a) + i] = k
      BY <1>2, <3>1, Zenon
    <3> QED
      BY <3>2, Zenon DEF Elems
  <2> QED
    BY <1>3, <2>1, <2>2
<1> QED
  BY <1>1, <1>3, Zenon

(***************************************************************************)
(* The loop implements the task queue: its two lists behave as one queue.  *)
(***************************************************************************)
THEOREM LoopImplementsTaskQueue == Spec => ImplementsTaskQueue
<1> USE DEF TQ!tqvars
<1>1. Init => TQ!TQInit
  BY ConcatEmptySeq, EmptySeq DEF Init, TQ!TQInit
<1>2. TypeOK /\ QueueInv /\ [Next]_vars => [TQ!TQNext]_(TQ!tqvars)
  <2> SUFFICES ASSUME TypeOK, QueueInv, [Next]_vars
               PROVE  [TQ!TQNext]_(TQ!tqvars)
    OBVIOUS
  <2> USE DEF loopvars, taskvars, sigvars
  <2>a. ASSUME UNCHANGED <<tasks, task_list_, executed>> PROVE UNCHANGED TQ!tqvars
    BY <2>a, Zenon
  <2>t. /\ task_list_ \in Seq(Tasks) /\ tasks \in Seq(Tasks)
        /\ submitted \in Seq(Tasks) /\ executed \in Seq(Tasks)
    BY DEF TypeOK
  <2>1. CASE Loop \/ LoopClearQuit \/ LoopTest \/ LoopEnd
    BY <2>a, <2>1 DEF Loop, LoopClearQuit, LoopTest, LoopEnd
  <2>2. CASE PollReady \/ PollEvent \/ PollTimeout
    BY <2>a, <2>2 DEF PollReady, PollEvent, PollTimeout, PollReturns
  <2>3. CASE HandleWakeup \/ HandleSignal \/ HandleEvent \/ CallbackReturn
    BY <2>a, <2>3 DEF HandleWakeup, HandleSignal, HandleEvent, CallbackReturn
  <2>4. CASE MarkWakeup \/ TaskReturn \/ TasksDone
    BY <2>a, <2>4 DEF MarkWakeup, TaskReturn, TasksDone
  <2>5. CASE SwapTasks
    <3>1. tasks = <<>> /\ tasks' = task_list_ /\ task_list_' = <<>> /\ executed' = executed
      BY <2>5 DEF QueueInv, SwapTasks
    <3>2. <<>> \o task_list_ = task_list_ /\ task_list_ \o <<>> = task_list_
      BY <2>t, ConcatEmptySeq
    <3> QED
      BY <3>1, <3>2, Zenon
  <2>6. CASE RunTask
    <3>1. /\ tasks # <<>> /\ executed' = Append(executed, Head(tasks))
          /\ tasks' = Tail(tasks) /\ task_list_' = task_list_
      BY <2>6 DEF RunTask
    <3>2. /\ tasks \o task_list_ # <<>>
          /\ Head(tasks \o task_list_) = Head(tasks)
          /\ Tail(tasks \o task_list_) = Tail(tasks) \o task_list_
      BY <2>t, <3>1, HeadConcat
    <3> QED
      BY <3>1, <3>2, Zenon DEF TQ!TQNext, TQ!Execute
  <2>7. CASE SetHandleSingnal \/ \E s \in Signals : RaiseSignal(s)
    BY <2>a, <2>7 DEF SetHandleSingnal, RaiseSignal
  <2>8. ASSUME NEW t \in Threads, NEW k \in Tasks, QueueInLoop(t, k)
        PROVE  TQ!Submit(k)
    <3>1. /\ k \notin Elems(submitted)
          /\ task_list_' = Append(task_list_, k)
          /\ UNCHANGED <<tasks, executed>>
      BY <2>8 DEF QueueInLoop, Used
    <3>2. k \notin Elems(tasks \o task_list_) \cup Elems(executed)
      BY <3>1, UnusedIsFresh DEF QueueInv
    <3>3. tasks \o Append(task_list_, k) = Append(tasks \o task_list_, k)
      BY <2>t, AppendConcat
    <3> QED
      BY <3>1, <3>2, <3>3, Zenon DEF TQ!Submit, TQ!Elements, Elems
  <2>9. ASSUME NEW t \in Threads, NEW k \in Tasks, RunInLoop(t, k)
        PROVE  [TQ!TQNext]_(TQ!tqvars)
    <3>1. CASE QueueInLoop(t, k)
      BY <2>8, <3>1, Zenon DEF TQ!TQNext
    <3>2. CASE RunInLoop(t, k)!1
      BY <2>a, <3>2
    <3> QED
      BY <2>9, <3>1, <3>2, Zenon DEF RunInLoop
  <2>10. ASSUME NEW t \in Threads, QueueInLoopWakeup(t) \/ Quit(t) \/ QuitWakeup(t)
         PROVE  UNCHANGED TQ!tqvars
    BY <2>a, <2>10 DEF QueueInLoopWakeup, Quit, QuitWakeup
  <2>11. CASE UNCHANGED vars
    BY <2>a, <2>11 DEF vars
  <2>12. ASSUME NEW t \in Threads, NEW k \in Tasks, QueueInLoop(t, k)
         PROVE  TQ!TQNext
    BY <2>8, <2>12, Zenon DEF TQ!TQNext
  <2> HIDE DEF TQ!tqvars
  <2> QED
    BY <2>1, <2>2, <2>3, <2>4, <2>5, <2>6, <2>7, <2>9, <2>10, <2>11, <2>12, Zenon
       DEF Next, LoopStep, Call
<1> QED
  BY <1>1, <1>2, TypeCorrect, QueueInvariant, PTL
     DEF Spec, ImplementsTaskQueue, TQ!TQSpec

-----------------------------------------------------------------------------
(* EventLoopThread *)

(***************************************************************************)
(* A step of an event loop thread is a step of its loop, or leaves the     *)
(* loop alone.                                                             *)
(***************************************************************************)
LEMMA ThreadStep ==
  ASSUME [ThreadNext]_allvars
  PROVE  [Next]_vars
<1>1. Starter \in Threads /\ Owner \in Threads /\ Others \subseteq Threads
  BY StarterAssumption DEF Threads
<1>2. CASE StartLoop \/ StartLoopReturn \/ StopLoopJoin \/ OnEventLoop \/ DestroyLoop
  BY <1>2 DEF StartLoop, StartLoopReturn, StopLoopJoin, OnEventLoop, DestroyLoop
<1>3. CASE CallLoop
  BY <1>3 DEF CallLoop, Next
<1>4. CASE StopLoop \/ StopLoopWakeup
  BY <1>1, <1>4 DEF StopLoop, StopLoopWakeup, Next, Call
<1>5. CASE LoopThread
  BY <1>1, <1>5 DEF LoopThread, Next, Call
<1>6. ASSUME NEW t \in Others, User(t) PROVE [Next]_vars
  BY <1>1, <1>6 DEF User, Next, Call
<1>7. CASE UNCHANGED allvars
  BY <1>7 DEF allvars
<1> QED
  BY <1>2, <1>3, <1>4, <1>5, <1>6, <1>7 DEF ThreadNext

(***************************************************************************)
(* An event loop thread implements its loop, so that what is proved of the *)
(* loop above holds in it.                                                 *)
(***************************************************************************)
THEOREM ThreadImplementsLoop == ThreadSpec => Spec
<1>1. ThreadInit => Init
  BY DEF ThreadInit
<1>2. [ThreadNext]_allvars => [Next]_vars
  BY ThreadStep
<1> QED
  BY <1>1, <1>2, PTL DEF ThreadSpec, Spec

(***************************************************************************)
(* The inductive invariant behind PointerValid: until StopLoop() is called *)
(* nobody sets quit_, so the loop cannot have been left; event_loop_ and   *)
(* running_ follow the two threads.                                        *)
(***************************************************************************)
Started ==
  /\ thread \in {"none", "started", "published", "looping", "ended"}
  /\ spc \in {"new", "waiting", "running", "quitting", "joining", "stopped"}
  /\ event_loop_ \in BOOLEAN /\ running_ \in BOOLEAN
  /\ (thread = "none") <=> (spc = "new")
  /\ event_loop_ <=> (thread \in {"published", "looping", "ended"} /\ spc # "stopped")
  /\ running_ <=> spc \in {"running", "quitting", "joining"}
  /\ thread # "looping" => pc = "idle"
  /\ spc = "stopped" => thread = "ended"
  /\ spc \in {"running", "quitting", "joining"} => thread \in {"published", "looping", "ended"}
  /\ spc \in {"new", "waiting", "running"} =>
       /\ ~quit_ /\ ~draining /\ pc \notin {"mark", "end"}
       /\ thread # "ended" /\ (thread = "looping" => pc # "idle")

\* What a step of the loop can change of it.
LEMMA LoopKeepsStarted ==
  ASSUME TypeOK, Started, UNCHANGED tvars,
         quit_' => quit_, thread # "looping" => pc' = pc,
         draining' => draining \/ quit_,
         pc' \in {"mark", "end"} => draining \/ quit_ \/ pc \in {"mark", "end"},
         pc' = "idle" => pc = "idle" \/ pc = "end"
  PROVE  Started'
BY DEF Started, tvars, TypeOK

\* Every step of the two threads and of the loop's users keeps Started.
LEMMA StartedHolds == ThreadSpec => []Started
<1>1. ThreadInit => Started
  BY Zenon DEF ThreadInit, Init, Started
<1>2. TypeOK /\ QueueInv /\ Started /\ [ThreadNext]_allvars => Started'
  <2> SUFFICES ASSUME TypeOK, QueueInv, Started, [ThreadNext]_allvars PROVE Started'
    OBVIOUS
  <2>1. CASE StartLoop
    BY <2>1 DEF StartLoop, Started, vars, loopvars
  <2>2. CASE StartLoopReturn
    BY <2>2 DEF StartLoopReturn, Started, vars, loopvars
  <2>3. CASE StopLoop
    <3>1. /\ spc = "running" /\ spc' = "quitting"
          /\ UNCHANGED <<event_loop_, running_, thread, pc>>
      BY <2>3 DEF StopLoop, Quit
    <3>2. event_loop_ /\ running_ /\ thread \in {"published", "looping"}
      BY <3>1 DEF Started
    <3> QED
      BY <3>1, <3>2 DEF Started
  <2>4. CASE StopLoopWakeup
    BY <2>4 DEF StopLoopWakeup, QuitWakeup, Started, loopvars
  <2>5. CASE StopLoopJoin
    <3>1. /\ spc' = "stopped" /\ thread = "ended" /\ running_' = FALSE /\ event_loop_' = FALSE
          /\ UNCHANGED <<thread, pc>>
      BY <2>5 DEF StopLoopJoin, vars, loopvars
    <3> QED
      BY Zenon, <3>1 DEF Started
  <2>6. CASE OnEventLoop
    BY <2>6 DEF OnEventLoop, Started, vars, loopvars
  <2>7. CASE CallLoop
    BY <2>7 DEF CallLoop, Loop, Started
  <2>8. CASE DestroyLoop
    BY <2>8 DEF DestroyLoop, Started, vars, loopvars
  <2>9. CASE LoopThread
    <3> USE DEF loopvars
    <3>0. thread = "looping" /\ UNCHANGED tvars
      BY <2>9 DEF LoopThread
    <3>1. CASE LoopClearQuit \/ LoopTest \/ LoopEnd
      BY <3>0, <3>1, LoopKeepsStarted DEF LoopClearQuit, LoopTest, LoopEnd, TypeOK
    <3>2. CASE PollReady \/ PollEvent \/ PollTimeout
      BY <3>0, <3>2, LoopKeepsStarted DEF PollReady, PollEvent, PollTimeout, PollReturns
    <3>3. CASE HandleWakeup \/ HandleSignal \/ HandleEvent \/ CallbackReturn
      BY <3>0, <3>3, LoopKeepsStarted DEF HandleWakeup, HandleSignal, HandleEvent, CallbackReturn
    <3>4. CASE MarkWakeup \/ SwapTasks \/ RunTask \/ TaskReturn \/ TasksDone
      BY <3>0, <3>4, LoopKeepsStarted DEF MarkWakeup, SwapTasks, RunTask, TaskReturn, TasksDone
    <3>5. CASE \/ QueueInLoopWakeup(Owner)
               \/ \E k \in Tasks : QueueInLoop(Owner, k) \/ RunInLoop(Owner, k)
      <4>1. UNCHANGED loopvars
        BY <3>5 DEF QueueInLoopWakeup, QueueInLoop, RunInLoop
      <4> QED
        BY <3>0, <4>1, LoopKeepsStarted
    <3> QED
      BY <2>9, <3>1, <3>2, <3>3, <3>4, <3>5 DEF LoopThread, LoopStep
  <2>10. ASSUME NEW t \in Others, User(t) PROVE Started'
    <3>1. UNCHANGED tvars /\ UNCHANGED loopvars
      BY <2>10 DEF User, QueueInLoopWakeup, QueueInLoop, RunInLoop
    <3> QED
      BY <3>1, LoopKeepsStarted DEF loopvars
  <2>11. CASE UNCHANGED allvars
    BY <2>11 DEF allvars, vars, loopvars, tvars, Started
  <2> QED
    BY <2>1, <2>2, <2>3, <2>4, <2>5, <2>6, <2>7, <2>8, <2>9, <2>10, <2>11 DEF ThreadNext
<1> QED
  BY <1>1, <1>2, ThreadImplementsLoop, TypeCorrect, QueueInvariant, PTL DEF ThreadSpec

(***************************************************************************)
(* While running_ is set and StopLoop() was not called, event_loop_ points *)
(* to a loop that lives; when StopLoop() has returned the thread ended.    *)
(***************************************************************************)
THEOREM PointerStaysValid == ThreadSpec => []PointerValid
<1>1. Started => PointerValid
  <2>1. Started /\ spc = "running" => event_loop_ /\ running_ /\ thread \in {"published", "looping"}
    BY DEF Started
  <2>2. Started /\ spc = "stopped" => ~event_loop_ /\ thread = "ended"
    BY DEF Started
  <2> QED
    BY <2>1, <2>2 DEF PointerValid
<1> QED
  BY <1>1, StartedHolds, PTL

-----------------------------------------------------------------------------
\* The elements of a sequence that is put together or taken apart.
LEMMA ElemsConcat ==
  ASSUME NEW s \in Seq(Tasks), NEW t \in Seq(Tasks)
  PROVE  Elems(s \o t) = Elems(s) \cup Elems(t)
<1>1. /\ s \o t \in Seq(Tasks) /\ Len(s \o t) = Len(s) + Len(t)
      /\ \A i \in 1 .. Len(s) + Len(t) :
           (s \o t)[i] = IF i <= Len(s) THEN s[i] ELSE t[i - Len(s)]
  BY ConcatProperties
<1>2. /\ DOMAIN s = 1 .. Len(s) /\ DOMAIN t = 1 .. Len(t)
      /\ DOMAIN (s \o t) = 1 .. Len(s) + Len(t)
      /\ Len(s) \in Nat /\ Len(t) \in Nat
  BY <1>1, LenProperties
<1>3. ASSUME NEW i \in 1 .. Len(s) + Len(t)
      PROVE  (s \o t)[i] \in Elems(s) \cup Elems(t)
  <2>1. CASE i <= Len(s)
    BY <1>1, <1>2, <2>1 DEF Elems
  <2>2. CASE i > Len(s)
    <3>1. i - Len(s) \in DOMAIN t /\ (s \o t)[i] = t[i - Len(s)]
      BY <1>1, <1>2, <2>2
    <3> QED
      BY <3>1 DEF Elems
  <2> QED
    BY <1>2, <2>1, <2>2
<1>4. ASSUME NEW i \in DOMAIN s PROVE s[i] \in Elems(s \o t)
  <2>1. i \in DOMAIN (s \o t) /\ (s \o t)[i] = s[i]
    BY <1>1, <1>2
  <2> QED
    BY <2>1 DEF Elems
<1>5. ASSUME NEW i \in DOMAIN t PROVE t[i] \in Elems(s \o t)
  <2>1. i + Len(s) \in DOMAIN (s \o t) /\ (s \o t)[i + Len(s)] = t[i]
    BY <1>1, <1>2
  <2> QED
    BY <2>1 DEF Elems
<1>6. Elems(s \o t) \subseteq Elems(s) \cup Elems(t)
  BY <1>2, <1>3 DEF Elems
<1>7. Elems(s) \subseteq Elems(s \o t) /\ Elems(t) \subseteq Elems(s \o t)
  BY Zenon, <1>4, <1>5 DEF Elems
<1> QED
  BY <1>6, <1>7

\* Appending an element keeps those that were there.
LEMMA ElemsAppend ==
  ASSUME NEW s \in Seq(Tasks), NEW k \in Tasks
  PROVE  Elems(s) \subseteq Elems(Append(s, k)) /\ k \in Elems(Append(s, k))
<1>1. /\ Len(Append(s, k)) = Len(s) + 1 /\ Append(s, k) \in Seq(Tasks)
      /\ \A i \in 1 .. Len(s) : Append(s, k)[i] = s[i]
      /\ Append(s, k)[Len(s) + 1] = k
  BY AppendProperties
<1>2. /\ DOMAIN s = 1 .. Len(s) /\ Len(s) \in Nat
      /\ DOMAIN Append(s, k) = 1 .. Len(s) + 1
  BY <1>1, LenProperties
<1>3. \A i \in DOMAIN s : i \in DOMAIN Append(s, k)
  BY <1>2
<1>4. Len(s) + 1 \in DOMAIN Append(s, k)
  BY <1>2
<1> QED
  BY <1>1, <1>2, <1>3, <1>4 DEF Elems

\* Every element of a sequence is its head or in its tail.
LEMMA ElemsHeadTail ==
  ASSUME NEW s \in Seq(Tasks), s # <<>>
  PROVE  Elems(s) \subseteq {Head(s)} \cup Elems(Tail(s))
<1>1. /\ Head(s) = s[1] /\ Tail(s) \in Seq(Tasks) /\ Len(Tail(s)) = Len(s) - 1
      /\ \A i \in 1 .. Len(Tail(s)) : Tail(s)[i] = s[i + 1]
  BY HeadTailProperties
<1>2. /\ DOMAIN s = 1 .. Len(s) /\ Len(s) \in Nat
      /\ DOMAIN Tail(s) = 1 .. Len(s) - 1
  BY <1>1, LenProperties
<1>3. ASSUME NEW i \in DOMAIN s, i # 1 PROVE s[i] \in Elems(Tail(s))
  <2>1. i - 1 \in DOMAIN Tail(s) /\ Tail(s)[i - 1] = s[i]
    BY <1>1, <1>2, <1>3
  <2> QED
    BY <2>1 DEF Elems
<1> QED
  BY <1>1, <1>3 DEF Elems

(***************************************************************************)
(* The inductive invariant behind StopDrains: a task queued before         *)
(* StopLoop() is in submitted; once the last DoPendingTasks() has taken    *)
(* the list it was run or is in the batch; when Loop() has returned it was *)
(* run.                                                                    *)
(***************************************************************************)
Drained ==
  /\ beforeStop \subseteq Elems(submitted)
  /\ draining /\ pc \in {"run", "task", "end"}
       => beforeStop \subseteq Elems(executed) \cup Elems(tasks)
  /\ thread = "ended" \/ (thread = "looping" /\ pc = "idle")
       => beforeStop \subseteq Elems(executed)

\* A step of the loop that moves no task keeps it, unless the loop is left.
LEMMA LoopKeepsDrained ==
  ASSUME Drained, UNCHANGED <<beforeStop, thread, submitted, executed, tasks, draining>>,
         pc' = pc \/ pc' \notin {"run", "task", "end", "idle"}
           \/ (pc \in {"run", "task", "end"} /\ pc' \in {"run", "task", "end"})
  PROVE  Drained'
BY DEF Drained

\* The tasks that were run, the batch and the list hold what was submitted.
LEMMA SubmittedElems ==
  ASSUME TypeOK, QueueInv, tasks = <<>>
  PROVE  Elems(submitted) = Elems(executed) \cup Elems(task_list_)
<1>1. /\ task_list_ \in Seq(Tasks) /\ executed \in Seq(Tasks)
      /\ submitted = executed \o (tasks \o task_list_)
  BY DEF TypeOK, QueueInv, FifoOnce
<1>2. tasks \o task_list_ = task_list_
  BY <1>1, ConcatEmptySeq
<1> QED
  BY <1>1, <1>2, ElemsConcat

\* Only StopLoop, QueueInLoop, SwapTasks, RunTask and LoopEnd bear on Drained.
LEMMA DrainedHolds == ThreadSpec => []Drained
<1>1. ThreadInit => Drained
  BY DEF ThreadInit, Init, Drained
<1>2. TypeOK /\ QueueInv /\ Started /\ Drained /\ [ThreadNext]_allvars => Drained'
  <2> SUFFICES ASSUME TypeOK, QueueInv, Started, Drained, [ThreadNext]_allvars PROVE Drained'
    OBVIOUS
  <2>t. /\ task_list_ \in Seq(Tasks) /\ tasks \in Seq(Tasks)
        /\ submitted \in Seq(Tasks) /\ executed \in Seq(Tasks)
    BY DEF TypeOK
  <2> USE DEF loopvars, taskvars, vars, tvars
  <2>1. CASE StartLoop \/ StartLoopReturn \/ StopLoopJoin \/ OnEventLoop
    BY <2>1 DEF StartLoop, StartLoopReturn, StopLoopJoin, OnEventLoop, Drained
  <2>2. CASE StopLoop
    <3>1. ~draining /\ thread # "ended" /\ (thread = "looping" => pc # "idle")
      BY <2>2 DEF StopLoop, Started
    <3>2. /\ UNCHANGED <<submitted, executed, tasks, draining, pc, thread>>
          /\ beforeStop' = Elems(submitted)
      BY <2>2 DEF StopLoop, Quit
    <3> QED
      BY <3>1, <3>2 DEF Drained
  <2>3. CASE StopLoopWakeup
    BY <2>3, LoopKeepsDrained DEF StopLoopWakeup, QuitWakeup
  <2>4. CASE CallLoop
    <3>1. /\ UNCHANGED <<submitted, executed, tasks, draining, beforeStop>>
          /\ pc' = "begin" /\ thread' = "looping"
      BY <2>4 DEF CallLoop, Loop
    <3> QED
      BY <3>1 DEF Drained
  <2>5. CASE DestroyLoop
    BY <2>5 DEF DestroyLoop, Drained
  <2>6. ASSUME NEW t \in Threads, NEW k \in Tasks, UNCHANGED tvars,
               QueueInLoop(t, k) \/ RunInLoop(t, k) \/ QueueInLoopWakeup(t)
        PROVE  Drained'
    <3>1. UNCHANGED <<beforeStop, thread, executed, tasks, draining, pc>>
      BY <2>6 DEF QueueInLoop, RunInLoop, QueueInLoopWakeup
    <3>2. submitted' = submitted \/ submitted' = Append(submitted, k)
      BY <2>6 DEF QueueInLoop, RunInLoop, QueueInLoopWakeup
    <3>3. Elems(submitted) \subseteq Elems(submitted')
      BY Zenon, <2>t, <3>2, ElemsAppend
    <3> QED
      BY <3>1, <3>3 DEF Drained
  <2>7. ASSUME NEW t \in Threads, UNCHANGED tvars, QueueInLoopWakeup(t)
        PROVE  Drained'
    BY <2>7, LoopKeepsDrained DEF QueueInLoopWakeup
  <2>8. CASE LoopThread
    <3>0. UNCHANGED tvars /\ thread = "looping" /\ pc # "idle"
      BY <2>8 DEF LoopThread
    <3>1. CASE LoopClearQuit
      BY <3>0, <3>1, LoopKeepsDrained DEF LoopClearQuit
    <3>2. CASE LoopTest
      <4>1. /\ UNCHANGED <<submitted, executed, tasks>>
            /\ pc' \in {"poll", "mark"}
        BY <3>2 DEF LoopTest
      <4> QED
        BY <3>0, <4>1 DEF Drained
    <3>3. CASE PollReady \/ PollEvent \/ PollTimeout
      BY <3>0, <3>3, LoopKeepsDrained DEF PollReady, PollEvent, PollTimeout, PollReturns
    <3>4. CASE HandleWakeup \/ HandleSignal \/ HandleEvent \/ CallbackReturn \/ MarkWakeup
      BY <3>0, <3>4, LoopKeepsDrained
         DEF HandleWakeup, HandleSignal, HandleEvent, CallbackReturn, MarkWakeup
    <3>5. CASE SwapTasks
      <4>1. tasks = <<>>
        BY <3>5 DEF SwapTasks, QueueInv
      <4>2. /\ UNCHANGED <<submitted, executed>> /\ tasks' = task_list_ /\ pc' = "run"
        BY <3>5 DEF SwapTasks
      <4>3. Elems(submitted) = Elems(executed) \cup Elems(task_list_)
        BY <4>1, SubmittedElems
      <4> QED
        BY <3>0, <4>2, <4>3 DEF Drained
    <3>6. CASE RunTask
      <4>1. /\ pc = "run" /\ pc' = "task" /\ tasks # <<>> /\ tasks' = Tail(tasks)
            /\ executed' = Append(executed, Head(tasks)) /\ UNCHANGED <<submitted, draining>>
        BY <3>6 DEF RunTask
      <4>2. Head(tasks) \in Tasks
        BY <2>t, <4>1, HeadTailProperties
      <4>3. Elems(executed) \cup Elems(tasks) \subseteq Elems(executed') \cup Elems(tasks')
        BY <2>t, <4>1, <4>2, ElemsAppend, ElemsHeadTail
      <4> QED
        BY <3>0, <4>1, <4>3 DEF Drained
    <3>7. CASE TaskReturn \/ TasksDone
      BY <3>0, <3>7, LoopKeepsDrained DEF TaskReturn, TasksDone
    <3>8. CASE LoopEnd
      <4>1. /\ pc = "end" /\ pc' = "idle" /\ UNCHANGED <<submitted, executed, tasks>>
        BY <3>8 DEF LoopEnd
      <4>2. draining /\ tasks = <<>>
        BY <4>1 DEF QueueInv
      <4>3. Elems(tasks) = {}
        BY <4>2 DEF Elems
      <4> QED
        BY <3>0, <3>8, <4>1, <4>2, <4>3 DEF Drained, LoopEnd
    <3> QED
      BY <2>6, <2>7, <2>8, <3>0, <3>1, <3>2, <3>3, <3>4, <3>5, <3>6, <3>7, <3>8
         DEF LoopThread, LoopStep, Threads
  <2>9. ASSUME NEW t \in Others, User(t) PROVE Drained'
    BY <2>6, <2>7, <2>9 DEF User, Threads
  <2>10. CASE UNCHANGED allvars
    BY <2>10 DEF allvars, Drained
  <2> QED
    BY <2>1, <2>2, <2>3, <2>4, <2>5, <2>8, <2>9, <2>10 DEF ThreadNext
<1> QED
  BY <1>1, <1>2, ThreadImplementsLoop, TypeCorrect, QueueInvariant, StartedHolds, PTL
     DEF ThreadSpec

(***************************************************************************)
(* StopLoop() returns only after every task that was queued before it was  *)
(* called has been run: the last DoPendingTasks() of Loop() takes the list *)
(* after quit_ was seen, and Join() waits for it.                          *)
(***************************************************************************)
THEOREM StopLoopDrains == ThreadSpec => []StopDrains
<1>1. Started /\ Drained => StopDrains
  BY DEF Started, Drained, StopDrains
<1> QED
  BY <1>1, StartedHolds, DrainedHolds, PTL
=============================================================================
