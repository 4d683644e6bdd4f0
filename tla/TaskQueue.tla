----------------------------- MODULE TaskQueue -----------------------------
(***************************************************************************)
(* What EventLoop promises to the users of QueueInLoop: a queue of tasks.  *)
(* Every task is submitted once, waits in submission order and is run once.*)
(* EventLoop.tla shows that the two lists, the swap and the eventfd of the *)
(* implementation provide exactly this.                                    *)
(***************************************************************************)
EXTENDS Sequences

CONSTANT Tasks      \* the tasks that may be submitted

VARIABLES
  waiting,          \* submitted and not started, oldest first
  finished          \* started, in the order in which they were started

tqvars == <<waiting, finished>>

Elements(s) == {s[i] : i \in DOMAIN s}

TQInit == waiting = <<>> /\ finished = <<>>

Submit(k) ==
  /\ k \notin Elements(waiting) \cup Elements(finished)
  /\ waiting' = Append(waiting, k)
  /\ UNCHANGED finished

Execute ==
  /\ waiting # <<>>
  /\ finished' = Append(finished, Head(waiting))
  /\ waiting' = Tail(waiting)

TQNext == Execute \/ \E k \in Tasks : Submit(k)

TQSpec == TQInit /\ [][TQNext]_tqvars
=============================================================================
