----------------------------- MODULE TimerProofs -----------------------------
(***************************************************************************)
(* Proofs about TimerQueue.tla, for any threads and addresses, any times   *)
(* and intervals, and any number of timers and queued calls.               *)
(***************************************************************************)
EXTENDS TimerQueue, WellFoundedInduction, TLAPS

Ids == Addrs \X Nat
Entries == Nat \X Addrs
Calls == [add : BOOLEAN, id : Ids]

Types ==
  /\ clock \in Nat /\ armed \in SUBSET Nat /\ gone \in BOOLEAN
  /\ allocated \in SUBSET Addrs /\ s_numCreated_ \in Nat
  /\ expiration_ \in [Addrs -> Nat] /\ interval_ \in [Addrs -> Nat] /\ sequence_ \in [Addrs -> Nat]
  /\ timers_ \in SUBSET Entries /\ active_timers_ \in SUBSET Ids /\ canceling_timers_ \in SUBSET Ids
  /\ calling_expired_timers_ \in BOOLEAN /\ now \in Nat
  /\ expired \in SUBSET Entries /\ todo \in SUBSET expired
  /\ pending \in Seq(Calls) /\ adding \in [Others -> SUBSET Ids] /\ known \in SUBSET Ids
  /\ cancelled \in SUBSET Ids /\ fired \in SUBSET Ids

(***************************************************************************)
(* Pairs of address and number.                                            *)
(***************************************************************************)
LEMMA PairFacts ==
  /\ \A id \in Ids : id[1] \in Addrs /\ id[2] \in Nat /\ id = <<id[1], id[2]>>
  /\ \A e \in Entries : e[1] \in Nat /\ e[2] \in Addrs /\ e = <<e[1], e[2]>>
  /\ \A a \in Addrs, n \in Nat : <<a, n>> \in Ids /\ <<n, a>> \in Entries
  /\ \A x, y : <<x, y>>[1] = x /\ <<x, y>>[2] = y
BY DEF Ids, Entries

(***************************************************************************)
(* What is queued and what is taken from the queue are calls.              *)
(***************************************************************************)
LEMMA CallFacts ==
  ASSUME NEW q \in Seq(Calls)
  PROVE  /\ \A x \in BOOLEAN, id \in Ids : Append(q, [add |-> x, id |-> id]) \in Seq(Calls)
         /\ q # <<>> => Tail(q) \in Seq(Calls) /\ Head(q).add \in BOOLEAN /\ Head(q).id \in Ids
<1>1. \A x \in BOOLEAN, id \in Ids : [add |-> x, id |-> id] \in Calls
  BY DEF Calls
<1>2. \A c \in Calls : Append(q, c) \in Seq(Calls)
  OBVIOUS
<1>3. \A c \in Calls : c.add \in BOOLEAN /\ c.id \in Ids
  BY DEF Calls
<1>4. q # <<>> => Head(q) \in Calls /\ Tail(q) \in Seq(Calls)
  OBVIOUS
<1> QED
  BY <1>1, <1>2, <1>3, <1>4

(***************************************************************************)
(* A set of timers that is not empty has an earliest one (begin() of the   *)
(* ordered set).                                                           *)
(***************************************************************************)
LEMMA EarliestExists ==
  \A S \in SUBSET Entries : S # {} => \E e \in S : \A f \in S : e[1] <= f[1]
<1> SUFFICES ASSUME NEW S \in SUBSET Entries, S # {}
             PROVE  \E e \in S : \A f \in S : e[1] <= f[1]
  OBVIOUS
<1> DEFINE T == {e[1] : e \in S}
<1>1. T \subseteq Nat /\ T # {}
  BY PairFacts
<1> DEFINE R == OpToRel(<, Nat)
<1>2. PICK n \in T : \A m \in T : ~ (<<m, n>> \in R)
  <2>1. IsWellFoundedOn(R, Nat)
    BY Zenon, NatLessThanWellFounded
  <2> HIDE DEF R, T
  <2> QED
    BY Zenon, <1>1, <2>1, WFMin
<1>3. ASSUME NEW m \in T PROVE n <= m
  <2> HIDE DEF T
  <2>1. m \in Nat /\ n \in Nat
    BY Zenon, <1>1, <1>2
  <2>2. ~ (m < n)
    BY Zenon, <1>2, <2>1 DEF OpToRel
  <2> QED
    BY <2>1, <2>2
<1> QED
  BY Zenon, <1>2, <1>3

(***************************************************************************)
(* The types of what the parts of AddTimer() and Cancel() change.          *)
(***************************************************************************)
LEMMA PartTypes ==
  ASSUME Types
  PROVE  /\ \A a \in Addrs, when \in Whens, iv \in Intervals : NewTimer(a, when, iv) =>
              /\ allocated' \in SUBSET Addrs /\ s_numCreated_' \in Nat
              /\ expiration_' \in [Addrs -> Nat] /\ interval_' \in [Addrs -> Nat]
              /\ sequence_' \in [Addrs -> Nat] /\ <<a, s_numCreated_>> \in Ids
         /\ \A a \in Addrs, n \in Nat, when \in Nat : AddTimerInLoop(a, n, when) =>
              /\ timers_' \in SUBSET Entries /\ active_timers_' \in SUBSET Ids
              /\ canceling_timers_' \in SUBSET Ids /\ armed' \in SUBSET Nat
         /\ \A id \in Ids : CancelInLoop(id) =>
              /\ timers_' \in SUBSET Entries /\ active_timers_' \in SUBSET Ids
              /\ canceling_timers_' \in SUBSET Ids /\ cancelled' \in SUBSET Ids
              /\ allocated' \in SUBSET Addrs
<1>1. ASSUME NEW a \in Addrs, NEW when \in Whens, NEW iv \in Intervals, NewTimer(a, when, iv)
      PROVE  /\ allocated' \in SUBSET Addrs /\ s_numCreated_' \in Nat
             /\ expiration_' \in [Addrs -> Nat] /\ interval_' \in [Addrs -> Nat]
             /\ sequence_' \in [Addrs -> Nat] /\ <<a, s_numCreated_>> \in Ids
  <2>1. <<a, s_numCreated_>> \in Ids
    BY Zenon, PairFacts DEF Types
  <2> QED
    BY <1>1, <2>1, TimeAssumption DEF NewTimer, Types
<1>2. ASSUME NEW a \in Addrs, NEW n \in Nat, NEW when \in Nat, AddTimerInLoop(a, n, when)
      PROVE  /\ timers_' \in SUBSET Entries /\ active_timers_' \in SUBSET Ids
             /\ canceling_timers_' \in SUBSET Ids /\ armed' \in SUBSET Nat
  <2>1. Later(when, clock + MinDelay) \in Nat
    BY TimeAssumption DEF Later, Types
  <2>2. <<when, a>> \in Entries /\ <<a, n>> \in Ids
    BY Zenon, PairFacts
  <2> QED
    BY Zenon, <1>2, <2>1, <2>2 DEF AddTimerInLoop, ResetTimerfd, Types
<1>3. ASSUME NEW id \in Ids, CancelInLoop(id)
      PROVE  /\ timers_' \in SUBSET Entries /\ active_timers_' \in SUBSET Ids
             /\ canceling_timers_' \in SUBSET Ids /\ cancelled' \in SUBSET Ids
             /\ allocated' \in SUBSET Addrs
  BY <1>3 DEF CancelInLoop, Types
<1> QED
  BY <1>1, <1>2, <1>3

(***************************************************************************)
(* The types hold in every state.                                          *)
(***************************************************************************)
LEMMA TypesHold == Spec => []Types
<1>1. Init => Types
  <2> SUFFICES ASSUME Init PROVE Types
    OBVIOUS
  <2>1. pending \in Seq(Calls)
    BY DEF Init
  <2> QED
    BY Zenon, <2>1 DEF Init, Types
<1>2. Types /\ [Next]_vars => Types'
  <2> SUFFICES ASSUME Types, [Next]_vars PROVE Types'
    OBVIOUS
  <2> USE DEF heapvars, setvars, readvars, uservars
  <2>1. CASE Destroy
    BY <2>1 DEF Destroy, Types
  <2>2. CASE UNCHANGED vars
    BY <2>2 DEF vars, Types
  <2>3. ASSUME Step, UNCHANGED gone PROVE Types'
    <3> USE <2>3
    <3>1. CASE Tick
      BY <3>1 DEF Tick, Types
    <3>2. CASE RunPending
      <4>1. Tail(pending) \in Seq(Calls) /\ Head(pending).id \in Ids
        BY <3>2, CallFacts DEF RunPending, Types
      <4>2. Head(pending).id[1] \in Addrs /\ Head(pending).id[2] \in Nat
        BY <4>1, PairFacts
      <4>3. expiration_[Head(pending).id[1]] \in Nat
        BY <4>2 DEF Types
      <4>4. /\ timers_' \in SUBSET Entries /\ active_timers_' \in SUBSET Ids
            /\ canceling_timers_' \in SUBSET Ids /\ armed' \in SUBSET Nat
            /\ cancelled' \in SUBSET Ids /\ allocated' \in SUBSET Addrs
        <5>1. CASE AddTimerInLoop(Head(pending).id[1], Head(pending).id[2], expiration_[Head(pending).id[1]])
                   /\ UNCHANGED <<allocated, cancelled>>
          BY Zenon, <5>1, <4>2, <4>3, PartTypes DEF Types
        <5>2. CASE CancelInLoop(Head(pending).id) /\ UNCHANGED armed
          BY <5>2, <4>1, PartTypes DEF Types
        <5> QED
          BY <3>2, <5>1, <5>2 DEF RunPending
      <4> QED
        BY <3>2, <4>1, <4>4 DEF RunPending, Types
    <3>3. CASE HandleRead
      BY <3>3 DEF HandleRead, Due, Types
    <3>4. CASE TimerReturn
      BY <3>4 DEF TimerReturn, Types
    <3>5. CASE Reset
      <4>1. \A e \in expired : e[2] \in Addrs
        BY PairFacts DEF Types
      <4>2. \A a \in Addrs : Restart(a) \in Nat /\ Id(a) \in Ids /\ <<Restart(a), a>> \in Entries
        <5>1. \A a \in Addrs : now + interval_[a] \in Nat /\ sequence_[a] \in Nat
          BY DEF Types
        <5> QED
          BY Zenon, <5>1, PairFacts DEF Restart, Id
      <4> DEFINE again == {e[2] : e \in Restarted}
      <4>3. again \in SUBSET Addrs
        BY <4>1 DEF Restarted
      <4>4. /\ expiration_' = [a \in Addrs |-> IF a \in again THEN Restart(a) ELSE expiration_[a]]
            /\ timers_' = timers_ \cup {<<Restart(a), a>> : a \in again}
            /\ active_timers_' = active_timers_ \cup {Id(a) : a \in again}
            /\ allocated' = allocated \ {e[2] : e \in expired \ Restarted}
        BY <3>5 DEF Reset
      <4> HIDE DEF again
      <4>5. /\ expiration_' \in [Addrs -> Nat] /\ timers_' \in SUBSET Entries
            /\ active_timers_' \in SUBSET Ids /\ allocated' \in SUBSET Addrs
        BY Zenon, <4>2, <4>3, <4>4 DEF Types
      <4>6. armed' \in SUBSET Nat
        <5>1. CASE timers_' = {}
          BY Zenon, <3>5, <5>1 DEF Reset, Rearm, Types
        <5>2. CASE timers_' # {}
          <6>1. armed' = {Later(Earliest(timers_')[1], clock + MinDelay)}
            BY <3>5, <5>2 DEF Reset, Rearm, ResetTimerfd
          <6>2. PICK e \in timers_' : \A f \in timers_' : e[1] <= f[1]
            BY <5>2, <4>5, EarliestExists
          <6>3. Earliest(timers_') \in timers_'
            BY <6>2 DEF Earliest
          <6>4. Earliest(timers_')[1] \in Nat
            BY <6>3, <4>5, PairFacts
          <6> QED
            BY <6>1, <6>4, TimeAssumption DEF Later, Types
        <5> QED
          BY <5>1, <5>2
      <4> QED
        BY Zenon, <3>5, <4>5, <4>6 DEF Reset, Types
    <3>6. ASSUME NEW e \in todo, RunTimer(e) PROVE Types'
      <4>1. Id(e[2]) \in Ids
        BY Zenon, PairFacts DEF Id, Types
      <4> QED
        BY <3>6, <4>1 DEF RunTimer, Types
    <3>7. ASSUME NEW id \in known, Cancel(id) PROVE Types'
      <4>1. id \in Ids
        BY DEF Types
      <4> QED
        BY <3>7, <4>1, PartTypes DEF Cancel, Types
    <3>8. ASSUME NEW id \in known, NEW t \in Others, CancelFrom(t, id) PROVE Types'
      <4>1. pending' \in Seq(Calls)
        BY Zenon, <3>8, CallFacts DEF CancelFrom, Types
      <4> QED
        BY <3>8, <4>1 DEF CancelFrom, Types
    <3>9. ASSUME NEW a \in Addrs, NEW when \in Whens, NEW iv \in Intervals, AddTimer(a, when, iv)
          PROVE  Types'
      <4>1. when \in Nat /\ s_numCreated_ \in Nat
        BY TimeAssumption DEF Types
      <4>2. /\ allocated' \in SUBSET Addrs /\ s_numCreated_' \in Nat
            /\ expiration_' \in [Addrs -> Nat] /\ interval_' \in [Addrs -> Nat]
            /\ sequence_' \in [Addrs -> Nat] /\ <<a, s_numCreated_>> \in Ids
        BY <3>9, PartTypes DEF AddTimer
      <4>3. /\ timers_' \in SUBSET Entries /\ active_timers_' \in SUBSET Ids
            /\ canceling_timers_' \in SUBSET Ids /\ armed' \in SUBSET Nat
        BY <3>9, <4>1, PartTypes DEF AddTimer
      <4> QED
        BY Zenon, <3>9, <4>2, <4>3 DEF AddTimer, Types
    <3>10. ASSUME NEW a \in Addrs, NEW when \in Whens, NEW iv \in Intervals, NEW t \in Others,
                  AddTimerFrom(t, a, when, iv)
           PROVE  Types'
      <4>2. /\ allocated' \in SUBSET Addrs /\ s_numCreated_' \in Nat
            /\ expiration_' \in [Addrs -> Nat] /\ interval_' \in [Addrs -> Nat]
            /\ sequence_' \in [Addrs -> Nat] /\ <<a, s_numCreated_>> \in Ids
        BY <3>10, PartTypes DEF AddTimerFrom
      <4>3. pending' \in Seq(Calls)
        BY Zenon, <3>10, <4>2, CallFacts DEF AddTimerFrom, Types
      <4>4. adding' \in [Others -> SUBSET Ids]
        BY <3>10, <4>2 DEF AddTimerFrom, Types
      <4> QED
        BY Zenon, <3>10, <4>2, <4>3, <4>4 DEF AddTimerFrom, Types
    <3>11. ASSUME NEW t \in Others, AddTimerReturn(t) PROVE Types'
      <4>1. \A id \in adding[t] : Id(id[1]) \in Ids
        BY Zenon, PairFacts DEF Id, Types
      <4> QED
        BY <3>11, <4>1 DEF AddTimerReturn, Types
    <3>12. CASE Poll
      BY Zenon, <3>12 DEF Poll, Types
    <3> QED
      BY <2>3, <3>1, <3>2, <3>3, <3>4, <3>5, <3>6, <3>7, <3>8, <3>9, <3>10, <3>11, <3>12 DEF Step
  <2> QED
    BY <2>1, <2>2, <2>3 DEF Next
<1> QED
  BY <1>1, <1>2, PTL DEF Spec

-----------------------------------------------------------------------------
(***************************************************************************)
(* Whatever is in the set of timers, the timerfd goes off in time for it.  *)
(***************************************************************************)
Punctual ==
  (~calling_expired_timers_ /\ timers_ # {}) =>
    \E t \in armed : \A e \in timers_ : t <= Later(e[1], clock + MinDelay)

(***************************************************************************)
(* Outside HandleRead() the timerfd is set to go off when the earliest     *)
(* timer is due, or MinDelay from now, after any additions, cancellations, *)
(* expirations and restarts.                                               *)
(***************************************************************************)
THEOREM TimerfdStaysArmed == Spec => []TimerfdArmed
<1>1. Init => Punctual
  BY DEF Init, Punctual
<1>2. Types /\ Types' /\ Punctual /\ [Next]_vars => Punctual'
  <2> SUFFICES ASSUME Types, Types', Punctual, [Next]_vars PROVE Punctual'
    OBVIOUS
  <2> USE DEF heapvars, setvars, readvars, uservars
  <2>t. \A e \in timers_ : e[1] \in Nat
    BY PairFacts DEF Types
  <2>0. clock \in Nat /\ MinDelay \in Nat /\ armed \in SUBSET Nat
    BY TimeAssumption DEF Types
  \* Fewer timers, and the timerfd as it was.
  <2>f. ASSUME timers_' \subseteq timers_, UNCHANGED <<armed, clock, calling_expired_timers_>>
        PROVE  Punctual'
    BY <2>f DEF Punctual
  <2>a. ASSUME NEW a, NEW n, NEW when \in Nat, AddTimerInLoop(a, n, when),
               UNCHANGED <<clock, calling_expired_timers_>>
        PROVE  Punctual'
    <3> SUFFICES ASSUME ~calling_expired_timers_
                 PROVE  \E t \in armed' : \A e \in timers_' : t <= Later(e[1], clock + MinDelay)
      BY <2>a DEF Punctual
    <3>0. timers_' = timers_ \cup {<<when, a>>} /\ <<when, a>>[1] = when
      BY <2>a DEF AddTimerInLoop
    <3>1. CASE IsEarliest(when)
      <4>1. armed' = {Later(when, clock + MinDelay)}
        BY <2>a, <3>1 DEF AddTimerInLoop, ResetTimerfd
      <4>2. \A e \in timers_ : when < e[1]
        BY <3>1 DEF IsEarliest
      <4>3. \A e \in timers_' : Later(when, clock + MinDelay) <= Later(e[1], clock + MinDelay)
        BY <2>0, <2>t, <3>0, <4>2 DEF Later
      <4> QED
        BY <4>1, <4>3
    <3>2. CASE ~IsEarliest(when)
      <4>1. PICK f \in timers_ : ~(when < f[1])
        BY <3>2 DEF IsEarliest
      <4>2. PICK t \in armed : \A e \in timers_ : t <= Later(e[1], clock + MinDelay)
        BY <4>1 DEF Punctual
      <4>3. t <= Later(when, clock + MinDelay)
        BY <2>0, <2>t, <4>1, <4>2 DEF Later
      <4>4. armed' = armed
        BY <2>a, <3>2 DEF AddTimerInLoop
      <4> QED
        BY <3>0, <4>2, <4>3, <4>4
    <3> QED
      BY <3>1, <3>2
  <2>1. CASE Destroy
    BY <2>1 DEF Destroy, Punctual
  <2>2. CASE UNCHANGED vars
    BY <2>2, <2>f DEF vars
  <2>3. ASSUME Step PROVE Punctual'
    <3> USE <2>3
    <3>1. CASE Tick
      <4>1. /\ clock' = clock + 1
            /\ UNCHANGED <<armed, timers_, calling_expired_timers_>>
        BY <3>1 DEF Tick
      <4>2. \A e \in timers_, t \in armed :
              t <= Later(e[1], clock + MinDelay) => t <= Later(e[1], clock + 1 + MinDelay)
        BY <2>0, <2>t DEF Later
      <4> QED
        BY <4>1, <4>2 DEF Punctual
    <3>2. CASE RunPending
      <4>1. expiration_[Head(pending).id[1]] \in Nat
        <5>1. Head(pending).id \in Ids
          BY <3>2, CallFacts DEF RunPending, Types
        <5> QED
          BY <5>1, PairFacts DEF Types
      <4>2. CASE AddTimerInLoop(Head(pending).id[1], Head(pending).id[2], expiration_[Head(pending).id[1]])
        BY ZenonT(40), <2>a, <3>2, <4>1, <4>2 DEF RunPending
      <4>3. CASE CancelInLoop(Head(pending).id) /\ UNCHANGED armed
        BY <2>f, <3>2, <4>3 DEF RunPending, CancelInLoop
      <4> QED
        BY <3>2, <4>2, <4>3 DEF RunPending
    <3>3. CASE HandleRead
      BY <3>3 DEF HandleRead, Punctual
    <3>4. CASE TimerReturn
      BY <2>f, <3>4 DEF TimerReturn
    <3>5. CASE Reset
      <4> SUFFICES ASSUME timers_' # {}
                   PROVE  \E t \in armed' : \A e \in timers_' : t <= Later(e[1], clock + MinDelay)
        BY <3>5 DEF Reset, Punctual
      <4>1. armed' = {Later(Earliest(timers_')[1], clock + MinDelay)}
        BY <3>5 DEF Reset, Rearm, ResetTimerfd
      <4>2. Earliest(timers_') \in timers_' /\ \A f \in timers_' : Earliest(timers_')[1] <= f[1]
        <5>1. \E e \in timers_' : \A f \in timers_' : e[1] <= f[1]
          BY Zenon, EarliestExists DEF Types
        <5> QED
          BY <5>1 DEF Earliest
      <4>3. \A e \in timers_' : e[1] \in Nat
        BY PairFacts DEF Types
      <4>4. \A f \in timers_' : Later(Earliest(timers_')[1], clock + MinDelay) <= Later(f[1], clock + MinDelay)
        BY <2>0, <4>2, <4>3 DEF Later
      <4> QED
        BY <4>1, <4>4
    <3>6. ASSUME NEW e \in todo, RunTimer(e) PROVE Punctual'
      BY <2>f, <3>6 DEF RunTimer
    <3>7. ASSUME NEW id \in known, Cancel(id) PROVE Punctual'
      BY Zenon, <2>f, <3>7 DEF Cancel, CancelInLoop
    <3>8. ASSUME NEW id \in known, NEW t \in Others, CancelFrom(t, id) PROVE Punctual'
      BY <2>f, <3>8 DEF CancelFrom
    <3>9. ASSUME NEW a \in Addrs, NEW when \in Whens, NEW iv \in Intervals, AddTimer(a, when, iv)
          PROVE  Punctual'
      <4>1. when \in Nat
        BY TimeAssumption
      <4> QED
        BY <2>a, <3>9, <4>1 DEF AddTimer
    <3>10. ASSUME NEW a \in Addrs, NEW when \in Whens, NEW iv \in Intervals, NEW t \in Others,
                  AddTimerFrom(t, a, when, iv)
           PROVE  Punctual'
      BY <2>f, <3>10 DEF AddTimerFrom
    <3>11. ASSUME NEW t \in Others, AddTimerReturn(t) PROVE Punctual'
      BY <2>f, <3>11 DEF AddTimerReturn
    <3>12. CASE Poll
      BY <2>f, <3>12 DEF Poll
    <3> QED
      BY <2>3, <3>1, <3>2, <3>3, <3>4, <3>5, <3>6, <3>7, <3>8, <3>9, <3>10, <3>11, <3>12 DEF Step
  <2> QED
    BY <2>1, <2>2, <2>3 DEF Next
<1>3. Types /\ Punctual => TimerfdArmed
  <2> SUFFICES ASSUME Types, Punctual, ~calling_expired_timers_, timers_ # {}
               PROVE  \E t \in armed : t <= Later(Earliest(timers_)[1], clock + MinDelay)
    BY DEF TimerfdArmed
  <2>1. \E e \in timers_ : \A f \in timers_ : e[1] <= f[1]
    BY EarliestExists DEF Types
  <2>2. Earliest(timers_) \in timers_
    BY Zenon, <2>1 DEF Earliest
  <2> QED
    BY <2>2 DEF Punctual
<1> QED
  BY <1>1, <1>2, <1>3, TypesHold, PTL DEF Spec

-----------------------------------------------------------------------------
(* The queued additions *)

Adds(q) == {q[i].id : i \in {j \in DOMAIN q : q[j].add}}
Distinct(q) == \A i, j \in DOMAIN q : q[i].add /\ q[j].add /\ q[i].id = q[j].id => i = j

(***************************************************************************)
(* The additions in the queue, when a call is queued and when the first is *)
(* taken.                                                                  *)
(***************************************************************************)
LEMMA AddsFacts ==
  ASSUME NEW q \in Seq(Calls), Distinct(q)
  PROVE  /\ Adds(q) \subseteq Ids
         /\ \A x \in Ids : LET p == Append(q, [add |-> TRUE, id |-> x])
                          IN  Adds(p) = Adds(q) \cup {x} /\ (x \notin Adds(q) => Distinct(p))
         /\ \A x \in Ids : LET p == Append(q, [add |-> FALSE, id |-> x])
                          IN  Adds(p) = Adds(q) /\ Distinct(p)
         /\ q # <<>> =>
              /\ Distinct(Tail(q))
              /\ Head(q).add => Head(q).id \in Adds(q) /\ Adds(Tail(q)) = Adds(q) \ {Head(q).id}
              /\ ~Head(q).add => Adds(Tail(q)) = Adds(q)
<1>0. Len(q) \in Nat /\ DOMAIN q = 1..Len(q) /\ \A i \in DOMAIN q : q[i] \in Calls
  OBVIOUS
<1>1. Adds(q) \subseteq Ids
  BY Zenon, <1>0 DEF Adds, Calls
<1>2. ASSUME NEW c \in Calls, NEW p, p = Append(q, c)
      PROVE  /\ DOMAIN p = DOMAIN q \cup {Len(q) + 1} /\ Len(q) + 1 \notin DOMAIN q
             /\ p[Len(q) + 1] = c /\ \A i \in DOMAIN q : p[i] = q[i]
  <2>1. /\ p \in Seq(Calls) /\ Len(p) = Len(q) + 1
        /\ \A i \in 1..Len(q) : p[i] = q[i]
        /\ p[Len(q) + 1] = c
    BY <1>2
  <2>2. DOMAIN p = 1..Len(p)
    BY <2>1
  <2> QED
    BY <1>0, <2>1, <2>2
<1>3. ASSUME NEW x \in Ids, NEW p, p = Append(q, [add |-> TRUE, id |-> x])
      PROVE  Adds(p) = Adds(q) \cup {x} /\ (x \notin Adds(q) => Distinct(p))
  <2>1. [add |-> TRUE, id |-> x] \in Calls
    BY DEF Calls
  <2>2. /\ DOMAIN p = DOMAIN q \cup {Len(q) + 1} /\ Len(q) + 1 \notin DOMAIN q
        /\ p[Len(q) + 1].add /\ p[Len(q) + 1].id = x /\ \A i \in DOMAIN q : p[i] = q[i]
    BY <1>2, <1>3, <2>1, SMTT(30)
  <2>3. Adds(p) = Adds(q) \cup {x}
    BY <2>2 DEF Adds
  <2>4. x \notin Adds(q) => Distinct(p)
    BY <2>2 DEF Distinct, Adds
  <2> QED
    BY <2>3, <2>4
<1>4. ASSUME NEW x \in Ids, NEW p, p = Append(q, [add |-> FALSE, id |-> x])
      PROVE  Adds(p) = Adds(q) /\ Distinct(p)
  <2>1. [add |-> FALSE, id |-> x] \in Calls
    BY DEF Calls
  <2>2. /\ DOMAIN p = DOMAIN q \cup {Len(q) + 1} /\ Len(q) + 1 \notin DOMAIN q
        /\ ~p[Len(q) + 1].add /\ \A i \in DOMAIN q : p[i] = q[i]
    BY <1>2, <1>4, <2>1
  <2> QED
    BY <2>2 DEF Distinct, Adds
<1>5. ASSUME q # <<>>
      PROVE  /\ Distinct(Tail(q))
             /\ Head(q).add => Head(q).id \in Adds(q) /\ Adds(Tail(q)) = Adds(q) \ {Head(q).id}
             /\ ~Head(q).add => Adds(Tail(q)) = Adds(q)
  <2> DEFINE p == Tail(q)
  <2>1. /\ p \in Seq(Calls) /\ Len(p) = Len(q) - 1 /\ Len(q) > 0
        /\ \A i \in 1..Len(p) : p[i] = q[i + 1]
        /\ Head(q) = q[1]
    BY <1>0, <1>5
  <2>2. DOMAIN p = 1..Len(p)
    BY <2>1
  <2> HIDE DEF p
  <2>3. /\ \A i \in DOMAIN p : i + 1 \in DOMAIN q /\ i + 1 # 1 /\ p[i] = q[i + 1] /\ i \in Nat
        /\ \A j \in DOMAIN q : j # 1 => \E i \in DOMAIN p : j = i + 1
        /\ 1 \in DOMAIN q
    <3>1. \A j \in DOMAIN q : j # 1 => j - 1 \in DOMAIN p /\ j = (j - 1) + 1
      BY <1>0, <2>1, <2>2
    <3> QED
      BY <1>0, <2>1, <2>2, <3>1
  <2>4. Distinct(p)
    BY <2>3 DEF Distinct
  <2>5. \A x : x \in Adds(p) <=> \E j \in DOMAIN q : j # 1 /\ q[j].add /\ q[j].id = x
    BY <2>3 DEF Adds
  <2>8. \A x : x \in Adds(q) <=> \E j \in DOMAIN q : q[j].add /\ q[j].id = x
    BY DEF Adds
  <2>6. ASSUME Head(q).add
        PROVE  Head(q).id \in Adds(q) /\ Adds(p) = Adds(q) \ {Head(q).id}
    <3>1. q[1].add /\ q[1].id = Head(q).id
      BY <2>1, <2>6
    <3>2. Head(q).id \in Adds(q)
      BY <2>3, <2>8, <3>1
    <3>3. \A x : x \in Adds(p) <=> x \in Adds(q) /\ x # Head(q).id
      BY <2>3, <2>5, <2>8, <3>1 DEF Distinct
    <3> QED
      BY <3>2, <3>3
  <2>7. ASSUME ~Head(q).add PROVE Adds(p) = Adds(q)
    <3>1. ~q[1].add
      BY <2>1, <2>7
    <3>2. \A x : x \in Adds(p) <=> x \in Adds(q)
      BY <2>5, <2>8, <3>1
    <3> QED
      BY Zenon, <3>2
  <2> QED
    BY <2>4, <2>6, <2>7 DEF p
<1> QED
  BY Zenon, <1>1, <1>3, <1>4, <1>5

-----------------------------------------------------------------------------
(* Where timers are *)

\* H are the addresses of the timers in the sets, Q of those whose addition is
\* queued and B of those HandleRead() works on.
Placed(H, Q, B) ==
  /\ H \subseteq Addrs /\ Q \subseteq Addrs /\ B \subseteq Addrs
  /\ H \cap Q = {} /\ H \cap B = {} /\ Q \cap B = {}
  /\ allocated = H \cup Q \cup B
  /\ active_timers_ = {<<a, sequence_[a]>> : a \in H}
  /\ timers_ = {<<expiration_[a], a>> : a \in H}
  /\ Adds(pending) = {<<a, sequence_[a]>> : a \in Q} /\ Distinct(pending)
  /\ expired = {<<expiration_[a], a>> : a \in B}
  /\ ~calling_expired_timers_ => B = {}
  /\ gone => allocated = {}

\* A timer that was cancelled, or was a one-shot timer and has run, is at most
\* in the batch, and then Reset() will not restart it.
Ended(H, Q, B) ==
  /\ \A a \in H \cup Q : <<a, sequence_[a]>> \notin cancelled \cup fired
  /\ \A a \in B :
       /\ <<a, sequence_[a]>> \in cancelled => <<a, sequence_[a]>> \in canceling_timers_
       /\ <<a, sequence_[a]>> \in fired => interval_[a] = 0 /\ <<expiration_[a], a>> \notin todo
  /\ \A a \in H \cup Q \cup B : sequence_[a] < s_numCreated_
  /\ \A id \in cancelled \cup fired : id[2] < s_numCreated_

Places == \E H, Q, B \in SUBSET Addrs : Placed(H, Q, B) /\ Ended(H, Q, B)

(***************************************************************************)
(* The ids and the entries of a set of addresses do not depend on what the *)
(* sequence and expiration of other addresses are.                         *)
(***************************************************************************)
LEMMA ImageSame ==
  ASSUME NEW S, NEW f, NEW g, \A a \in S : f[a] = g[a]
  PROVE  /\ {<<a, f[a]>> : a \in S} = {<<a, g[a]>> : a \in S}
         /\ {<<f[a], a>> : a \in S} = {<<g[a], a>> : a \in S}
<1>1. {<<a, f[a]>> : a \in S} = {<<a, g[a]>> : a \in S}
  OBVIOUS
<1>2. {<<f[a], a>> : a \in S} = {<<g[a], a>> : a \in S}
  OBVIOUS
<1> QED
  BY <1>1, <1>2

\* One address more.
LEMMA ImageJoin ==
  ASSUME NEW S, NEW f, NEW x
  PROVE  /\ {<<a, f[a]>> : a \in S \cup {x}} = {<<a, f[a]>> : a \in S} \cup {<<x, f[x]>>}
         /\ {<<f[a], a>> : a \in S \cup {x}} = {<<f[a], a>> : a \in S} \cup {<<f[x], x>>}
<1>1. {<<a, f[a]>> : a \in S \cup {x}} = {<<a, f[a]>> : a \in S} \cup {<<x, f[x]>>}
  OBVIOUS
<1>2. {<<f[a], a>> : a \in S \cup {x}} = {<<f[a], a>> : a \in S} \cup {<<f[x], x>>}
  OBVIOUS
<1> QED
  BY <1>1, <1>2

\* Some addresses less.
LEMMA ImageDrop ==
  ASSUME NEW S, NEW f, NEW D
  PROVE  /\ {<<a, f[a]>> : a \in S \ D} = {<<a, f[a]>> : a \in S} \ {<<a, f[a]>> : a \in D}
         /\ {<<f[a], a>> : a \in S \ D} = {<<f[a], a>> : a \in S} \ {<<f[a], a>> : a \in D}
<1>1. {<<a, f[a]>> : a \in S \ D} = {<<a, f[a]>> : a \in S} \ {<<a, f[a]>> : a \in D}
  OBVIOUS
<1>2. {<<f[a], a>> : a \in S \ D} = {<<f[a], a>> : a \in S} \ {<<f[a], a>> : a \in D}
  OBVIOUS
<1> QED
  BY <1>1, <1>2

\* A timer was made at address a, and the others are as they were.
Fresh(H, Q, B, a, when) ==
  /\ a \notin H /\ a \notin Q /\ a \notin B /\ allocated' = H \cup Q \cup B \cup {a}
  /\ sequence_'[a] = s_numCreated_ /\ expiration_'[a] = when
  /\ \A b \in H \cup Q \cup B :
       sequence_'[b] = sequence_[b] /\ expiration_'[b] = expiration_[b] /\ interval_'[b] = interval_[b]
  /\ s_numCreated_' = s_numCreated_ + 1
  /\ <<a, s_numCreated_>> \notin cancelled \cup fired
  /\ <<a, s_numCreated_>> \in Ids
  /\ {<<b, sequence_'[b]>> : b \in H} = active_timers_
  /\ {<<expiration_'[b], b>> : b \in H} = timers_
  /\ {<<b, sequence_'[b]>> : b \in Q} = Adds(pending)
  /\ {<<expiration_'[b], b>> : b \in B} = expired

(***************************************************************************)
(* new Timer() leaves the other timers alone and makes an id that was      *)
(* never used.                                                             *)
(***************************************************************************)
LEMMA NewTimerFacts ==
  ASSUME Types, NEW H \in SUBSET Addrs, NEW Q \in SUBSET Addrs, NEW B \in SUBSET Addrs,
         Placed(H, Q, B), Ended(H, Q, B),
         NEW a \in Addrs, NEW when \in Whens, NEW iv \in Intervals, NewTimer(a, when, iv)
  PROVE  Fresh(H, Q, B, a, when)
<1>1. a \notin H /\ a \notin Q /\ a \notin B /\ allocated' = H \cup Q \cup B \cup {a}
  BY DEF NewTimer, Placed
<1>2. /\ sequence_'[a] = s_numCreated_ /\ expiration_'[a] = when
      /\ s_numCreated_' = s_numCreated_ + 1
  BY DEF NewTimer, Types
<1>3. \A b \in H \cup Q \cup B :
        sequence_'[b] = sequence_[b] /\ expiration_'[b] = expiration_[b] /\ interval_'[b] = interval_[b]
  BY <1>1 DEF NewTimer, Types
<1>4. <<a, s_numCreated_>> \notin cancelled \cup fired
  <2>1. s_numCreated_ \in Nat /\ <<a, s_numCreated_>>[2] = s_numCreated_
    BY DEF Types
  <2> QED
    BY <2>1 DEF Ended
<1>5. <<a, s_numCreated_>> \in Ids
  BY Zenon, PairFacts DEF Types
<1>6. /\ {<<b, sequence_'[b]>> : b \in H} = {<<b, sequence_[b]>> : b \in H}
      /\ {<<expiration_'[b], b>> : b \in H} = {<<expiration_[b], b>> : b \in H}
      /\ {<<b, sequence_'[b]>> : b \in Q} = {<<b, sequence_[b]>> : b \in Q}
      /\ {<<expiration_'[b], b>> : b \in B} = {<<expiration_[b], b>> : b \in B}
  <2>1. \A b \in H : sequence_'[b] = sequence_[b] /\ expiration_'[b] = expiration_[b]
    BY <1>3
  <2>2. \A b \in Q : sequence_'[b] = sequence_[b]
    BY <1>3
  <2>3. \A b \in B : expiration_'[b] = expiration_[b]
    BY Zenon, <1>3
  <2>4. {<<b, sequence_'[b]>> : b \in H} = {<<b, sequence_[b]>> : b \in H}
    BY <2>1, ImageSame
  <2>5. {<<expiration_'[b], b>> : b \in H} = {<<expiration_[b], b>> : b \in H}
    BY <2>1, ImageSame
  <2>6. {<<b, sequence_'[b]>> : b \in Q} = {<<b, sequence_[b]>> : b \in Q}
    BY <2>2, ImageSame
  <2>7. {<<expiration_'[b], b>> : b \in B} = {<<expiration_[b], b>> : b \in B}
    BY Zenon, <2>3, ImageSame
  <2> QED
    BY Zenon, <2>4, <2>5, <2>6, <2>7
<1> QED
  BY Zenon, <1>1, <1>2, <1>3, <1>4, <1>5, <1>6 DEF Placed, Fresh

(***************************************************************************)
(* A new timer, wherever it goes, has neither been cancelled nor run.      *)
(***************************************************************************)
LEMMA FreshKeepsEnded ==
  ASSUME Types, NEW H, NEW Q, NEW B, NEW H1, NEW Q1, NEW a, NEW when, H1 \cup Q1 = H \cup Q \cup {a},
         H \cup Q \cup B \subseteq Addrs, Ended(H, Q, B), Fresh(H, Q, B, a, when),
         UNCHANGED <<canceling_timers_, cancelled, fired, todo>>
  PROVE  Ended(H1, Q1, B)'
<1>1. /\ sequence_'[a] = s_numCreated_ /\ s_numCreated_' = s_numCreated_ + 1
      /\ <<a, s_numCreated_>> \notin cancelled \cup fired
      /\ \A b \in H \cup Q \cup B :
           sequence_'[b] = sequence_[b] /\ expiration_'[b] = expiration_[b] /\ interval_'[b] = interval_[b]
  BY DEF Fresh
<1>2. s_numCreated_ \in Nat /\ \A id \in cancelled \cup fired : id[2] \in Nat
  BY PairFacts DEF Types
<1>3. \A b \in H \cup Q \cup B : sequence_[b] \in Nat
  BY DEF Types
<1>4. \A b \in H1 \cup Q1 : <<b, sequence_'[b]>> \notin cancelled \cup fired
  BY Zenon, <1>1 DEF Ended
<1>5. \A b \in B :
        /\ <<b, sequence_'[b]>> \in cancelled => <<b, sequence_'[b]>> \in canceling_timers_
        /\ <<b, sequence_'[b]>> \in fired => interval_'[b] = 0 /\ <<expiration_'[b], b>> \notin todo
  BY Zenon, <1>1 DEF Ended
<1>6. \A b \in H1 \cup Q1 \cup B : sequence_'[b] < s_numCreated_'
  BY <1>1, <1>2, <1>3 DEF Ended
<1>7. \A id \in cancelled \cup fired : id[2] < s_numCreated_'
  BY <1>1, <1>2 DEF Ended
<1> QED
  BY ZenonT(40), <1>4, <1>5, <1>6, <1>7 DEF Ended

(***************************************************************************)
(* AddTimer() in the loop's thread and in another one.                     *)
(***************************************************************************)
LEMMA AddKeepsPlaces ==
  ASSUME Types, Places, ~gone, UNCHANGED gone,
         NEW a \in Addrs, NEW when \in Whens, NEW iv \in Intervals
  PROVE  /\ AddTimer(a, when, iv) => Places'
         /\ \A t \in Others : AddTimerFrom(t, a, when, iv) => Places'
<1> USE DEF heapvars, setvars, readvars, uservars
<1>0. PICK H, Q, B \in SUBSET Addrs : Placed(H, Q, B) /\ Ended(H, Q, B)
  BY DEF Places
<1> DEFINE n == s_numCreated_
<1>1. ASSUME AddTimer(a, when, iv) PROVE Places'
  <2> DEFINE H1 == H \cup {a}
  <2>0. /\ NewTimer(a, when, iv) /\ timers_' = timers_ \cup {<<when, a>>}
        /\ active_timers_' = active_timers_ \cup {<<a, n>>}
        /\ UNCHANGED <<canceling_timers_, cancelled, fired, expired, todo, pending, calling_expired_timers_>>
    BY <1>1 DEF AddTimer, AddTimerInLoop
  <2>f. Fresh(H, Q, B, a, when)
    BY <1>0, <2>0, NewTimerFacts
  <2>1. Placed(H1, Q, B)'
    <3>1. /\ {<<b, sequence_'[b]>> : b \in H1} = active_timers_'
          /\ {<<expiration_'[b], b>> : b \in H1} = timers_'
      <4>1. /\ {<<b, sequence_'[b]>> : b \in H} = active_timers_ /\ sequence_'[a] = n
            /\ {<<expiration_'[b], b>> : b \in H} = timers_ /\ expiration_'[a] = when
        BY ZenonT(40), <2>f DEF Fresh
      <4>2. {<<b, sequence_'[b]>> : b \in H1} = {<<b, sequence_'[b]>> : b \in H} \cup {<<a, sequence_'[a]>>}
        BY ONLY ImageJoin DEF H1
      <4>3. {<<expiration_'[b], b>> : b \in H1} = {<<expiration_'[b], b>> : b \in H} \cup {<<expiration_'[a], a>>}
        BY ONLY ImageJoin DEF H1
      <4> QED
        BY Zenon, <2>0, <4>1, <4>2, <4>3
    <3>2. H1 \subseteq Addrs /\ H1 \cap Q = {} /\ H1 \cap B = {} /\ allocated' = H1 \cup Q \cup B
      BY ZenonT(40), <1>0, <2>0, <2>f DEF Fresh, Placed
    <3>3. Adds(pending') = {<<b, sequence_'[b]>> : b \in Q} /\ expired' = {<<expiration_'[b], b>> : b \in B}
      BY <2>0, <2>f DEF Fresh
    <3> HIDE DEF H1
    <3> QED
      BY Zenon, <1>0, <2>0, <3>1, <3>2, <3>3 DEF Placed
  <2>2. Ended(H1, Q, B)'
    BY <1>0, <2>0, <2>f, FreshKeepsEnded
  <2> QED
    BY <2>1, <2>2 DEF Places
<1>2. ASSUME NEW t \in Others, AddTimerFrom(t, a, when, iv) PROVE Places'
  <2> DEFINE Q1 == Q \cup {a}
  <2>0. /\ NewTimer(a, when, iv)
        /\ pending' = Append(pending, [add |-> TRUE, id |-> <<a, n>>])
        /\ UNCHANGED <<timers_, active_timers_, canceling_timers_, cancelled, fired, expired, todo, calling_expired_timers_>>
    BY <1>2 DEF AddTimerFrom
  <2>f. Fresh(H, Q, B, a, when)
    BY <1>0, <2>0, NewTimerFacts
  <2>1. Placed(H, Q1, B)'
    <3>1. Adds(pending') = Adds(pending) \cup {<<a, n>>} /\ (<<a, n>> \notin Adds(pending) => Distinct(pending'))
      <4>1. pending \in Seq(Calls) /\ Distinct(pending) /\ <<a, n>> \in Ids
        BY Zenon, <1>0, <2>f DEF Fresh, Placed, Types
      <4> QED
        BY Zenon, <2>0, <4>1, AddsFacts
    <3>2. <<a, n>> \notin Adds(pending)
      BY ZenonT(40), <1>0, <2>0, <2>f DEF Fresh, Placed
    <3>3. Adds(pending') = {<<b, sequence_'[b]>> : b \in Q1}
      <4>1. {<<b, sequence_'[b]>> : b \in Q1} = {<<b, sequence_'[b]>> : b \in Q} \cup {<<a, sequence_'[a]>>}
        BY ONLY ImageJoin DEF Q1
      <4>2. {<<b, sequence_'[b]>> : b \in Q} = Adds(pending) /\ sequence_'[a] = n
        BY <2>f DEF Fresh
      <4> QED
        BY <3>1, <4>1, <4>2
    <3>4. Q1 \subseteq Addrs /\ H \cap Q1 = {} /\ Q1 \cap B = {} /\ allocated' = H \cup Q1 \cup B
      BY Zenon, <1>0, <2>0, <2>f DEF Fresh, Placed
    <3>5. /\ active_timers_' = {<<b, sequence_'[b]>> : b \in H} /\ expired' = {<<expiration_'[b], b>> : b \in B}
          /\ timers_' = {<<expiration_'[b], b>> : b \in H}
      BY Zenon, <2>0, <2>f DEF Fresh
    <3> HIDE DEF Q1
    <3> QED
      BY Zenon, <1>0, <2>0, <3>1, <3>2, <3>3, <3>4, <3>5 DEF Placed
  <2>2. Ended(H, Q1, B)'
    BY <1>0, <2>0, <2>f, FreshKeepsEnded
  <2> QED
    BY <2>1, <2>2 DEF Places
<1> QED
  BY <1>1, <1>2

(***************************************************************************)
(* CancelInLoop(), called at once or taken from the queue.                 *)
(***************************************************************************)
LEMMA CancelKeepsPlaces ==
  ASSUME Types, Places, ~gone, NEW id \in Ids, CancelInLoop(id),
         UNCHANGED <<gone, expiration_, interval_, sequence_, s_numCreated_>>,
         UNCHANGED <<calling_expired_timers_, expired, todo, fired>>,
         Adds(pending') = Adds(pending), Distinct(pending) => Distinct(pending')
  PROVE  Places'
<1>0. PICK H, Q, B \in SUBSET Addrs : Placed(H, Q, B) /\ Ended(H, Q, B)
  BY DEF Places
<1>p. id[1] \in Addrs /\ id[2] \in Nat /\ id = <<id[1], id[2]>>
  BY Zenon, PairFacts
<1>l. InLoopIds = {<<a, sequence_[a]>> : a \in H \cup B}
  <2>1. {<<a, sequence_[a]>> : a \in H \cup B} =
          {<<a, sequence_[a]>> : a \in H} \cup {<<a, sequence_[a]>> : a \in B}
    OBVIOUS
  <2>2. {Id(e[2]) : e \in expired} = {<<a, sequence_[a]>> : a \in B}
    <3>1. \A a : <<expiration_[a], a>>[2] = a
      BY Zenon
    <3>2. expired = {<<expiration_[a], a>> : a \in B}
      BY <1>0 DEF Placed
    <3>3. \A e \in expired : e[2] \in B
      BY <3>1, <3>2
    <3>4. \A a \in B : \E e \in expired : e[2] = a
      BY Zenon, <3>1, <3>2
    <3> QED
      BY <3>3, <3>4 DEF Id
  <2> QED
    BY Zenon, <1>0, <2>1, <2>2 DEF InLoopIds, Placed
<1>n. \A a \in H \cup Q \cup B : sequence_[a] < s_numCreated_
  BY <1>0 DEF Ended
<1>1. CASE id \in active_timers_
  <2>1. PICK a \in H : id = <<a, sequence_[a]>>
    BY Zenon, <1>0, <1>1 DEF Placed
  <2>2. id[1] = a /\ id[2] = sequence_[a]
    BY ZenonT(40), <2>1
  <2>3. /\ timers_' = timers_ \ {<<expiration_[a], a>>}
        /\ active_timers_' = active_timers_ \ {<<a, sequence_[a]>>}
        /\ allocated' = allocated \ {a} /\ UNCHANGED canceling_timers_
        /\ cancelled' \subseteq cancelled \cup {<<a, sequence_[a]>>}
    BY ZenonT(40), <1>1, <2>1, <2>2 DEF CancelInLoop
  <2>4. Placed(H \ {a}, Q, B)'
    <3>1. /\ {<<b, sequence_[b]>> : b \in H \ {a}} = active_timers_'
          /\ {<<expiration_[b], b>> : b \in H \ {a}} = timers_'
      <4>1. /\ active_timers_ = {<<b, sequence_[b]>> : b \in H}
            /\ timers_ = {<<expiration_[b], b>> : b \in H}
        BY Zenon, <1>0 DEF Placed
      <4>2. {<<b, sequence_[b]>> : b \in H \ {a}} = active_timers_ \ {<<a, sequence_[a]>>}
        BY <4>1, ImageDrop
      <4>3. {<<expiration_[b], b>> : b \in H \ {a}} = timers_ \ {<<expiration_[a], a>>}
        BY <4>1, ImageDrop
      <4> QED
        BY Zenon, <2>3, <4>2, <4>3
    <3>2. /\ H \ {a} \subseteq Addrs /\ (H \ {a}) \cap Q = {} /\ (H \ {a}) \cap B = {}
          /\ allocated' = (H \ {a}) \cup Q \cup B
      BY ZenonT(40), <1>0, <2>3 DEF Placed
    <3> DEFINE H1 == H \ {a}
    <3> HIDE DEF H1
    <3>3. Placed(H1, Q, B)'
      BY <1>0, <3>1, <3>2 DEF Placed, H1
    <3> QED
      BY Zenon, <3>3 DEF H1
  <2>5. Ended(H \ {a}, Q, B)'
    <3>1. a \notin Q /\ a \notin B /\ sequence_[a] < s_numCreated_
      BY <1>0, <1>n DEF Placed
    <3>2. \A b \in Addrs : <<b, sequence_[b]>> = <<a, sequence_[a]>> => b = a
      OBVIOUS
    <3>3. <<a, sequence_[a]>>[2] = sequence_[a]
      OBVIOUS
    <3> QED
      BY ZenonT(40), <1>0, <2>3, <3>1, <3>2, <3>3 DEF Ended
  <2>6. H \ {a} \in SUBSET Addrs
    OBVIOUS
  <2> QED
    BY Zenon, <2>4, <2>5, <2>6 DEF Places
<1>2. CASE id \notin active_timers_
  <2>1. /\ UNCHANGED <<timers_, active_timers_, allocated>>
        /\ canceling_timers_' = IF calling_expired_timers_ THEN canceling_timers_ \cup {id}
                                                          ELSE canceling_timers_
        /\ cancelled' = cancelled \cup ({id} \cap InLoopIds)
    BY Zenon, <1>2 DEF CancelInLoop
  <2>2. Placed(H, Q, B)'
    BY Zenon, <1>0, <2>1 DEF Placed
  <2>3. ASSUME NEW x \in cancelled', x \notin cancelled
        PROVE  x = id /\ \E a \in B : x = <<a, sequence_[a]>>
    BY Zenon, <1>0, <1>2, <1>l, <2>1, <2>3 DEF Placed
  <2>4. Ended(H, Q, B)'
    <3>1. \A a \in H \cup Q : <<a, sequence_[a]>> \notin cancelled' \cup fired
      <4>1. \A a \in H \cup Q, b \in B : <<a, sequence_[a]>> # <<b, sequence_[b]>>
        BY Zenon, <1>0 DEF Placed
      <4> QED
        BY Zenon, <1>0, <2>3, <4>1 DEF Ended
    <3>2. \A a \in B : <<a, sequence_[a]>> \in cancelled' => <<a, sequence_[a]>> \in canceling_timers_'
      <4>1. B # {} => calling_expired_timers_
        BY ZenonT(40), <1>0 DEF Placed
      <4> QED
        BY ZenonT(40), <1>0, <2>1, <2>3, <4>1 DEF Ended
    <3>3. \A x \in cancelled' \cup fired : x[2] < s_numCreated_
      <4>1. \A a \in B : <<a, sequence_[a]>>[2] < s_numCreated_
        BY <1>n
      <4> QED
        BY <1>0, <2>3, <4>1 DEF Ended
    <3> QED
      BY <1>0, <3>1, <3>2, <3>3 DEF Ended
  <2> QED
    BY Zenon, <2>2, <2>4 DEF Places
<1> QED
  BY <1>1, <1>2

(***************************************************************************)
(* The batch of HandleRead(), from its beginning to Reset().               *)
(***************************************************************************)
LEMMA BatchKeepsPlaces ==
  ASSUME Types, Places, ~gone, UNCHANGED gone
  PROVE  /\ HandleRead => Places'
         /\ \A e \in todo : RunTimer(e) => Places'
         /\ Reset => Places'
<1> USE DEF heapvars, setvars, readvars, uservars
<1>0. PICK H, Q, B \in SUBSET Addrs : Placed(H, Q, B) /\ Ended(H, Q, B)
  BY DEF Places
<1>e. /\ \A e \in expired : e[2] \in B /\ e = <<expiration_[e[2]], e[2]>>
      /\ \A a \in B : \E e \in expired : e[2] = a
  <2>1. \A a : <<expiration_[a], a>>[2] = a
    BY Zenon
  <2>2. expired = {<<expiration_[a], a>> : a \in B}
    BY <1>0 DEF Placed
  <2> QED
    BY Zenon, <2>1, <2>2
<1>1. ASSUME HandleRead PROVE Places'
  <2>d. PICK D \in SUBSET Addrs : D = {a \in H : expiration_[a] <= clock}
    BY ZenonT(40)
  <2> DEFINE K == H \ D
  <2>0. /\ B = {} /\ calling_expired_timers_' /\ expired' = Due(clock) /\ todo' = expired'
        /\ timers_' = timers_ \ expired'
        /\ active_timers_' = active_timers_ \ {Id(e[2]) : e \in expired'}
        /\ UNCHANGED <<allocated, expiration_, interval_, sequence_, s_numCreated_, pending, cancelled, fired>>
    BY <1>0, <1>1 DEF HandleRead, Placed
  <2>1. expired' = {<<expiration_[a], a>> : a \in D}
    <3>1. \A a : <<expiration_[a], a>>[1] = expiration_[a]
      OBVIOUS
    <3>2. timers_ = {<<expiration_[a], a>> : a \in H}
      BY Zenon, <1>0 DEF Placed
    <3> QED
      BY Zenon, <2>0, <2>d, <3>1, <3>2 DEF Due
  <2>2. timers_' = {<<expiration_[a], a>> : a \in K}
    <3>1. timers_ = {<<expiration_[a], a>> : a \in H}
      BY Zenon, <1>0 DEF Placed
    <3>2. {<<expiration_[a], a>> : a \in K}
            = {<<expiration_[a], a>> : a \in H} \ {<<expiration_[a], a>> : a \in D}
      BY ONLY ImageDrop DEF K
    <3> QED
      BY ZenonT(40), <2>0, <2>1, <3>1, <3>2
  <2>3. active_timers_' = {<<a, sequence_[a]>> : a \in K}
    <3>1. {Id(e[2]) : e \in expired'} = {<<a, sequence_[a]>> : a \in D}
      <4>1. \A a : <<expiration_[a], a>>[2] = a
        OBVIOUS
      <4>2. \A e \in expired' : e[2] \in D
        BY <2>1, <4>1
      <4>3. \A a \in D : \E e \in expired' : e[2] = a
        BY Zenon, <2>1, <4>1
      <4> QED
        BY <4>2, <4>3 DEF Id
    <3>2. active_timers_ = {<<a, sequence_[a]>> : a \in H}
      BY Zenon, <1>0 DEF Placed
    <3>3. {<<a, sequence_[a]>> : a \in K}
            = {<<a, sequence_[a]>> : a \in H} \ {<<a, sequence_[a]>> : a \in D}
      BY ONLY ImageDrop DEF K
    <3>4. active_timers_' = active_timers_ \ {Id(e[2]) : e \in expired'}
      BY <2>0
    <3> QED
      BY ONLY <3>1, <3>2, <3>3, <3>4
  <2>4. /\ K \in SUBSET Addrs /\ D \in SUBSET Addrs /\ H = K \cup D /\ K \cap D = {}
        /\ K \subseteq H /\ D \subseteq H
    BY ZenonT(40), <2>d
  <2> HIDE DEF K
  <2>5. Placed(K, Q, D)'
    <3>1. allocated' = K \cup Q \cup D /\ K \cap Q = {} /\ Q \cap D = {}
      BY Zenon, <1>0, <2>0, <2>4 DEF Placed
    <3>2. Adds(pending) = {<<a, sequence_[a]>> : a \in Q} /\ Distinct(pending) /\ (gone => allocated = {})
      BY Zenon, <1>0 DEF Placed
    <3>3. Adds(pending)' = {<<a, sequence_'[a]>> : a \in Q} /\ Distinct(pending)'
      BY Zenon, <2>0, <3>2 DEF Adds, Distinct
    <3>4. /\ active_timers_' = {<<a, sequence_'[a]>> : a \in K} /\ timers_' = {<<expiration_'[a], a>> : a \in K}
          /\ expired' = {<<expiration_'[a], a>> : a \in D} /\ calling_expired_timers_' /\ (gone' => allocated' = {})
      BY ZenonT(40), <2>0, <2>1, <2>2, <2>3, <3>2
    <3> QED
      BY <2>4, <3>1, <3>3, <3>4 DEF Placed
  <2>6. Ended(K, Q, D)'
    BY <1>0, <2>0, <2>4 DEF Ended
  <2> QED
    BY <2>4, <2>5, <2>6 DEF Places
<1>2. ASSUME NEW e \in todo, RunTimer(e) PROVE Places'
  <2> DEFINE a == e[2]
  <2>0. a \in B /\ e = <<expiration_[a], a>>
    BY <1>e DEF Types
  <2>1. /\ todo' = todo \ {e} /\ fired' = IF interval_[a] = 0 THEN fired \cup {<<a, sequence_[a]>>} ELSE fired
        /\ UNCHANGED <<heapvars, timers_, active_timers_, canceling_timers_, pending, cancelled, expired, calling_expired_timers_>>
    BY Zenon, <1>2 DEF RunTimer, Id
  <2> HIDE DEF a
  <2>2. Placed(H, Q, B)'
    BY ZenonT(40), <1>0, <2>1 DEF Placed
  <2>3. Ended(H, Q, B)'
    <3>1. \A b \in H \cup Q : <<b, sequence_[b]>> # <<a, sequence_[a]>>
      BY Zenon, <1>0, <2>0 DEF Placed
    <3>2. <<a, sequence_[a]>>[2] < s_numCreated_
      BY Zenon, <1>0, <2>0 DEF Ended
    <3>3. \A b \in B : <<b, sequence_[b]>> = <<a, sequence_[a]>> =>
            b = a /\ <<expiration_[b], b>> \notin todo'
      BY Zenon, <2>0, <2>1
    <3>4. \A b \in B : <<b, sequence_[b]>> \in fired' =>
            interval_[b] = 0 /\ <<expiration_[b], b>> \notin todo'
      BY Zenon, <1>0, <2>1, <3>3 DEF Ended
    <3>5. \A b \in H \cup Q : <<b, sequence_[b]>> \notin cancelled \cup fired'
      BY Zenon, <1>0, <2>1, <3>1 DEF Ended
    <3>6. \A id \in cancelled \cup fired' : id[2] < s_numCreated_
      BY <1>0, <2>1, <3>2 DEF Ended
    <3> QED
      BY <1>0, <2>1, <3>4, <3>5, <3>6 DEF Ended
  <2> QED
    BY <2>2, <2>3 DEF Places
<1>3. ASSUME Reset PROVE Places'
  <2>a. PICK again \in SUBSET Addrs : again = {e[2] : e \in Restarted}
    <3>1. {e[2] : e \in Restarted} \in SUBSET Addrs
      BY <1>e DEF Restarted
    <3> QED
      BY Zenon, <3>1
  <2> DEFINE G == H \cup again
  <2>0. /\ ~calling_expired_timers_' /\ expired' = {}
        /\ expiration_' = [a \in Addrs |-> IF a \in again THEN Restart(a) ELSE expiration_[a]]
        /\ timers_' = timers_ \cup {<<Restart(a), a>> : a \in again}
        /\ active_timers_' = active_timers_ \cup {Id(a) : a \in again}
        /\ allocated' = allocated \ {e[2] : e \in expired \ Restarted}
        /\ UNCHANGED <<cancelled, interval_, sequence_, s_numCreated_, canceling_timers_, pending, fired>>
    BY Zenon, <1>3, <2>a DEF Reset
  <2>1. \A a : a \in again <=> a \in B /\ interval_[a] > 0 /\ <<a, sequence_[a]>> \notin canceling_timers_
    BY ZenonT(40), <1>e, <2>a DEF Restarted, Id
  <2>2. {e[2] : e \in expired \ Restarted} = B \ again
    BY <1>e, <2>a DEF Restarted
  <2>3. again \subseteq B /\ again \cap H = {} /\ again \cap Q = {}
    BY Zenon, <1>0, <2>1 DEF Placed
  <2>4. /\ \A a \in H : expiration_'[a] = expiration_[a]
        /\ \A a \in again : expiration_'[a] = Restart(a)
    BY Zenon, <2>0, <2>3
  <2>5. timers_' = {<<expiration_'[a], a>> : a \in G}
    <3>1. timers_ = {<<expiration_[a], a>> : a \in H}
      BY <1>0 DEF Placed
    <3> QED
      BY Zenon, <2>0, <2>4, <3>1
  <2>6. active_timers_' = {<<a, sequence_[a]>> : a \in G}
    <3>1. active_timers_ = {<<a, sequence_[a]>> : a \in H}
      BY <1>0 DEF Placed
    <3> QED
      BY Zenon, <2>0, <3>1 DEF Id
  <2>7. G \in SUBSET Addrs /\ G \cap Q = {} /\ allocated' = G \cup Q \cup {} /\ (gone => allocated' = {})
    BY <1>0, <2>0, <2>2, <2>3 DEF Placed
  <2>8. \A a \in G : a \in H \/ a \in again
    BY Zenon
  <2> HIDE DEF G
  <2>9. Placed(G, Q, {})'
    <3>1. Q \subseteq Addrs /\ Adds(pending) = {<<a, sequence_[a]>> : a \in Q} /\ Distinct(pending)
      BY Zenon, <1>0 DEF Placed
    <3>2. Adds(pending)' = {<<a, sequence_'[a]>> : a \in Q} /\ Distinct(pending)'
      BY ZenonT(40), <2>0, <3>1 DEF Adds, Distinct
    <3>3. /\ active_timers_' = {<<a, sequence_'[a]>> : a \in G} /\ ~calling_expired_timers_'
          /\ expired' = {<<expiration_'[a], a>> : a \in {}} /\ (gone' => allocated' = {})
      BY <2>0, <2>6, <2>7
    <3> QED
      BY Zenon, <2>5, <2>7, <3>1, <3>2, <3>3 DEF Placed
  <2>10. Ended(G, Q, {})'
    <3>1. \A a \in again : <<a, sequence_[a]>> \notin cancelled \cup fired /\ sequence_[a] < s_numCreated_
      <4>1. \A a \in again : a \in B /\ interval_[a] # 0 /\ <<a, sequence_[a]>> \notin canceling_timers_
        BY <2>1, SMTT(60)
      <4> QED
        BY Zenon, <1>0, <4>1 DEF Ended
    <3> QED
      BY Zenon, <1>0, <2>0, <2>8, <3>1 DEF Ended
  <2>11. {} \in SUBSET Addrs
    OBVIOUS
  <2> QED
    BY <2>7, <2>9, <2>10, <2>11 DEF Places
<1> QED
  BY <1>1, <1>2, <1>3

(***************************************************************************)
(* The loop runs a queued addition: the timer moves from the queue to the  *)
(* sets.                                                                   *)
(***************************************************************************)
LEMMA QueuedAddKeepsPlaces ==
  ASSUME NEW H \in SUBSET Addrs, NEW Q \in SUBSET Addrs, NEW B \in SUBSET Addrs,
         Placed(H, Q, B), Ended(H, Q, B), ~gone, NEW a \in Q,
         timers_' = timers_ \cup {<<expiration_[a], a>>},
         active_timers_' = active_timers_ \cup {<<a, sequence_[a]>>},
         Adds(pending') = Adds(pending) \ {<<a, sequence_[a]>>}, Distinct(pending'),
         UNCHANGED <<gone, allocated, cancelled, fired, expiration_, interval_, sequence_, s_numCreated_>>,
         UNCHANGED <<canceling_timers_, expired, todo, calling_expired_timers_>>
  PROVE  Places'
<1> DEFINE H1 == H \cup {a}
           Q1 == Q \ {a}
<1>1. /\ active_timers_' = {<<b, sequence_[b]>> : b \in H1}
      /\ timers_' = {<<expiration_[b], b>> : b \in H1}
      /\ Adds(pending') = {<<b, sequence_[b]>> : b \in Q1}
  <2>1. /\ active_timers_ = {<<b, sequence_[b]>> : b \in H}
        /\ timers_ = {<<expiration_[b], b>> : b \in H}
        /\ Adds(pending) = {<<b, sequence_[b]>> : b \in Q}
    BY Zenon DEF Placed
  <2>2. {<<b, sequence_[b]>> : b \in H1} = {<<b, sequence_[b]>> : b \in H} \cup {<<a, sequence_[a]>>}
    BY ONLY ImageJoin DEF H1
  <2>3. {<<expiration_[b], b>> : b \in H1} = {<<expiration_[b], b>> : b \in H} \cup {<<expiration_[a], a>>}
    BY ONLY ImageJoin DEF H1
  <2>4. {<<b, sequence_[b]>> : b \in Q1} = {<<b, sequence_[b]>> : b \in Q} \ {<<a, sequence_[a]>>}
    BY ONLY ImageDrop DEF Q1
  <2> HIDE DEF H1, Q1
  <2> QED
    BY Zenon, <2>1, <2>2, <2>3, <2>4
<1>2. /\ H1 \in SUBSET Addrs /\ Q1 \in SUBSET Addrs
      /\ H1 \cap Q1 = {} /\ H1 \cap B = {} /\ Q1 \cap B = {}
      /\ allocated = H1 \cup Q1 \cup B /\ H1 \cup Q1 = H \cup Q
  BY Zenon DEF Placed
<1> HIDE DEF H1, Q1
<1>3. Placed(H1, Q1, B)'
  <2>0. sequence_' = sequence_ /\ expiration_' = expiration_
    BY Zenon
  <2>1. /\ active_timers_' = {<<b, sequence_'[b]>> : b \in H1}
        /\ timers_' = {<<expiration_'[b], b>> : b \in H1}
    BY ONLY Zenon, <1>1, <2>0
  <2>a. Adds(pending)' = {<<b, sequence_'[b]>> : b \in Q1}
    BY Zenon, <1>1 DEF Adds
  <2>b. Distinct(pending)'
    BY Zenon DEF Distinct
  <2>2. expired' = {<<expiration_'[b], b>> : b \in B} /\ (~calling_expired_timers_' => B = {})
    BY ZenonT(40) DEF Placed
  <2> QED
    BY Zenon, <1>2, <2>1, <2>a, <2>b, <2>2 DEF Placed
<1>4. Ended(H1, Q1, B)'
  BY <1>2 DEF Ended
<1> QED
  BY Zenon, <1>2, <1>3, <1>4 DEF Places

(***************************************************************************)
(* Places holds in every state.                                            *)
(***************************************************************************)
LEMMA PlacesHold == Spec => []Places
<1> USE DEF heapvars, setvars, readvars, uservars
<1>1. Init => Places
  <2> SUFFICES ASSUME Init PROVE Places
    OBVIOUS
  <2>0. pending = <<>> /\ DOMAIN <<>> = {}
    BY DEF Init
  <2>1. Adds(pending) = {} /\ Distinct(pending)
    BY ONLY Zenon, <2>0 DEF Adds, Distinct
  <2>2. Placed({}, {}, {}) /\ Ended({}, {}, {})
    BY Zenon, <2>1 DEF Init, Placed, Ended
  <2>3. {} \in SUBSET Addrs
    OBVIOUS
  <2> QED
    BY Zenon, <2>2, <2>3 DEF Places
<1>2. Types /\ Places /\ [Next]_vars => Places'
  <2> SUFFICES ASSUME Types, Places, [Next]_vars PROVE Places'
    OBVIOUS
  <2>0. PICK H, Q, B \in SUBSET Addrs : Placed(H, Q, B) /\ Ended(H, Q, B)
    BY Zenon DEF Places
  <2>q. pending \in Seq(Calls) /\ Distinct(pending)
    BY <2>0 DEF Types, Placed
  \* The timers are as they were, and so are the queued additions.
  <2>s. ASSUME UNCHANGED <<gone, cancelled, fired, heapvars, setvars>>,
               UNCHANGED <<expired, todo, calling_expired_timers_>>,
               Adds(pending') = Adds(pending), Distinct(pending')
        PROVE  Places'
    <3>1. Placed(H, Q, B)' /\ Ended(H, Q, B)'
      BY Zenon, <2>0, <2>s DEF Placed, Ended
    <3> QED
      BY <3>1 DEF Places
  <2>1. CASE Destroy
    <3>1. Placed({}, {}, {})'
      <4>1. B = {} /\ pending' = <<>> /\ pending = <<>>
        BY Zenon, <2>0, <2>1 DEF Destroy, Placed
      <4>2. Adds(<<>>) = {} /\ Distinct(<<>>)
        BY DEF Adds, Distinct
      <4>3. Q = {}
        BY Zenon, <2>0, <4>1, <4>2 DEF Placed
      <4>4. {e[2] : e \in timers_} = H
        <5>1. \A a : <<expiration_[a], a>>[2] = a
          OBVIOUS
        <5>2. timers_ = {<<expiration_[a], a>> : a \in H}
          BY Zenon, <2>0 DEF Placed
        <5> QED
          BY ZenonT(40), <5>1, <5>2
      <4>5. allocated' = {} /\ timers_' = {} /\ active_timers_' = {} /\ expired' = {}
        BY Zenon, <2>0, <2>1, <4>1, <4>3, <4>4 DEF Destroy, Placed
      <4> QED
        BY Zenon, <4>1, <4>2, <4>5 DEF Placed
    <3>2. Ended({}, {}, {})'
      BY Zenon, <2>0, <2>1 DEF Destroy, Ended
    <3>3. {} \in SUBSET Addrs
      BY Zenon
    <3> QED
      BY Zenon, <3>1, <3>2, <3>3 DEF Places
  <2>2. CASE UNCHANGED vars
    BY Zenon, <2>2, <2>q, <2>s DEF vars
  <2>3. ASSUME ~gone, Step, UNCHANGED gone PROVE Places'
    <3> USE <2>3
    <3>1. CASE Tick
      BY Zenon, <3>1, <2>q, <2>s DEF Tick
    <3>2. CASE RunPending
      <4>1. /\ Head(pending).id \in Ids /\ Head(pending).add \in BOOLEAN /\ Distinct(pending')
            /\ Head(pending).add => /\ Head(pending).id \in Adds(pending)
                                    /\ Adds(pending') = Adds(pending) \ {Head(pending).id}
            /\ ~Head(pending).add => Adds(pending') = Adds(pending)
        BY Zenon, <3>2, <2>q, CallFacts, AddsFacts DEF RunPending
      <4>2. CASE ~Head(pending).add
        <5>1. CancelInLoop(Head(pending).id)
          BY Zenon, <3>2, <4>2 DEF RunPending
        <5> QED
          BY Zenon, <3>2, <4>1, <4>2, <5>1, CancelKeepsPlaces DEF RunPending
      <4>3. CASE Head(pending).add
        <5>1. PICK a \in Q : Head(pending).id = <<a, sequence_[a]>>
          BY Zenon, <2>0, <4>1, <4>3 DEF Placed
        <5>2. Head(pending).id[1] = a /\ Head(pending).id[2] = sequence_[a]
          BY ONLY <5>1
        <5>3. AddTimerInLoop(a, sequence_[a], expiration_[a]) /\ UNCHANGED <<allocated, cancelled>>
          BY Zenon, <3>2, <4>3, <5>2 DEF RunPending
        <5>4. /\ timers_' = timers_ \cup {<<expiration_[a], a>>}
              /\ active_timers_' = active_timers_ \cup {<<a, sequence_[a]>>}
              /\ Adds(pending') = Adds(pending) \ {<<a, sequence_[a]>>}
              /\ UNCHANGED <<gone, allocated, cancelled, fired, expiration_, interval_, sequence_, s_numCreated_>>
              /\ UNCHANGED <<canceling_timers_, expired, todo, calling_expired_timers_>>
          BY Zenon, <3>2, <4>1, <4>3, <5>1, <5>3 DEF RunPending, AddTimerInLoop
        <5> QED
          BY Zenon, <2>0, <2>3, <4>1, <5>1, <5>4, QueuedAddKeepsPlaces
      <4> QED
        BY Zenon, <4>1, <4>2, <4>3
    <3>3. CASE HandleRead
      BY Zenon, <3>3, BatchKeepsPlaces
    <3>4. CASE TimerReturn
      BY <3>4, <2>q, <2>s DEF TimerReturn
    <3>5. CASE Reset
      BY <3>5, BatchKeepsPlaces
    <3>6. ASSUME NEW e \in todo, RunTimer(e) PROVE Places'
      BY Zenon, <3>6, BatchKeepsPlaces
    <3>7. ASSUME NEW id \in known, Cancel(id) PROVE Places'
      <4>1. id \in Ids
        BY DEF Types
      <4> QED
        BY <3>7, <4>1, CancelKeepsPlaces DEF Cancel
    <3>8. ASSUME NEW id \in known, NEW t \in Others, CancelFrom(t, id) PROVE Places'
      <4>1. id \in Ids
        BY DEF Types
      <4>2. Adds(pending') = Adds(pending) /\ Distinct(pending')
        BY ZenonT(40), <3>8, <4>1, <2>q, AddsFacts DEF CancelFrom
      <4>3. /\ UNCHANGED <<cancelled, fired, heapvars, setvars>>
            /\ UNCHANGED <<expired, todo, calling_expired_timers_>>
        BY <3>8 DEF CancelFrom
      <4> QED
        BY <4>2, <4>3, <2>s
    <3>9. ASSUME NEW a \in Addrs, NEW when \in Whens, NEW iv \in Intervals,
                 AddTimer(a, when, iv) \/ \E t \in Others : AddTimerFrom(t, a, when, iv)
          PROVE  Places'
      BY Zenon, <3>9, AddKeepsPlaces
    <3>10. ASSUME NEW t \in Others, AddTimerReturn(t) PROVE Places'
      BY <3>10, <2>q, <2>s DEF AddTimerReturn
    <3>11. CASE Poll
      BY Zenon, <3>11, <2>q, <2>s DEF Poll
    <3> QED
      BY Zenon, <2>3, <3>1, <3>2, <3>3, <3>4, <3>5, <3>6, <3>7, <3>8, <3>9, <3>10, <3>11 DEF Step
  <2> QED
    BY <2>1, <2>2, <2>3 DEF Next
<1> QED
  BY <1>1, <1>2, TypesHold, PTL DEF Spec

-----------------------------------------------------------------------------
(***************************************************************************)
(* The two sets hold the same timers: the assertions on their sizes hold.  *)
(***************************************************************************)
THEOREM SetsStayEqual == Spec => []SetsAgree
<1>1. Places => SetsAgree
  <2> SUFFICES ASSUME Places PROVE SetsAgree
    OBVIOUS
  <2>1. PICK H, Q, B \in SUBSET Addrs : Placed(H, Q, B)
    BY DEF Places
  <2>2. \A a : <<a, sequence_[a]>>[1] = a
    BY ZenonT(40)
  <2>3. active_timers_ = {<<a, sequence_[a]>> : a \in H} /\ timers_ = {<<expiration_[a], a>> : a \in H}
    BY <2>1 DEF Placed
  <2>4. \A id \in active_timers_ : id[1] \in H /\ id = <<id[1], sequence_[id[1]]>>
    BY <2>2, <2>3
  <2>5. \A a \in H : \E id \in active_timers_ : id[1] = a
    BY Zenon, <2>2, <2>3
  <2>6. timers_ = {<<expiration_[id[1]], id[1]>> : id \in active_timers_}
    <3> DEFINE f(a) == <<expiration_[a], a>>
    <3> HIDE DEF f
    <3>1. {f(a) : a \in H} = {f(id[1]) : id \in active_timers_}
      BY <2>4, <2>5
    <3> QED
      BY <2>3, <3>1 DEF f
  <2> QED
    BY <2>4, <2>6 DEF SetsAgree, Id
<1> QED
  BY <1>1, PlacesHold, PTL

(***************************************************************************)
(* Every Timer object has one owner, and is deleted once.                  *)
(***************************************************************************)
THEOREM TimersOwned == Spec => []Ownership
<1>1. Places => Ownership
  <2> SUFFICES ASSUME Places PROVE Ownership
    OBVIOUS
  <2>1. PICK H, Q, B \in SUBSET Addrs : Placed(H, Q, B)
    BY DEF Places
  <2>2. /\ timers_ = {<<expiration_[a], a>> : a \in H} /\ expired = {<<expiration_[a], a>> : a \in B}
        /\ Adds(pending) = {<<a, sequence_[a]>> : a \in Q}
    BY Zenon, <2>1 DEF Placed
  <2>3. {e[2] : e \in timers_} = H /\ {e[2] : e \in expired} = B /\ {id[1] : id \in Adds(pending)} = Q
    <3>0. \A a : <<expiration_[a], a>>[2] = a /\ <<a, sequence_[a]>>[1] = a
      BY Zenon
    <3>1. (\A e \in timers_ : e[2] \in H) /\ \A a \in H : \E e \in timers_ : e[2] = a
      BY Zenon, <2>2, <3>0
    <3>2. (\A e \in expired : e[2] \in B) /\ \A a \in B : \E e \in expired : e[2] = a
      BY Zenon, <2>2, <3>0
    <3>3. (\A id \in Adds(pending) : id[1] \in Q) /\ \A a \in Q : \E id \in Adds(pending) : id[1] = a
      BY Zenon, <2>2, <3>0
    <3>4. {e[2] : e \in timers_} = H
      BY ONLY Zenon, <3>1
    <3>5. {e[2] : e \in expired} = B
      BY ONLY Zenon, <3>2
    <3>6. {id[1] : id \in Adds(pending)} = Q
      BY ONLY Zenon, <3>3
    <3> QED
      BY ONLY <3>4, <3>5, <3>6
  <2>6. {pending[i].id[1] : i \in {j \in DOMAIN pending : pending[j].add}} = {id[1] : id \in Adds(pending)}
    BY DEF Adds
  <2> QED
    BY Zenon, <2>1, <2>3, <2>6 DEF Ownership, Placed
<1> QED
  BY <1>1, PlacesHold, PTL

(***************************************************************************)
(* A timer that was cancelled in the loop, in whatever callback, never     *)
(* comes back, and its callback is called again only if the batch being    *)
(* run holds it already.  A one-shot timer that has run never comes back.  *)
(***************************************************************************)
THEOREM CancelledStayAway == Spec => []CancelSticks
<1>1. Types /\ Places => CancelSticks
  <2> SUFFICES ASSUME Types, Places PROVE CancelSticks
    OBVIOUS
  <2>1. PICK H, Q, B \in SUBSET Addrs : Placed(H, Q, B) /\ Ended(H, Q, B)
    BY Zenon DEF Places
  <2>2. (cancelled \cup fired) \cap active_timers_ = {}
    BY <2>1 DEF Placed, Ended
  <2>3. ASSUME NEW e \in todo
        PROVE  Id(e[2]) \notin fired /\ (Id(e[2]) \in cancelled => Id(e[2]) \in canceling_timers_)
    <3>1. PICK a \in B : e = <<expiration_[a], a>>
      BY ZenonT(40), <2>1 DEF Placed, Types
    <3>2. e[2] = a
      BY <3>1
    <3> QED
      BY <2>1, <2>3, <3>1, <3>2 DEF Ended, Id
  <2> QED
    BY <2>2, <2>3 DEF CancelSticks
<1> QED
  BY <1>1, PlacesHold, TypesHold, PTL
=============================================================================
