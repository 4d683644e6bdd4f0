---------------------------- MODULE EpollerProofs ----------------------------
(***************************************************************************)
(* Proofs about Epoller.tla, for every set of channels, any number of      *)
(* descriptors and any initial size of the arrays.                         *)
(***************************************************************************)
EXTENDS Epoller, SequenceTheorems, FiniteSetTheorems, WellFoundedInduction, TLAPS

Owned == alive \ retired
Entries == Chans \cup {NULL}
Statuses == {"kNew", "kAdded", "kDel"}

Types ==
  /\ alive \in SUBSET Chans /\ retired \in SUBSET Chans
  /\ fd_ \in [Chans -> Fds] /\ events_ \in [Chans -> SUBSET Interests]
  /\ status_ \in [Chans -> Statuses]
  /\ channels_ \in [Fds -> Entries] /\ channel_nums_ \in Int /\ cur_max_fd_ \in 0..MaxFd
  /\ registered \in [Fds -> Entries] /\ mask \in [Fds -> SUBSET Interests]
  /\ event_size \in Nat \ {0} /\ active_channels_ \in [1..event_size -> Entries]
  /\ phase \in {"tasks", "dispatch"} /\ cursor \in Nat \ {0} /\ handling \in Entries

-----------------------------------------------------------------------------
(***************************************************************************)
(* A function on 1..n is a sequence of length n (the arrays).              *)
(***************************************************************************)
LEMMA LengthOfArray ==
  ASSUME NEW n \in Nat, NEW D, NEW s \in [1..n -> D]
  PROVE  s \in Seq(D) /\ Len(s) = n
<1>1. s \in Seq(D)
  BY SeqDef
<1>2. Len(s) \in Nat /\ 1..Len(s) = 1..n
  BY <1>1, LenProperties
<1> QED
  BY <1>1, <1>2

(***************************************************************************)
(* A non-empty set of naturals has a least element.                        *)
(***************************************************************************)
LEMMA LeastElement ==
  ASSUME NEW T, T \subseteq Nat, T # {}
  PROVE  \E x \in T : \A y \in T : x <= y
<1> DEFINE R == OpToRel(<, Nat)
<1>1. PICK x \in T : \A y \in T : ~ (<<y, x>> \in R)
  <2>1. IsWellFoundedOn(R, Nat)
    BY NatLessThanWellFounded
  <2> HIDE DEF R
  <2> QED
    BY <2>1, WFMin
<1>2. ASSUME NEW y \in T PROVE ~ (y < x)
  BY <1>1 DEF OpToRel
<1> QED
  BY <1>2

(***************************************************************************)
(* The loop of DelChannelListItem() stops at the next used descriptor, or  *)
(* at zero.                                                                *)
(***************************************************************************)
LEMMA NextBelowIsMax ==
  ASSUME NEW f \in Nat \ {0}, NEW table
  PROVE  LET i == NextBelow(f, table)
         IN  /\ i \in 0..(f - 1) /\ (i = 0 \/ table[i] # NULL)
             /\ \A j \in 1..(f - 1) : table[j] # NULL => j <= i
<1> DEFINE T == {n \in 0..(f - 1) : f - 1 - n = 0 \/ table[f - 1 - n] # NULL}
<1>1. T \subseteq Nat /\ f - 1 \in T
  OBVIOUS
<1>2. PICK m \in T : \A n \in T : m <= n
  BY <1>1, LeastElement
<1>3. /\ f - 1 - m \in 0..(f - 1)
      /\ f - 1 - m = 0 \/ table[f - 1 - m] # NULL
  BY <1>2
<1>4. ASSUME NEW j \in 1..(f - 1), table[j] # NULL PROVE j <= f - 1 - m
  <2>1. f - 1 - j \in 0..(f - 1) /\ f - 1 - (f - 1 - j) = j
    OBVIOUS
  <2>2. f - 1 - j \in T
    BY <1>4, <2>1
  <2> QED
    BY <1>2, <2>2
<1>5. \E i \in 0..(f - 1) :
        /\ i = 0 \/ table[i] # NULL
        /\ \A j \in 1..(f - 1) : table[j] # NULL => j <= i
  BY <1>3, <1>4
<1> QED
  BY <1>5 DEF NextBelow

(***************************************************************************)
(* What Poll() is given: some registered channels, none of them twice.     *)
(***************************************************************************)
LEMMA ReportFacts ==
  ASSUME Types, NEW list \in Reports
  PROVE  /\ Len(list) \in Nat
         /\ \A i \in 1..Len(list) :
              /\ list[i] \in Chans
              /\ \E f \in Fds : registered[f] = list[i]
              /\ \A j \in 1..Len(list) : list[i] = list[j] => i = j
<1>1. Watched \subseteq Chans /\ \A c \in Watched : \E f \in Fds : registered[f] = c
  BY DEF Watched, Types, Entries
<1>2. Cardinality(Watched) \in Nat
  BY <1>1, ChanAssumption, FS_Subset, FS_CardinalityType
<1>3. PICK n \in 0..Cardinality(Watched) :
        list \in [1..n -> Watched] /\ \A i, j \in 1..n : list[i] = list[j] => i = j
  BY DEF Reports
<1>4. n \in Nat
  BY <1>2
<1>5. Len(list) = n
  BY <1>3, <1>4, LengthOfArray
<1> QED
  BY <1>1, <1>3, <1>4, <1>5

-----------------------------------------------------------------------------
(***************************************************************************)
(* The constructors establish the types, and every call keeps them.        *)
(***************************************************************************)
LEMMA TypesHold == Spec => []Types
<1> USE DEF Entries, Statuses
<1>f. MaxFd \in Nat \ {0} /\ 1 \in Fds /\ \A f \in Fds : f \in 0..MaxFd /\ f \in Nat \ {0} /\ f - 1 < MaxFd
  BY SizeAssumption DEF Fds
<1>1. Init => Types
  BY <1>f, SizeAssumption DEF Init, Types
<1>2. Types /\ [Next]_vars => Types'
  <2> SUFFICES ASSUME Types, [Next]_vars PROVE Types'
    OBVIOUS
  <2>k. ASSUME NEW c \in Chans, NEW ev \in SUBSET Interests, CtlAdd(c, ev) \/ CtlMod(c, ev) \/ CtlDel(c)
        PROVE  registered' \in [Fds -> Entries] /\ mask' \in [Fds -> SUBSET Interests]
    BY <2>k, SMTT(30) DEF CtlAdd, CtlMod, CtlDel, Types
  <2>n. ASSUME NEW c \in Chans, UNCHANGED <<tablevars>> \/ AddChannelListItem(c) \/ DelChannelListItem(c)
        PROVE  channels_' \in [Fds -> Entries] /\ channel_nums_' \in Int /\ cur_max_fd_' \in 0..MaxFd
    <3>1. fd_[c] \in Fds
      BY DEF Types
    <3>2. CASE UNCHANGED <<tablevars>>
      BY <3>2 DEF tablevars, Types
    <3>3. CASE AddChannelListItem(c)
      BY <1>f, <3>1, <3>3 DEF AddChannelListItem, Types
    <3>4. CASE DelChannelListItem(c)
      <4>1. NextBelow(fd_[c], channels_') \in 0..MaxFd
        <5>1. NextBelow(fd_[c], channels_') \in 0..(fd_[c] - 1)
          BY <1>f, <3>1, NextBelowIsMax
        <5> QED
          BY <1>f, <3>1, <5>1
      <4> QED
        BY <3>1, <3>4, <4>1 DEF DelChannelListItem, Types
    <3> QED
      BY <2>n, <3>2, <3>3, <3>4
  <2>1. ASSUME NEW c \in Chans, NEW f \in Fds, NewChannel(c, f) PROVE Types'
    BY <2>1 DEF NewChannel, Types, tablevars, kernvars, pollvars
  <2>2. ASSUME NEW c \in Chans, DestroyChannel(c) PROVE Types'
    BY <1>f, <2>2 DEF DestroyChannel, Free, Types, tablevars, kernvars, pollvars
  <2>3. ASSUME NEW c \in Chans, RemoveChannel(c) PROVE Types'
    <3>1. status_' \in [Chans -> Statuses] /\ UNCHANGED <<alive, retired, fd_, events_, pollvars>>
      BY <2>3 DEF RemoveChannel, Types
    <3>2. channels_' \in [Fds -> Entries] /\ channel_nums_' \in Int /\ cur_max_fd_' \in 0..MaxFd
      BY <2>3, <2>n DEF RemoveChannel
    <3>3. registered' \in [Fds -> Entries] /\ mask' \in [Fds -> SUBSET Interests]
      <4>1. CtlDel(c) \/ UNCHANGED kernvars
        BY <2>3 DEF RemoveChannel, RemoveAdded, RemoveDel
      <4>2. {} \in SUBSET Interests
        OBVIOUS
      <4>3. CASE CtlDel(c)
        BY <2>k, <4>2, <4>3
      <4>4. CASE UNCHANGED kernvars
        BY <4>4 DEF kernvars, Types
      <4> QED
        BY <4>1, <4>3, <4>4
    <3> QED
      BY <3>1, <3>2, <3>3 DEF Types, pollvars
  <2>4. ASSUME NEW c \in Chans, NEW ev \in Changes(events_[c]), UpdateChannel(c, ev) PROVE Types'
    <3>0. ev \in SUBSET Interests
      BY DEF Changes, Interests, Types
    <3>1. /\ status_' \in [Chans -> Statuses] /\ events_' \in [Chans -> SUBSET Interests]
          /\ UNCHANGED <<alive, retired, fd_, pollvars>>
      BY <2>4, <3>0 DEF UpdateChannel, UpdateNew, UpdateAdded, UpdateDel, Types
    <3>2. channels_' \in [Fds -> Entries] /\ channel_nums_' \in Int /\ cur_max_fd_' \in 0..MaxFd
      BY <2>4, <2>n DEF UpdateChannel, UpdateNew, UpdateAdded, UpdateDel
    <3>3. registered' \in [Fds -> Entries] /\ mask' \in [Fds -> SUBSET Interests]
      BY <2>4, <2>k, <3>0 DEF UpdateChannel, UpdateNew, UpdateAdded, UpdateDel, Types, kernvars
    <3> QED
      BY <3>1, <3>2, <3>3 DEF Types, pollvars
  <2>5. ASSUME NEW list \in Reports, Poll(list) PROVE Types'
    <3>1. event_size' \in Nat \ {0}
      BY <2>5 DEF Poll, Sizes, Types
    <3>2. active_channels_' \in [1..event_size' -> Entries]
      <4> DEFINE array == IF event_size' # event_size
                          THEN [i \in 1..event_size' |-> NULL] ELSE active_channels_
      <4>1. array \in [1..event_size' -> Entries]
        BY DEF Types
      <4>2. active_channels_' = FillActiveChannel(list, array)
        BY <2>5 DEF Poll
      <4> HIDE DEF array
      <4> QED
        BY <4>1, <4>2, ReportFacts DEF FillActiveChannel
    <3>3. /\ phase' = "dispatch" /\ cursor' = 1
          /\ UNCHANGED <<handling, chanvars, tablevars, kernvars>>
      BY <2>5 DEF Poll
    <3> QED
      BY <3>1, <3>2, <3>3 DEF Types, chanvars, tablevars, kernvars
  <2>6. CASE HandleEvent
    <3>1. handling' \in Entries
      <4>1. Len(active_channels_) = event_size
        BY LengthOfArray DEF Types
      <4> QED
        BY <2>6, <4>1 DEF HandleEvent, Current, Types
    <3> QED
      BY <2>6, <3>1 DEF HandleEvent, Types, chanvars, tablevars, kernvars
  <2>7. CASE HandleEventReturn
    <3>1. handling \in Chans /\ handling' = NULL /\ cursor' = cursor + 1
          /\ UNCHANGED <<event_size, active_channels_, phase, tablevars, kernvars>>
      BY <2>7 DEF HandleEventReturn, Types
    <3>2. /\ alive' \in SUBSET Chans /\ retired' \in SUBSET Chans /\ fd_' \in [Chans -> Fds]
          /\ events_' \in [Chans -> SUBSET Interests] /\ status_' \in [Chans -> Statuses]
      BY <1>f, <2>7, <3>1 DEF HandleEventReturn, Free, Types, chanvars
    <3> QED
      BY <3>1, <3>2 DEF Types, tablevars, kernvars
  <2>8. CASE DispatchDone
    BY <2>8 DEF DispatchDone, Types, chanvars, tablevars, kernvars
  <2>9. CASE UNCHANGED vars
    BY <2>9 DEF vars, Types, chanvars, tablevars, kernvars, pollvars
  <2> QED
    BY <2>1, <2>2, <2>3, <2>4, <2>5, <2>6, <2>7, <2>8, <2>9 DEF Next
<1> QED
  BY <1>1, <1>2, PTL DEF Spec
-----------------------------------------------------------------------------
(* Channels, the table and the kernel *)

\* AssertsHold, read also from the side of the table and of the kernel.  Only
\* channels that are not Owned share a descriptor, and they are kNew.
Agree ==
  /\ retired \subseteq alive
  /\ \A c \in Chans : c \notin Owned => status_[c] = "kNew"
  /\ \A c, d \in Owned : fd_[c] = fd_[d] => c = d
  /\ AssertsHold
  /\ \A f \in Fds : registered[f] # NULL =>
       /\ registered[f] \in Owned /\ fd_[registered[f]] = f
       /\ status_[registered[f]] = "kAdded" /\ mask[f] = events_[registered[f]]
  /\ \A f \in Fds : channels_[f] # NULL =>
       channels_[f] \in Owned /\ fd_[channels_[f]] = f /\ status_[channels_[f]] # "kNew"

\* The table itself.
Used == {f \in Fds : channels_[f] # NULL}
Counted ==
  /\ channel_nums_ = Cardinality(Used)
  /\ \A f \in Used : f <= cur_max_fd_
  /\ cur_max_fd_ # 0 => cur_max_fd_ \in Used

\* What is still to be dispatched ends at n, lives and is there once.
Pending(n) ==
  /\ n \in cursor..event_size /\ active_channels_[n] = NULL
  /\ \A i \in cursor..(n - 1) :
       /\ active_channels_[i] \in alive
       /\ \A j \in cursor..(n - 1) : active_channels_[i] = active_channels_[j] => i = j

Dispatch ==
  /\ phase = "dispatch" => \E n \in Nat : Pending(n)
  /\ handling # NULL =>
       phase = "dispatch" /\ cursor <= event_size /\ handling = active_channels_[cursor]

(***************************************************************************)
(* Agree as six facts about the next state, to be shown one by one.        *)
(***************************************************************************)
LEMMA AgreeParts ==
  ASSUME retired' \subseteq alive',
         \A c \in Chans : c \notin Owned' => status_'[c] = "kNew",
         \A c, d \in Owned' : fd_'[c] = fd_'[d] => c = d,
         \A c \in Owned' :
           /\ status_'[c] = "kNew" => channels_'[fd_'[c]] = NULL /\ registered'[fd_'[c]] = NULL
           /\ status_'[c] = "kAdded" =>
                channels_'[fd_'[c]] = c /\ registered'[fd_'[c]] = c /\ events_'[c] # {}
           /\ status_'[c] = "kDel" =>
                channels_'[fd_'[c]] = c /\ registered'[fd_'[c]] = NULL /\ events_'[c] = {},
         \A f \in Fds : registered'[f] # NULL =>
           /\ registered'[f] \in Owned' /\ fd_'[registered'[f]] = f
           /\ status_'[registered'[f]] = "kAdded" /\ mask'[f] = events_'[registered'[f]],
         \A f \in Fds : channels_'[f] # NULL =>
           channels_'[f] \in Owned' /\ fd_'[channels_'[f]] = f /\ status_'[channels_'[f]] # "kNew"
  PROVE  Agree'
BY DEF Agree, AssertsHold, Owned

(***************************************************************************)
(* Creating and destroying channels keeps Agree: a new channel takes over  *)
(* the descriptor of channels that are kNew, and only a channel that is    *)
(* kNew is freed, in a task or at the end of its HandleEvent().            *)
(***************************************************************************)
LEMMA LifeKeepsAgree ==
  ASSUME Types, Types', Agree
  PROVE  /\ \A c \in Chans, f \in Fds : NewChannel(c, f) => Agree'
         /\ \A c \in Chans : status_[c] = "kNew" /\ Free(c) /\ UNCHANGED <<tablevars, kernvars>> => Agree'
<1>0. NULL \notin Chans
  BY ChanAssumption
<1>1. ASSUME NEW c \in Chans, NEW f \in Fds, NewChannel(c, f) PROVE Agree'
  <2>1. /\ c \notin alive /\ \A d \in alive : fd_[d] = f => status_[d] = "kNew"
        /\ alive' = alive \cup {c} /\ retired' = (retired \ {c}) \cup {d \in alive : fd_[d] = f}
        /\ fd_' = [fd_ EXCEPT ![c] = f] /\ events_' = [events_ EXCEPT ![c] = {}]
        /\ status_' = [status_ EXCEPT ![c] = "kNew"]
        /\ UNCHANGED <<channels_, registered, mask>>
    BY <1>1 DEF NewChannel, tablevars, kernvars
  <2>2. Owned' = {d \in Owned : fd_[d] # f} \cup {c} /\ c \notin Owned
    BY <2>1 DEF Owned, Agree
  <2>3. fd_'[c] = f /\ status_'[c] = "kNew" /\ events_'[c] = {}
    BY <2>1 DEF Types
  <2>4. \A d \in Chans : d # c => fd_'[d] = fd_[d] /\ status_'[d] = status_[d] /\ events_'[d] = events_[d]
    BY <2>1 DEF Types
  <2>5. Owned \subseteq alive /\ alive \subseteq Chans
    BY DEF Owned, Types
  <2>6. registered[f] = NULL /\ channels_[f] = NULL
    <3>1. registered[f] # NULL => FALSE
      BY <2>1, <2>5 DEF Agree
    <3>2. channels_[f] # NULL => FALSE
      BY <2>1, <2>5 DEF Agree
    <3> QED
      BY <3>1, <3>2
  <2>a. retired' \subseteq alive'
    BY <2>1 DEF Agree
  <2>b. \A d \in Chans : d \notin Owned' => status_'[d] = "kNew"
    BY <2>1, <2>2, <2>3, <2>4, <2>5 DEF Agree
  <2>c. \A d, e \in Owned' : fd_'[d] = fd_'[e] => d = e
    BY <2>2, <2>3, <2>4, <2>5, SMTT(30) DEF Agree
  <2>d. \A d \in Owned' :
           /\ status_'[d] = "kNew" => channels_'[fd_'[d]] = NULL /\ registered'[fd_'[d]] = NULL
           /\ status_'[d] = "kAdded" =>
                channels_'[fd_'[d]] = d /\ registered'[fd_'[d]] = d /\ events_'[d] # {}
           /\ status_'[d] = "kDel" =>
                channels_'[fd_'[d]] = d /\ registered'[fd_'[d]] = NULL /\ events_'[d] = {}
    <3> SUFFICES ASSUME NEW d \in Owned'
                 PROVE  /\ status_'[d] = "kNew" => channels_[fd_'[d]] = NULL /\ registered[fd_'[d]] = NULL
                        /\ status_'[d] = "kAdded" =>
                             channels_[fd_'[d]] = d /\ registered[fd_'[d]] = d /\ events_'[d] # {}
                        /\ status_'[d] = "kDel" =>
                             channels_[fd_'[d]] = d /\ registered[fd_'[d]] = NULL /\ events_'[d] = {}
      BY <2>1
    <3>1. CASE d = c
      BY <2>3, <2>6, <3>1
    <3>2. CASE d # c
      <4>1. d \in Owned /\ fd_'[d] = fd_[d] /\ status_'[d] = status_[d] /\ events_'[d] = events_[d]
        BY <2>2, <2>4, <2>5, <3>2
      <4> QED
        BY <4>1, SMTT(60) DEF Agree, AssertsHold, Owned
    <3> QED
      BY <3>1, <3>2
  <2>e. \A g \in Fds : registered'[g] # NULL =>
           /\ registered'[g] \in Owned' /\ fd_'[registered'[g]] = g
           /\ status_'[registered'[g]] = "kAdded" /\ mask'[g] = events_'[registered'[g]]
    BY <2>1, <2>2, <2>4, <2>5, <2>6, SMTT(30) DEF Agree
  <2>g. \A g \in Fds : channels_'[g] # NULL =>
           channels_'[g] \in Owned' /\ fd_'[channels_'[g]] = g /\ status_'[channels_'[g]] # "kNew"
    BY <2>1, <2>2, <2>4, <2>5, <2>6 DEF Agree
  <2> QED
    BY <2>a, <2>b, <2>c, <2>d, <2>e, <2>g, AgreeParts
<1>2. ASSUME NEW c \in Chans, status_[c] = "kNew", Free(c), UNCHANGED <<tablevars, kernvars>>
      PROVE  Agree'
  <2>1. /\ alive' = alive \ {c} /\ retired' = retired \ {c}
        /\ UNCHANGED <<status_, channels_, registered, mask>>
    BY <1>2 DEF Free, tablevars, kernvars
  <2>2. Owned' = Owned \ {c} /\ Owned \subseteq Chans
    BY <2>1 DEF Owned, Types
  <2>4. \A d \in Chans : d # c => fd_'[d] = fd_[d] /\ events_'[d] = events_[d]
    BY <1>2 DEF Free, Types
  <2>a. retired' \subseteq alive'
    BY <2>1 DEF Agree
  <2>b. \A d \in Chans : d \notin Owned' => status_'[d] = "kNew"
    BY <1>2, <2>1, <2>2 DEF Agree
  <2>c. \A d, e \in Owned' : fd_'[d] = fd_'[e] => d = e
    BY <2>2, <2>4 DEF Agree
  <2>d. \A d \in Owned' :
           /\ status_'[d] = "kNew" => channels_'[fd_'[d]] = NULL /\ registered'[fd_'[d]] = NULL
           /\ status_'[d] = "kAdded" =>
                channels_'[fd_'[d]] = d /\ registered'[fd_'[d]] = d /\ events_'[d] # {}
           /\ status_'[d] = "kDel" =>
                channels_'[fd_'[d]] = d /\ registered'[fd_'[d]] = NULL /\ events_'[d] = {}
    BY <2>1, <2>2, <2>4, SMTT(30) DEF Agree, AssertsHold, Owned
  <2>e. \A g \in Fds : registered'[g] # NULL =>
           /\ registered'[g] \in Owned' /\ fd_'[registered'[g]] = g
           /\ status_'[registered'[g]] = "kAdded" /\ mask'[g] = events_'[registered'[g]]
    BY <1>2, <2>1, <2>2, <2>4, SMTT(30) DEF Agree
  <2>g. \A g \in Fds : channels_'[g] # NULL =>
           channels_'[g] \in Owned' /\ fd_'[channels_'[g]] = g /\ status_'[channels_'[g]] # "kNew"
    BY <1>2, <2>1, <2>2, <2>4 DEF Agree
  <2> QED
    BY <2>a, <2>b, <2>c, <2>d, <2>e, <2>g, AgreeParts
<1> QED
  BY <1>1, <1>2

(***************************************************************************)
(* A change of one channel and of what is kept for its descriptor keeps    *)
(* Agree, if the three agree afterwards: no other channel that is Owned    *)
(* has the descriptor.                                                     *)
(***************************************************************************)
LEMMA ChangeKeepsAgree ==
  ASSUME Types, Types', Agree, NEW c \in Owned, UNCHANGED <<alive, retired, fd_>>,
         \A d \in Chans : d # c => status_'[d] = status_[d] /\ events_'[d] = events_[d],
         \A g \in Fds : g # fd_[c] =>
           channels_'[g] = channels_[g] /\ registered'[g] = registered[g] /\ mask'[g] = mask[g],
         \/ /\ status_'[c] = "kNew" /\ channels_'[fd_[c]] = NULL /\ registered'[fd_[c]] = NULL
         \/ /\ status_'[c] = "kAdded" /\ channels_'[fd_[c]] = c /\ registered'[fd_[c]] = c
            /\ events_'[c] # {} /\ mask'[fd_[c]] = events_'[c]
         \/ /\ status_'[c] = "kDel" /\ channels_'[fd_[c]] = c /\ registered'[fd_[c]] = NULL
            /\ events_'[c] = {}
  PROVE  Agree'
<1>1. Owned' = Owned /\ Owned \subseteq Chans /\ NULL \notin Chans
  BY ChanAssumption DEF Owned, Types
<1>2. \A d \in Owned : d # c => fd_[d] # fd_[c] /\ fd_[d] \in Fds
  BY <1>1, SMTT(30) DEF Agree, Types
<1>a. retired' \subseteq alive'
  BY DEF Agree
<1>b. \A d \in Chans : d \notin Owned' => status_'[d] = "kNew"
  BY <1>1 DEF Agree
<1>c. \A d, e \in Owned' : fd_'[d] = fd_'[e] => d = e
  BY <1>1 DEF Agree
<1>d. \A d \in Owned' :
         /\ status_'[d] = "kNew" => channels_'[fd_'[d]] = NULL /\ registered'[fd_'[d]] = NULL
         /\ status_'[d] = "kAdded" =>
              channels_'[fd_'[d]] = d /\ registered'[fd_'[d]] = d /\ events_'[d] # {}
         /\ status_'[d] = "kDel" =>
              channels_'[fd_'[d]] = d /\ registered'[fd_'[d]] = NULL /\ events_'[d] = {}
  <2> SUFFICES ASSUME NEW d \in Owned
               PROVE  /\ status_'[d] = "kNew" => channels_'[fd_[d]] = NULL /\ registered'[fd_[d]] = NULL
                      /\ status_'[d] = "kAdded" =>
                           channels_'[fd_[d]] = d /\ registered'[fd_[d]] = d /\ events_'[d] # {}
                      /\ status_'[d] = "kDel" =>
                           channels_'[fd_[d]] = d /\ registered'[fd_[d]] = NULL /\ events_'[d] = {}
    BY <1>1
  <2>1. CASE d = c
    BY <2>1
  <2>2. CASE d # c
    <3>1. /\ status_'[d] = status_[d] /\ events_'[d] = events_[d]
          /\ channels_'[fd_[d]] = channels_[fd_[d]] /\ registered'[fd_[d]] = registered[fd_[d]]
      BY <1>1, <1>2, <2>2
    <3> QED
      BY <3>1, SMTT(60) DEF Agree, AssertsHold, Owned
  <2> QED
    BY <2>1, <2>2
<1>e. \A g \in Fds : registered'[g] # NULL =>
         /\ registered'[g] \in Owned' /\ fd_'[registered'[g]] = g
         /\ status_'[registered'[g]] = "kAdded" /\ mask'[g] = events_'[registered'[g]]
  <2> SUFFICES ASSUME NEW g \in Fds, registered'[g] # NULL
               PROVE  /\ registered'[g] \in Owned /\ fd_[registered'[g]] = g
                      /\ status_'[registered'[g]] = "kAdded" /\ mask'[g] = events_'[registered'[g]]
    BY <1>1
  <2>1. CASE g = fd_[c]
    BY <2>1
  <2>2. CASE g # fd_[c]
    <3>1. registered'[g] = registered[g] /\ mask'[g] = mask[g]
      BY <2>2
    <3>2. /\ registered[g] \in Owned /\ fd_[registered[g]] = g
          /\ status_[registered[g]] = "kAdded" /\ mask[g] = events_[registered[g]]
      BY <3>1 DEF Agree
    <3>3. registered[g] \in Chans /\ registered[g] # c
      BY <1>1, <2>2, <3>2
    <3> QED
      BY <3>1, <3>2, <3>3
  <2> QED
    BY <2>1, <2>2
<1>g. \A g \in Fds : channels_'[g] # NULL =>
         channels_'[g] \in Owned' /\ fd_'[channels_'[g]] = g /\ status_'[channels_'[g]] # "kNew"
  <2> SUFFICES ASSUME NEW g \in Fds, channels_'[g] # NULL
               PROVE  channels_'[g] \in Owned /\ fd_[channels_'[g]] = g /\ status_'[channels_'[g]] # "kNew"
    BY <1>1
  <2>1. CASE g = fd_[c]
    BY <2>1
  <2>2. CASE g # fd_[c]
    <3>1. channels_'[g] = channels_[g]
      BY <2>2
    <3>2. channels_[g] \in Owned /\ fd_[channels_[g]] = g /\ status_[channels_[g]] # "kNew"
      BY <3>1 DEF Agree
    <3>3. channels_[g] \in Chans /\ channels_[g] # c
      BY <1>1, <2>2, <3>2
    <3> QED
      BY <3>1, <3>2, <3>3
  <2> QED
    BY <2>1, <2>2
<1> QED
  BY <1>a, <1>b, <1>c, <1>d, <1>e, <1>g, AgreeParts

(***************************************************************************)
(* UpdateChannel() and RemoveChannel() keep Agree, in each of their        *)
(* branches.                                                               *)
(***************************************************************************)
LEMMA CallsKeepAgree ==
  ASSUME Types, Types', Agree, NEW c \in Chans
  PROVE  /\ \A ev \in Changes(events_[c]) : UpdateChannel(c, ev) => Agree'
         /\ RemoveChannel(c) => Agree'
<1> DEFINE f == fd_[c]
<1>f. f \in Fds
  BY DEF Types
<1> HIDE DEF f
<1>1. ASSUME NEW ev \in Changes(events_[c]), UpdateChannel(c, ev) PROVE Agree'
  <2>1. /\ c \in Owned /\ UNCHANGED <<alive, retired, fd_>>
        /\ events_'[c] = ev /\ \A d \in Chans : d # c => events_'[d] = events_[d]
    BY <1>1 DEF UpdateChannel, Owned, Types
  <2>2. \A d \in Chans : d # c => status_'[d] = status_[d]
    BY <1>1 DEF UpdateChannel, UpdateNew, UpdateAdded, UpdateDel, Types
  <2>3. ASSUME UpdateNew(c, ev)
        PROVE  /\ \A g \in Fds : g # f =>
                    channels_'[g] = channels_[g] /\ registered'[g] = registered[g] /\ mask'[g] = mask[g]
               /\ channels_'[f] = c
               /\ \/ status_'[c] = "kAdded" /\ registered'[f] = c /\ ev # {} /\ mask'[f] = ev
                  \/ status_'[c] = "kDel" /\ registered'[f] = NULL /\ ev = {}
    <3>1. channels_' = [channels_ EXCEPT ![f] = c]
      BY <2>3 DEF UpdateNew, AddChannelListItem, f
    <3>2. registered[f] = NULL
      BY <2>1, <2>3 DEF UpdateNew, Agree, AssertsHold, Owned, f
    <3>3. CASE ev # {}
      <4>1. /\ registered' = [registered EXCEPT ![f] = c] /\ mask' = [mask EXCEPT ![f] = ev]
            /\ status_' = [status_ EXCEPT ![c] = "kAdded"]
        BY <2>3, <3>3 DEF UpdateNew, CtlAdd, f
      <4> QED
        BY <1>f, <3>1, <3>3, <4>1 DEF Types
    <3>4. CASE ev = {}
      <4>1. UNCHANGED <<registered, mask>> /\ status_' = [status_ EXCEPT ![c] = "kDel"]
        BY <2>3, <3>4 DEF UpdateNew, kernvars
      <4> QED
        BY <1>f, <3>1, <3>2, <3>4, <4>1 DEF Types
    <3> QED
      BY <3>3, <3>4
  <2>4. ASSUME UpdateAdded(c, ev) \/ UpdateDel(c, ev)
        PROVE  /\ \A g \in Fds : g # f =>
                    channels_'[g] = channels_[g] /\ registered'[g] = registered[g] /\ mask'[g] = mask[g]
               /\ channels_'[f] = c
               /\ \/ status_'[c] = "kAdded" /\ registered'[f] = c /\ ev # {} /\ mask'[f] = ev
                  \/ status_'[c] = "kDel" /\ registered'[f] = NULL /\ ev = {}
    <3>1. UNCHANGED channels_ /\ channels_[f] = c
      BY <2>4 DEF UpdateAdded, UpdateDel, tablevars, f
    <3>2. CASE ev # {}
      <4>1. /\ registered' = [registered EXCEPT ![f] = c] /\ mask' = [mask EXCEPT ![f] = ev]
            /\ status_'[c] = "kAdded"
        BY <2>4, <3>2 DEF UpdateAdded, UpdateDel, CtlAdd, CtlMod, f, Types
      <4> QED
        BY <1>f, <3>1, <3>2, <4>1 DEF Types
    <3>3. CASE UpdateAdded(c, ev) /\ ev = {}
      <4>1. /\ registered' = [registered EXCEPT ![f] = NULL] /\ mask' = [mask EXCEPT ![f] = {}]
            /\ status_' = [status_ EXCEPT ![c] = "kDel"]
        BY <3>3 DEF UpdateAdded, CtlDel, f
      <4> QED
        BY <1>f, <3>1, <3>3, <4>1 DEF Types
    <3>4. CASE UpdateDel(c, ev) /\ ev = {}
      <4>1. UNCHANGED <<registered, mask, status_>> /\ status_[c] = "kDel"
        BY <3>4 DEF UpdateDel, kernvars
      <4>2. registered[f] = NULL
        BY <2>1, <4>1 DEF Agree, AssertsHold, Owned, f
      <4> QED
        BY <3>1, <3>4, <4>1, <4>2
    <3> QED
      BY <2>4, <3>2, <3>3, <3>4
  <2>5. UpdateNew(c, ev) \/ UpdateAdded(c, ev) \/ UpdateDel(c, ev)
    BY <1>1 DEF UpdateChannel
  <2> QED
    BY <2>1, <2>2, <2>3, <2>4, <2>5, ChangeKeepsAgree DEF f
<1>2. ASSUME RemoveChannel(c) PROVE Agree'
  <2>1. /\ c \in Owned /\ UNCHANGED <<alive, retired, fd_, events_>>
        /\ status_' = [status_ EXCEPT ![c] = "kNew"] /\ channels_' = [channels_ EXCEPT ![f] = NULL]
    BY <1>2 DEF RemoveChannel, DelChannelListItem, Owned, f
  <2>2. registered'[f] = NULL /\ \A g \in Fds : g # f => registered'[g] = registered[g] /\ mask'[g] = mask[g]
    <3>1. CASE RemoveAdded(c)
      BY <1>f, <3>1 DEF RemoveAdded, CtlDel, Types, f
    <3>2. CASE RemoveDel(c)
      <4>1. registered[f] = NULL
        BY <2>1, <3>2 DEF RemoveDel, Agree, AssertsHold, Owned, f
      <4> QED
        BY <3>2, <4>1 DEF RemoveDel, kernvars
    <3> QED
      BY <1>2, <3>1, <3>2 DEF RemoveChannel
  <2>3. /\ status_'[c] = "kNew" /\ \A d \in Chans : d # c => status_'[d] = status_[d]
        /\ channels_'[f] = NULL /\ \A g \in Fds : g # f => channels_'[g] = channels_[g]
    BY <1>f, <2>1 DEF Types
  <2> QED
    BY <2>1, <2>2, <2>3, ChangeKeepsAgree DEF f
<1> QED
  BY <1>1, <1>2

(***************************************************************************)
(* Agree holds in every state.                                             *)
(***************************************************************************)
LEMMA AlwaysAgree == Spec => [](Types /\ Agree)
<1>1. Init => Agree
  BY DEF Init, Agree, AssertsHold, Owned
<1>2. Types /\ Types' /\ Agree /\ [Next]_vars => Agree'
  <2> SUFFICES ASSUME Types, Types', Agree, [Next]_vars PROVE Agree'
    OBVIOUS
  <2>u. ASSUME UNCHANGED <<chanvars, tablevars, kernvars>> PROVE Agree'
    BY <2>u, SMTT(60) DEF chanvars, tablevars, kernvars, Agree, AssertsHold, Owned
  <2>1. ASSUME NEW c \in Chans, NEW f \in Fds, NewChannel(c, f) PROVE Agree'
    BY <2>1, LifeKeepsAgree
  <2>2. ASSUME NEW c \in Chans, DestroyChannel(c) PROVE Agree'
    BY <2>2, LifeKeepsAgree DEF DestroyChannel
  <2>3. ASSUME NEW c \in Chans, RemoveChannel(c) PROVE Agree'
    BY <2>3, CallsKeepAgree
  <2>4. ASSUME NEW c \in Chans, NEW ev \in Changes(events_[c]), UpdateChannel(c, ev) PROVE Agree'
    BY <2>4, CallsKeepAgree
  <2>5. ASSUME NEW list \in Reports, Poll(list) PROVE Agree'
    BY <2>5, <2>u DEF Poll
  <2>6. CASE HandleEvent \/ DispatchDone
    BY <2>6, <2>u DEF HandleEvent, DispatchDone
  <2>7. CASE HandleEventReturn
    <3>1. handling \in Chans
      BY <2>7 DEF HandleEventReturn, Types, Entries
    <3>2. CASE UNCHANGED chanvars
      BY <2>7, <2>u, <3>2 DEF HandleEventReturn
    <3>3. CASE status_[handling] = "kNew" /\ Free(handling)
      BY <2>7, <3>1, <3>3, LifeKeepsAgree DEF HandleEventReturn
    <3> QED
      BY <2>7, <3>2, <3>3 DEF HandleEventReturn
  <2>8. CASE UNCHANGED vars
    BY <2>8, <2>u DEF vars
  <2> QED
    BY <2>1, <2>2, <2>3, <2>4, <2>5, <2>6, <2>7, <2>8 DEF Next
<1> QED
  BY <1>1, <1>2, TypesHold, PTL DEF Spec

(***************************************************************************)
(* For every set of channels and descriptors no sequence of calls reaches  *)
(* a state in which an assertion of UpdateChannel(), RemoveChannel() or    *)
(* Update() could fail.                                                    *)
(***************************************************************************)
THEOREM AssertionsHold == Spec => []AssertsHold
<1>1. Agree => AssertsHold
  BY DEF Agree
<1> QED
  BY <1>1, AlwaysAgree, PTL

(***************************************************************************)
(* What epoll watches, seen from the channels.                             *)
(***************************************************************************)
LEMMA AgreeMatches == Types /\ Agree => KernelMatches
BY SMTT(30) DEF Types, Agree, AssertsHold, Owned, KernelMatches

(***************************************************************************)
(* epoll always watches living channels, with the events they asked for.   *)
(***************************************************************************)
THEOREM KernelAgrees == Spec => []KernelMatches
BY AgreeMatches, AlwaysAgree, PTL

-----------------------------------------------------------------------------
(***************************************************************************)
(* AddChannelListItem() and DelChannelListItem() keep the number of used   *)
(* entries and the largest of them.                                        *)
(***************************************************************************)
LEMMA TableKeepsCounted ==
  ASSUME Types, Types', Counted, NEW c \in Chans
  PROVE  /\ AddChannelListItem(c) /\ channels_[fd_[c]] = NULL => Counted'
         /\ DelChannelListItem(c) /\ channels_[fd_[c]] # NULL => Counted'
<1> DEFINE f == fd_[c]
<1>0. /\ f \in Fds /\ f \in Nat \ {0} /\ Used \subseteq Fds /\ cur_max_fd_ \in Nat /\ c # NULL
      /\ \A g \in Fds : g \in Nat \ {0}
  BY SizeAssumption, ChanAssumption DEF Types, Fds, Used
<1>1. IsFiniteSet(Used) /\ Cardinality(Used) \in Nat
  <2>1. IsFiniteSet(Fds)
    BY FS_Interval, SizeAssumption DEF Fds
  <2> QED
    BY <2>1, FS_Subset, FS_CardinalityType DEF Used
<1> HIDE DEF f
<1>2. ASSUME AddChannelListItem(c), channels_[f] = NULL PROVE Counted'
  <2>1. /\ channels_' = [channels_ EXCEPT ![f] = c] /\ channel_nums_' = channel_nums_ + 1
        /\ cur_max_fd_' = IF cur_max_fd_ < f THEN f ELSE cur_max_fd_
    BY <1>2 DEF AddChannelListItem, f
  <2>2. Used' = Used \cup {f} /\ f \notin Used
    BY <1>0, <1>2, <2>1 DEF Used, Types
  <2>3. Cardinality(Used') = Cardinality(Used) + 1
    BY <1>1, <2>2, FS_AddElement
  <2>4. \A g \in Used' : g <= cur_max_fd_'
    BY <1>0, <2>1, <2>2 DEF Counted
  <2> QED
    BY <1>0, <2>1, <2>2, <2>3, <2>4 DEF Counted
<1>3. ASSUME DelChannelListItem(c), channels_[f] # NULL PROVE Counted'
  <2>1. /\ channels_' = [channels_ EXCEPT ![f] = NULL] /\ channel_nums_' = channel_nums_ - 1
        /\ cur_max_fd_' = IF cur_max_fd_ = f THEN NextBelow(f, channels_') ELSE cur_max_fd_
    BY <1>3 DEF DelChannelListItem, f
  <2>2. Used' = Used \ {f} /\ f \in Used
    BY <1>0, <1>3, <2>1 DEF Used, Types
  <2>3. Cardinality(Used') = Cardinality(Used) - 1
    BY <1>1, <2>2, FS_RemoveElement
  <2>4. CASE cur_max_fd_ = f
    <3>1. /\ cur_max_fd_' \in 0..(f - 1) /\ (cur_max_fd_' = 0 \/ channels_'[cur_max_fd_'] # NULL)
          /\ \A j \in 1..(f - 1) : channels_'[j] # NULL => j <= cur_max_fd_'
      BY <1>0, <2>1, <2>4, NextBelowIsMax
    <3>2. ASSUME NEW g \in Used' PROVE g <= cur_max_fd_'
      <4>1. g \in 1..(f - 1)
        BY <1>0, <2>2, <2>4 DEF Counted
      <4> QED
        BY <3>1, <4>1 DEF Used
    <3>3. cur_max_fd_' # 0 => cur_max_fd_' \in Used'
      <4>1. \A i \in 1..f : i \in Fds
        BY <1>0, SizeAssumption DEF Fds
      <4> QED
        BY <1>0, <3>1, <4>1 DEF Used
    <3> QED
      BY <2>1, <2>3, <3>2, <3>3 DEF Counted
  <2>5. CASE cur_max_fd_ # f
    BY <2>1, <2>2, <2>3, <2>5 DEF Counted
  <2> QED
    BY <2>4, <2>5
<1> QED
  BY <1>2, <1>3 DEF f

(***************************************************************************)
(* The assertions of DumpChannels() hold after any sequence of changes,    *)
(* and cur_max_fd_ is the largest used descriptor.                         *)
(***************************************************************************)
THEOREM TableAgrees == Spec => []TableConsistent
<1>1. Init => Counted
  BY FS_EmptySet DEF Init, Counted, Used
<1>2. Types /\ Types' /\ Agree /\ Counted /\ [Next]_vars => Counted'
  <2> SUFFICES ASSUME Types, Types', Agree, Counted, [Next]_vars PROVE Counted'
    OBVIOUS
  <2>u. ASSUME UNCHANGED tablevars PROVE Counted'
    BY <2>u DEF tablevars, Counted, Used
  <2>1. ASSUME NEW c \in Chans, NEW f \in Fds, NewChannel(c, f) PROVE Counted'
    BY <2>1, <2>u DEF NewChannel
  <2>2. ASSUME NEW c \in Chans, DestroyChannel(c) PROVE Counted'
    BY <2>2, <2>u DEF DestroyChannel
  <2>3. ASSUME NEW c \in Chans, RemoveChannel(c) PROVE Counted'
    BY <2>3, TableKeepsCounted, ChanAssumption DEF RemoveChannel
  <2>4. ASSUME NEW c \in Chans, NEW ev \in Changes(events_[c]), UpdateChannel(c, ev) PROVE Counted'
    BY <2>4, <2>u, TableKeepsCounted DEF UpdateChannel, UpdateNew, UpdateAdded, UpdateDel
  <2>5. ASSUME NEW list \in Reports, Poll(list) PROVE Counted'
    BY <2>5, <2>u DEF Poll
  <2>6. CASE HandleEvent \/ HandleEventReturn \/ DispatchDone \/ UNCHANGED vars
    BY <2>6, <2>u DEF HandleEvent, HandleEventReturn, DispatchDone, vars
  <2> QED
    BY <2>1, <2>2, <2>3, <2>4, <2>5, <2>6 DEF Next
<1>3. Types /\ Agree /\ Counted => TableConsistent
  <2> SUFFICES ASSUME Types, Agree, Counted PROVE TableConsistent
    OBVIOUS
  <2>1. \A f \in Fds : channels_[f] # NULL =>
          channels_[f] \in alive /\ f <= cur_max_fd_ /\ fd_[channels_[f]] = f
    BY DEF Agree, Owned, Counted, Used
  <2>2. {f \in Fds : f <= cur_max_fd_ /\ channels_[f] # NULL} = Used
    BY <2>1 DEF Used
  <2>3. DumpChannels
    BY <2>1, <2>2 DEF DumpChannels, Counted
  <2>4. cur_max_fd_ # 0 => cur_max_fd_ \in Fds /\ channels_[cur_max_fd_] # NULL
    BY DEF Counted, Used
  <2> QED
    BY <2>1, <2>3, <2>4 DEF TableConsistent
<1> QED
  BY <1>1, <1>2, <1>3, AlwaysAgree, PTL DEF Spec

-----------------------------------------------------------------------------
(***************************************************************************)
(* Poll() leaves a list of living channels, each there once, and its end   *)
(* inside the array: the arrays are doubled when the list fills them.      *)
(***************************************************************************)
LEMMA PollFills ==
  ASSUME Types, Types', Agree, NEW list \in Reports, Poll(list)
  PROVE  Pending(Len(list) + 1)'
<1> DEFINE n == Len(list)
           array == IF event_size' # event_size
                    THEN [i \in 1..event_size' |-> NULL] ELSE active_channels_
<1>1. /\ n \in Nat
      /\ \A i \in 1..n : list[i] \in alive /\ \A j \in 1..n : list[i] = list[j] => i = j
  BY ReportFacts, ChanAssumption, SMTT(60) DEF Agree, Owned
<1>2. n <= event_size /\ cursor' = 1 /\ UNCHANGED alive
  BY DEF Poll, chanvars
<1>3. n + 1 <= event_size'
  <2>1. event_size' = Sizes(n) /\ event_size \in Nat \ {0}
    BY DEF Poll, Types
  <2> HIDE DEF n
  <2> QED
    BY <1>1, <1>2, <2>1 DEF Sizes
<1>4. DOMAIN array = 1..event_size'
  BY DEF Types
<1>5. active_channels_' = FillActiveChannel(list, array)
  BY DEF Poll
<1>6. event_size' \in Nat
  BY DEF Types
<1> HIDE DEF array
<1>7. active_channels_'[n + 1] = NULL /\ \A i \in 1..n : active_channels_'[i] = list[i]
  <2> HIDE DEF n
  <2>1. active_channels_' = [i \in 1..event_size' |->
          IF i <= n /\ events_[list[i]] # {} THEN list[i] ELSE IF i = n + 1 THEN NULL ELSE array[i]]
    BY <1>4, <1>5 DEF FillActiveChannel, n
  <2>2. \A i \in 1..n : events_[list[i]] # {}
    <3>1. \A i \in 1..n : \E f \in Fds : registered[f] = list[i] /\ list[i] # NULL
      BY ReportFacts, ChanAssumption DEF n
    <3> QED
      BY <3>1, AgreeMatches DEF KernelMatches
  <2> QED
    BY <1>1, <1>3, <1>6, <2>1, <2>2
<1> HIDE DEF n
<1>8. n + 1 \in cursor'..event_size' /\ cursor'..(n + 1 - 1) = 1..n
  BY <1>1, <1>2, <1>3, <1>6
<1>9. Pending(n + 1)'
  BY <1>1, <1>2, <1>7, <1>8 DEF Pending
<1> QED
  BY <1>9 DEF n

(***************************************************************************)
(* Loop() never calls HandleEvent() on a channel that was destroyed and    *)
(* never runs over the end of the array, whatever callbacks do.            *)
(***************************************************************************)
THEOREM OnlyLivingDispatched == Spec => []ActiveValid
<1>1. Init => Dispatch
  BY DEF Init, Dispatch
<1>2. Types /\ Types' /\ Agree /\ Dispatch /\ [Next]_vars => Dispatch'
  <2> SUFFICES ASSUME Types, Types', Agree, Dispatch, [Next]_vars PROVE Dispatch'
    OBVIOUS
  <2>l. Len(active_channels_) = event_size /\ event_size \in Nat /\ cursor \in Nat
    BY LengthOfArray DEF Types
  <2>u. ASSUME UNCHANGED pollvars, alive \subseteq alive' PROVE Dispatch'
    BY <2>u DEF pollvars, Dispatch, Pending
  <2>1. ASSUME NEW c \in Chans, NEW f \in Fds, NewChannel(c, f) PROVE Dispatch'
    BY <2>1, <2>u DEF NewChannel
  <2>2. ASSUME NEW c \in Chans, DestroyChannel(c) PROVE Dispatch'
    BY <2>2 DEF DestroyChannel, Dispatch, pollvars
  <2>3. ASSUME NEW c \in Chans, RemoveChannel(c) PROVE Dispatch'
    BY <2>3, <2>u DEF RemoveChannel
  <2>4. ASSUME NEW c \in Chans, NEW ev \in Changes(events_[c]), UpdateChannel(c, ev) PROVE Dispatch'
    BY <2>4, <2>u DEF UpdateChannel
  <2>5. ASSUME NEW list \in Reports, Poll(list) PROVE Dispatch'
    <3>1. handling' = NULL
      BY <2>5 DEF Poll, Dispatch
    <3>2. Pending(Len(list) + 1)' /\ Len(list) + 1 \in Nat
      BY <2>5, PollFills, ReportFacts
    <3> QED
      BY <3>1, <3>2 DEF Dispatch
  <2>6. CASE HandleEvent
    BY <2>6, <2>l DEF HandleEvent, Current, Dispatch, Pending, chanvars
  <2>7. CASE HandleEventReturn
    <3>1. /\ phase = "dispatch" /\ handling # NULL /\ handling = active_channels_[cursor]
          /\ handling' = NULL /\ cursor' = cursor + 1
          /\ UNCHANGED <<event_size, active_channels_, phase>>
      BY <2>7 DEF HandleEventReturn, Dispatch
    <3>2. PICK n \in Nat : Pending(n)
      BY <3>1 DEF Dispatch
    <3>3. alive \ {handling} \subseteq alive'
      BY <2>7 DEF HandleEventReturn, Free, chanvars
    <3>4. n \in cursor + 1..event_size
      BY <2>l, <3>1, <3>2 DEF Pending
    <3>5. ASSUME NEW i \in cursor + 1..(n - 1)
          PROVE  /\ active_channels_[i] \in alive'
                 /\ \A j \in cursor + 1..(n - 1) : active_channels_[i] = active_channels_[j] => i = j
      <4>1. i \in cursor..(n - 1) /\ cursor \in cursor..(n - 1) /\ i # cursor
        BY <2>l, <3>4
      <4>2. active_channels_[i] \in alive /\ active_channels_[i] # handling
        BY <3>1, <3>2, <4>1 DEF Pending
      <4>3. \A j \in cursor + 1..(n - 1) : j \in cursor..(n - 1)
        BY <2>l
      <4> QED
        BY <3>2, <3>3, <4>1, <4>2, <4>3 DEF Pending
    <3>6. Pending(n)'
      BY <3>1, <3>2, <3>4, <3>5 DEF Pending
    <3> QED
      BY <3>1, <3>6 DEF Dispatch
  <2>8. CASE DispatchDone
    BY <2>8 DEF DispatchDone, Dispatch
  <2>9. CASE UNCHANGED vars
    BY <2>9, <2>u DEF vars, chanvars
  <2> QED
    BY <2>1, <2>2, <2>3, <2>4, <2>5, <2>6, <2>7, <2>8, <2>9 DEF Next
<1>3. Types /\ Dispatch => ActiveValid
  BY LengthOfArray DEF Types, Dispatch, Pending, ActiveValid
<1> QED
  BY <1>1, <1>2, <1>3, AlwaysAgree, PTL DEF Spec
=============================================================================
