------------------------------ MODULE Epoller ------------------------------
(***************************************************************************)
(* Channel and Epoller (src/src/channel.cc, epoller.cc, poller.cc): the    *)
(* channels of one loop, the table channels_ indexed by descriptor, the    *)
(* epoll interest list in the kernel and the array of active channels that *)
(* Loop() walks.  All of it runs in the loop's thread; what is interleaved *)
(* are the calls the owners of channels make from callbacks and tasks.     *)
(*                                                                         *)
(* The owners' discipline is the one of TCPConnection and TCPConnector:    *)
(* Remove() before a channel is destroyed, no destruction while channels   *)
(* are dispatched, except that of a tied channel at the end of its own     *)
(* HandleEvent(), and a descriptor is passed on only after Remove().       *)
(***************************************************************************)
EXTENDS Integers, Sequences, FiniteSets

CONSTANTS
  Chans,        \* channel objects
  Tied,         \* those whose owner calls Tie()
  NULL,
  MaxFd,        \* descriptors are 1..MaxFd; channels_ has room for all
  InitSize      \* kInitActiveChannelSize

ASSUME ChanAssumption == IsFiniteSet(Chans) /\ NULL \notin Chans /\ Tied \subseteq Chans
ASSUME SizeAssumption == MaxFd \in Nat \ {0} /\ InitSize \in Nat \ {0}

Fds == 1..MaxFd
Interests == {"read", "write"}

VARIABLES
  alive,             \* constructed and not destroyed
  retired,           \* removed, and the descriptor belongs to a newer channel
  fd_, events_, status_,
  channels_, channel_nums_, cur_max_fd_,
  registered,        \* kernel: the data.ptr epoll keeps for a descriptor
  mask,              \* kernel: the events epoll watches
  event_size,        \* event_list_.size()
  active_channels_,  \* never cleared: valid up to the first NULL
  phase,             \* "dispatch" in the for loop of Loop(), else "tasks"
  cursor,            \* index of the for loop
  handling           \* the channel whose HandleEvent() runs

chanvars  == <<alive, retired, fd_, events_, status_>>
tablevars == <<channels_, channel_nums_, cur_max_fd_>>
kernvars  == <<registered, mask>>
pollvars  == <<event_size, active_channels_, phase, cursor, handling>>
vars == <<chanvars, tablevars, kernvars, pollvars>>

Init ==
  /\ alive = {} /\ retired = {}
  /\ fd_ = [c \in Chans |-> 1]
  /\ events_ = [c \in Chans |-> {}] /\ status_ = [c \in Chans |-> "kNew"]
  /\ channels_ = [f \in Fds |-> NULL] /\ channel_nums_ = 0 /\ cur_max_fd_ = 0
  /\ registered = [f \in Fds |-> NULL] /\ mask = [f \in Fds |-> {}]
  /\ event_size = InitSize
  /\ active_channels_ = [i \in 1..InitSize |-> NULL]
  /\ phase = "tasks" /\ cursor = 1 /\ handling = NULL

\* Owners run in tasks and in the callback of the channel being handled.
OwnerRuns == phase = "tasks" \/ handling # NULL

-----------------------------------------------------------------------------
(* The channel *)

\* Channel(loop, fd).  The descriptor is new, or was handed over by a channel
\* that was removed and waits for its destruction (TCPConnector).
NewChannel(c, f) ==
  /\ OwnerRuns /\ c \notin alive
  /\ \A d \in alive : fd_[d] = f => status_[d] = "kNew"
  /\ alive' = alive \cup {c}
  /\ retired' = (retired \ {c}) \cup {d \in alive : fd_[d] = f}
  /\ fd_' = [fd_ EXCEPT ![c] = f]
  /\ events_' = [events_ EXCEPT ![c] = {}]
  /\ status_' = [status_ EXCEPT ![c] = "kNew"]
  /\ UNCHANGED <<tablevars, kernvars, pollvars>>

\* ~Channel().  The members of a freed object have no value.
Free(c) ==
  /\ alive' = alive \ {c} /\ retired' = retired \ {c}
  /\ fd_' = [fd_ EXCEPT ![c] = 1] /\ events_' = [events_ EXCEPT ![c] = {}]
  /\ UNCHANGED status_

\* An owner destroys its channel in a task.
DestroyChannel(c) ==
  /\ phase = "tasks" /\ c \in alive /\ status_[c] = "kNew" /\ Free(c)
  /\ UNCHANGED <<tablevars, kernvars, pollvars>>

-----------------------------------------------------------------------------
(* Epoller::Update(): one epoll_ctl() call.  It fails, on an assertion, when
   ADD finds the descriptor registered, or MOD and DEL do not. *)

CtlAdd(c, ev) ==
  /\ registered[fd_[c]] = NULL
  /\ registered' = [registered EXCEPT ![fd_[c]] = c]
  /\ mask' = [mask EXCEPT ![fd_[c]] = ev]

CtlMod(c, ev) ==
  /\ registered[fd_[c]] # NULL
  /\ registered' = [registered EXCEPT ![fd_[c]] = c]
  /\ mask' = [mask EXCEPT ![fd_[c]] = ev]

CtlDel(c) ==
  /\ registered[fd_[c]] # NULL
  /\ registered' = [registered EXCEPT ![fd_[c]] = NULL]
  /\ mask' = [mask EXCEPT ![fd_[c]] = {}]

AddChannelListItem(c) ==
  /\ channels_' = [channels_ EXCEPT ![fd_[c]] = c]
  /\ channel_nums_' = channel_nums_ + 1
  /\ cur_max_fd_' = IF cur_max_fd_ < fd_[c] THEN fd_[c] ELSE cur_max_fd_

\* for(i = fd-1; i > 0; i--) down to the next used entry.
NextBelow(f, table) ==
  CHOOSE i \in 0..(f - 1) :
    /\ i = 0 \/ table[i] # NULL
    /\ \A j \in 1..(f - 1) : table[j] # NULL => j <= i

\* Fault: the maximum is left behind.
DelChannelListItem_KeepMax(c) ==
  /\ channels_' = [channels_ EXCEPT ![fd_[c]] = NULL]
  /\ channel_nums_' = channel_nums_ - 1
  /\ UNCHANGED cur_max_fd_

DelChannelListItem(c) ==
  /\ channels_' = [channels_ EXCEPT ![fd_[c]] = NULL]
  /\ channel_nums_' = channel_nums_ - 1
  /\ cur_max_fd_' = IF cur_max_fd_ = fd_[c] THEN NextBelow(fd_[c], channels_')
                                            ELSE cur_max_fd_

-----------------------------------------------------------------------------
(* EnableReading() ... DisableAll(): events_ is changed and UpdateEvent()
   calls Epoller::UpdateChannel(), which branches on the status. *)

Changes(ev) == {ev \cup {"read"}, ev \ {"read"}, ev \cup {"write"}, ev \ {"write"}, {}}

UpdateNew(c, ev) ==
  /\ status_[c] = "kNew" /\ channels_[fd_[c]] = NULL
  /\ \/ ev # {} /\ CtlAdd(c, ev) /\ status_' = [status_ EXCEPT ![c] = "kAdded"]
     \/ ev = {} /\ status_' = [status_ EXCEPT ![c] = "kDel"] /\ UNCHANGED kernvars
  /\ AddChannelListItem(c)

\* Fault: a channel without events keeps its status.
UpdateAdded_KeepStatus(c, ev) ==
  /\ status_[c] = "kAdded" /\ channels_[fd_[c]] = c
  /\ \/ ev # {} /\ CtlMod(c, ev)
     \/ ev = {} /\ CtlDel(c)
  /\ UNCHANGED <<status_, tablevars>>

UpdateAdded(c, ev) ==
  /\ status_[c] = "kAdded" /\ channels_[fd_[c]] = c
  /\ \/ ev # {} /\ CtlMod(c, ev) /\ UNCHANGED status_
     \/ ev = {} /\ CtlDel(c) /\ status_' = [status_ EXCEPT ![c] = "kDel"]
  /\ UNCHANGED tablevars

UpdateDel(c, ev) ==
  /\ status_[c] = "kDel" /\ channels_[fd_[c]] = c
  /\ \/ ev # {} /\ CtlAdd(c, ev) /\ status_' = [status_ EXCEPT ![c] = "kAdded"]
     \/ ev = {} /\ UNCHANGED <<status_, kernvars>>
  /\ UNCHANGED tablevars

UpdateChannel(c, ev) ==
  /\ OwnerRuns /\ c \in alive \ retired
  /\ events_' = [events_ EXCEPT ![c] = ev]
  /\ UpdateNew(c, ev) \/ UpdateAdded(c, ev) \/ UpdateDel(c, ev)
  /\ UNCHANGED <<alive, retired, fd_, pollvars>>

\* Fault: the descriptor stays registered.
RemoveAdded_NoDel(c) ==
  /\ events_[c] # {} /\ status_[c] = "kAdded"
  /\ UNCHANGED kernvars

RemoveAdded(c) ==
  /\ events_[c] # {} /\ status_[c] = "kAdded"
  /\ CtlDel(c)

RemoveDel(c) ==
  /\ events_[c] = {} /\ status_[c] = "kDel"
  /\ UNCHANGED kernvars

\* Remove().  events_ keeps its value; a channel that is kNew is left alone.
RemoveChannel(c) ==
  /\ OwnerRuns /\ c \in alive \ retired
  /\ channels_[fd_[c]] = c
  /\ RemoveAdded(c) \/ RemoveDel(c)
  /\ status_' = [status_ EXCEPT ![c] = "kNew"]
  /\ DelChannelListItem(c)
  /\ UNCHANGED <<alive, retired, fd_, events_, pollvars>>

-----------------------------------------------------------------------------
(* Poll() and the for loop of Loop() *)

\* FillActiveChannel(): the reported channels, then nullptr.  The slot of a
\* channel without events (a spurious notification), and what lies behind the
\* nullptr, are left from earlier rounds.
FillActiveChannel(list, array) ==
  [i \in DOMAIN array |->
     IF i <= Len(list) /\ events_[list[i]] # {} THEN list[i]
     ELSE IF i = Len(list) + 1 THEN NULL ELSE array[i]]

\* Fault: the arrays are enlarged when they overflow, not when they are full.
Sizes_WhenOver(n) == IF n > event_size THEN 2 * event_size ELSE event_size

\* The arrays are doubled as soon as epoll_wait() fills event_list_.
Sizes(n) == IF n = event_size THEN 2 * event_size ELSE event_size

\* epoll_wait() reports some of the registered channels, in any order, at most
\* event_list_.size() of them; none if it times out.
Poll(list) ==
  /\ phase = "tasks" /\ Len(list) <= event_size
  /\ event_size' = Sizes(Len(list))
  /\ active_channels_' =
       FillActiveChannel(list, IF event_size' # event_size
                               THEN [i \in 1..event_size' |-> NULL] ELSE active_channels_)
  /\ phase' = "dispatch" /\ cursor' = 1
  /\ UNCHANGED <<handling, chanvars, tablevars, kernvars>>

Watched == {registered[f] : f \in {g \in Fds : registered[g] # NULL}}
Reports ==
  UNION {{list \in [1..n -> Watched] : \A i, j \in 1..n : list[i] = list[j] => i = j}
         : n \in 0..Cardinality(Watched)}

Current == IF cursor <= Len(active_channels_) THEN active_channels_[cursor] ELSE NULL

HandleEvent ==
  /\ phase = "dispatch" /\ handling = NULL /\ Current # NULL
  /\ handling' = Current
  /\ UNCHANGED <<event_size, active_channels_, phase, cursor, chanvars, tablevars, kernvars>>

\* When HandleEvent() returns, its guard may hold the last reference to the
\* owner, which then dies with its channel.
HandleEventReturn ==
  /\ handling # NULL
  /\ \/ UNCHANGED chanvars
     \/ handling \in Tied /\ status_[handling] = "kNew" /\ Free(handling)
  /\ handling' = NULL /\ cursor' = cursor + 1
  /\ UNCHANGED <<event_size, active_channels_, phase, tablevars, kernvars>>

DispatchDone ==
  /\ phase = "dispatch" /\ handling = NULL /\ Current = NULL
  /\ phase' = "tasks" /\ cursor' = 1
  /\ UNCHANGED <<event_size, active_channels_, handling, chanvars, tablevars, kernvars>>

Next ==
  \/ \E c \in Chans, f \in Fds : NewChannel(c, f)
  \/ \E c \in Chans : DestroyChannel(c) \/ RemoveChannel(c)
  \/ \E c \in Chans : \E ev \in Changes(events_[c]) : UpdateChannel(c, ev)
  \/ \E list \in Reports : Poll(list)
  \/ HandleEvent \/ HandleEventReturn \/ DispatchDone

Spec == Init /\ [][Next]_vars

-----------------------------------------------------------------------------
(***************************************************************************)
(* The assertions of UpdateChannel(), RemoveChannel() and Update() hold    *)
(* whatever call an owner makes next: the status of a channel agrees with  *)
(* channels_, with its events_ and with what epoll has registered.         *)
(***************************************************************************)
AssertsHold ==
  \A c \in alive \ retired :
    /\ status_[c] = "kNew" => channels_[fd_[c]] = NULL /\ registered[fd_[c]] = NULL
    /\ status_[c] = "kAdded" =>
         channels_[fd_[c]] = c /\ registered[fd_[c]] = c /\ events_[c] # {}
    /\ status_[c] = "kDel" =>
         channels_[fd_[c]] = c /\ registered[fd_[c]] = NULL /\ events_[c] = {}

(***************************************************************************)
(* What epoll_wait() can report is a living channel, and the events it     *)
(* watches are the ones the channel asked for, so that FillActiveChannel() *)
(* never meets a freed pointer or a spurious notification.                 *)
(***************************************************************************)
KernelMatches ==
  \A f \in Fds : registered[f] # NULL =>
    /\ registered[f] \in alive /\ fd_[registered[f]] = f
    /\ mask[f] = events_[registered[f]] /\ mask[f] # {}

\* What DumpChannels() asserts after every change of the table: it counts the
\* entries up to cur_max_fd_ and compares their descriptors.
DumpChannels ==
  LET seen == {f \in Fds : f <= cur_max_fd_ /\ channels_[f] # NULL}
  IN (\A f \in seen : fd_[channels_[f]] = f) /\ Cardinality(seen) = channel_nums_

(***************************************************************************)
(* DumpChannels() holds, no channel of the table is dangling or above      *)
(* cur_max_fd_, which is itself in use or zero.                            *)
(***************************************************************************)
TableConsistent ==
  /\ DumpChannels
  /\ \A f \in Fds : channels_[f] # NULL => channels_[f] \in alive /\ f <= cur_max_fd_
  /\ cur_max_fd_ # 0 => cur_max_fd_ \in Fds /\ channels_[cur_max_fd_] # NULL

(***************************************************************************)
(* Loop() calls HandleEvent() on living channels only: from the cursor to  *)
(* the first nullptr, which is always inside the array, nothing dangles,   *)
(* whatever the callbacks before it did.                                   *)
(***************************************************************************)
ActiveValid ==
  phase = "dispatch" =>
    \E n \in cursor..Len(active_channels_) :
      /\ active_channels_[n] = NULL
      /\ \A i \in cursor..(n - 1) : active_channels_[i] \in alive
=============================================================================
