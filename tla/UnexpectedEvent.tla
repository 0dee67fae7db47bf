-------------------------- MODULE UnexpectedEvent --------------------------
(***************************************************************************)
(* The event loop when a connection is closed before its events have been  *)
(* deleted: the "possible bug" for which Poll_process_events_ has a        *)
(* workaround (event_poll_module.cc:231-254).  The slot of the closed      *)
(* descriptor stays in the array, poll() answers POLLNVAL at once and      *)
(* forever, and the loop disables the slot when it comes across it.        *)
(*                                                                         *)
(* Two later calls are undefined after such a close, and the model stops   *)
(* before them: adding an event writes Events_[nEvents_] past the array    *)
(* when stale slots fill it, and deleting one looks files_[-1] up when the *)
(* slot to be moved is a disabled one.                                     *)
(***************************************************************************)
EXTENDS EventLoop

CONSTANT MaxStale       \* bound: slots whose connection was closed too early

ASSUME StaleAssumption == MaxStale \in Nat

Stale == {s \in Live : \A c \in Conn : fd[c] = NoFd \/ fd[c] # Events[s].fd}

CloseTooEarly ==
  /\ Operation
  /\ Cardinality(Stale) < MaxStale
  /\ \E c \in Conn :
       /\ IsOpen(c)
       /\ \E d \in Dir : active[c][d]
       /\ fd' = [fd EXCEPT ![c] = NoFd]
       /\ Forget(c)
  /\ UNCHANGED <<files, tableVars>>

RoomToAdd(c) == nEvents < connection_n \/ \E d \in Dir : Set(c, d)

MovesEnabled(c, d) ==
  Set(c, d) /\ ~Set(c, Peer(d)) /\ index[c][d] < nEvents - 1 =>
    Events[nEvents - 1].fd # NoFd

DefinedEvent ==
  /\ Operation
  /\ \E c \in Conn, d \in Dir :
       \/ RoomToAdd(c) /\ Poll_add_event(c, d)
       \/ MovesEnabled(c, d) /\ Poll_del_event(c, d)
  /\ UNCHANGED <<queueVars, due>>

EarlyNext ==
  \/ PollNothing \/ PollReady \/ LoopStep
  \/ CloseTooEarly \/ DefinedEvent \/ HandlerOpen \/ HandlerClose

EarlySpec == LoopInit /\ [][EarlyNext]_allVars

(* After the walk no slot that poll() reported is left asking for events   *)
(* of a closed connection: poll() does not return for it again, the "CPU   *)
(* spinning" the comment wants to avoid.                                   *)
ClosedIsSilenced ==
  [][pc = "dispatch" /\ pc' = "accept" =>
       \A s \in Live : revents[s] # {} =>
         \/ Events[s].fd = NoFd
         \/ IsOpen(files[Events[s].fd])]_allVars

(* Disabling the slots of closed connections costs no open one its slot:   *)
(* the index of its active events still leads to a slot with its           *)
(* descriptor and their bits.                                              *)
OpenKeepWatched ==
  \A c \in Conn, d \in Dir : IsOpen(c) /\ active[c][d] =>
    /\ index[c][d] \in Live
    /\ Events[index[c][d]].fd = fd[c]
    /\ d \in Events[index[c][d]].events
=============================================================================
