------------------------------ MODULE PollSet ------------------------------
(***************************************************************************)
(* The registration table of lingx's poll event module                     *)
(* (src/src/lingx/core/event_poll_module.cc): the pollfd array Events_,     *)
(* its length nEvents_, and the back index every Event keeps into it.      *)
(*                                                                         *)
(* A connection has two events, read and write.  They share one slot of    *)
(* the array: the second one to be added only sets its bit in the slot of  *)
(* the first.  When the last event of a slot is deleted the last slot of   *)
(* the array is moved into the hole, and the indices of the moved          *)
(* connection are found again through Cycle::files_.                       *)
(*                                                                         *)
(* The connections themselves are handed out and closed by code that the   *)
(* repository does not have yet: GetConnection and CloseConnection say     *)
(* what the poll module relies on (index reset to INVALID_INDEX,           *)
(* files_[fd] set, events deleted before the descriptor is closed).        *)
(***************************************************************************)
EXTENDS Integers, FiniteSets

CONSTANTS Conn,     \* the elements of Cycle::connections_
          Fd        \* the descriptors a connection can have

NoFd          == -1       \* Connection::fd of a closed connection
INVALID_INDEX == -1       \* 0xd0d0d0d0 in the code, never a slot
NoConn        == "nullptr"

ASSUME ConnAssumption == IsFiniteSet(Conn) /\ NoConn \notin Conn
ASSUME FdAssumption   == NoFd \notin Fd

connection_n == Cardinality(Conn)
Slot         == 0 .. connection_n - 1
Dir          == {"read", "write"}          \* POLLIN, POLLOUT
Peer(d)      == IF d = "read" THEN "write" ELSE "read"

VARIABLES
  Events,    \* Events_: slot -> [fd, events]
  nEvents,   \* nEvents_: the number of slots passed to poll()
  index,     \* Event::index of each connection's two events
  active,    \* Event::active
  fd,        \* Connection::fd
  files      \* Cycle::files_: descriptor -> connection

tableVars == <<Events, nEvents, index, active>>
connVars  == <<fd, files>>
pollVars  == <<Events, nEvents, index, active, fd, files>>

IsOpen(c) == fd[c] # NoFd
Set(c, d) == index[c][d] # INVALID_INDEX

(***************************************************************************)
(* Poll_init_ sizes the array; init_connections_events() builds closed     *)
(* connections whose events are value-initialised: index 0, not            *)
(* INVALID_INDEX.  What the unused part of the array holds is never read.  *)
(***************************************************************************)
Init ==
  /\ Events  = [i \in Slot |-> [fd |-> NoFd, events |-> {}]]
  /\ nEvents = 0
  /\ index   = [c \in Conn |-> [d \in Dir |-> 0]]
  /\ active  = [c \in Conn |-> [d \in Dir |-> FALSE]]
  /\ fd      = [c \in Conn |-> NoFd]
  /\ files   = [f \in Fd |-> NoConn]

(* External: a closed connection is given a descriptor nobody else has.    *)
GetConnection(c, f) ==
  /\ ~IsOpen(c)
  /\ \A x \in Conn : fd[x] # f
  /\ fd'     = [fd EXCEPT ![c] = f]
  /\ files'  = [files EXCEPT ![f] = c]
  /\ index'  = [index EXCEPT ![c] = [d \in Dir |-> INVALID_INDEX]]
  /\ active' = [active EXCEPT ![c] = [d \in Dir |-> FALSE]]
  /\ UNCHANGED <<Events, nEvents>>

(* External: files_ keeps the closed connection, whose fd is now -1.       *)
CloseConnection(c) ==
  /\ IsOpen(c)
  /\ \A d \in Dir : ~active[c][d]
  /\ fd' = [fd EXCEPT ![c] = NoFd]
  /\ UNCHANGED <<files, tableVars>>

(* The three ways through Poll_add_event_.                                 *)
AddAlreadySet(c, d) ==
  /\ Set(c, d)
  /\ UNCHANGED <<Events, nEvents, index>>

AddNewSlot_KeepPeer(c, d) ==        \* mutant: the peer's slot is not shared
  /\ ~Set(c, d)
  /\ Events'  = [Events EXCEPT ![nEvents] = [fd |-> fd[c], events |-> {d}]]
  /\ index'   = [index EXCEPT ![c][d] = nEvents]
  /\ nEvents' = nEvents + 1

AddNewSlot(c, d) ==
  /\ ~Set(c, d) /\ ~Set(c, Peer(d))
  /\ Events'  = [Events EXCEPT ![nEvents] = [fd |-> fd[c], events |-> {d}]]
  /\ index'   = [index EXCEPT ![c][d] = nEvents]
  /\ nEvents' = nEvents + 1

AddToPeerSlot(c, d) ==
  LET i == index[c][Peer(d)] IN
  /\ ~Set(c, d) /\ Set(c, Peer(d))
  /\ Events' = [Events EXCEPT ![i].events = @ \cup {d}]
  /\ index'  = [index EXCEPT ![c][d] = i]
  /\ UNCHANGED nEvents

Poll_add_event(c, d) ==
  /\ IsOpen(c)
  /\ active' = [active EXCEPT ![c][d] = TRUE]
  /\ AddAlreadySet(c, d) \/ AddNewSlot(c, d) \/ AddToPeerSlot(c, d)
  /\ UNCHANGED connVars

Retarget_ReadOnly(m, from, to) ==        \* mutant: the write event is forgotten
  IF IsOpen(m)
  THEN [index EXCEPT ![m]["read"] = IF @ = from THEN to ELSE @]
  ELSE index

(***************************************************************************)
(* The connection of the slot that is moved, found through files_, has     *)
(* those of its indices that point at the old place set to the new one;    *)
(* a connection whose fd is -1 is left alone ("unexpected last event").    *)
(***************************************************************************)
Retarget(m, from, to) ==
  IF IsOpen(m)
  THEN [index EXCEPT ![m] = [d \in Dir |-> IF @[d] = from THEN to ELSE @[d]]]
  ELSE index

(* The three ways through Poll_del_event_.                                 *)
DelAlreadyDeleted(c, d) ==
  /\ ~Set(c, d)
  /\ UNCHANGED <<Events, nEvents, index>>

DelSlot(c, d) ==
  LET i     == index[c][d]
      last  == nEvents - 1
      moved == Retarget(files[Events[last].fd], last, i)
  IN
  /\ Set(c, d) /\ ~Set(c, Peer(d))
  /\ nEvents' = last
  /\ IF i < last
     THEN /\ Events' = [Events EXCEPT ![i] = Events[last]]
          /\ index'  = [moved EXCEPT ![c][d] = INVALID_INDEX]
     ELSE /\ index' = [index EXCEPT ![c][d] = INVALID_INDEX]
          /\ UNCHANGED Events

DelFromPeerSlot_KeepBit(c, d) ==         \* mutant: the bit stays in the slot
  /\ Set(c, d) /\ Set(c, Peer(d))
  /\ index'  = [index EXCEPT ![c][d] = INVALID_INDEX]
  /\ UNCHANGED <<Events, nEvents>>

DelFromPeerSlot(c, d) ==
  /\ Set(c, d) /\ Set(c, Peer(d))
  /\ Events' = [Events EXCEPT ![index[c][Peer(d)]].events = @ \ {d}]
  /\ index'  = [index EXCEPT ![c][d] = INVALID_INDEX]
  /\ UNCHANGED nEvents

Poll_del_event(c, d) ==
  /\ IsOpen(c)
  /\ active' = [active EXCEPT ![c][d] = FALSE]
  /\ DelAlreadyDeleted(c, d) \/ DelSlot(c, d) \/ DelFromPeerSlot(c, d)
  /\ UNCHANGED connVars

Next ==
  \E c \in Conn :
    \/ \E f \in Fd : GetConnection(c, f)
    \/ CloseConnection(c)
    \/ \E d \in Dir : Poll_add_event(c, d)
    \/ \E d \in Dir : Poll_del_event(c, d)

Spec == Init /\ [][Next]_pollVars

-----------------------------------------------------------------------------
Live == 0 .. nEvents - 1            \* the slots poll() is given

(* Every variable has its type; nEvents_ never passes the array's size.    *)
TypeOK ==
  /\ Events \in [Slot -> [fd : Fd \cup {NoFd}, events : SUBSET Dir]]
  /\ nEvents \in 0 .. connection_n
  /\ index \in [Conn -> [Dir -> Slot \cup {0, INVALID_INDEX}]]
  /\ active \in [Conn -> [Dir -> BOOLEAN]]
  /\ fd \in [Conn -> Fd \cup {NoFd}]
  /\ files \in [Fd -> Conn \cup {NoConn}]

(* files_ leads from the descriptor of an open connection back to it.      *)
FilesInv == \A c \in Conn : IsOpen(c) => files[fd[c]] = c

(* The back index of a registered event names a live slot that has the     *)
(* descriptor and the bit of the event, and an event is active exactly     *)
(* when it is registered.                                                  *)
IndexInv ==
  \A c \in Conn, d \in Dir : IsOpen(c) =>
    /\ active[c][d] <=> Set(c, d)
    /\ Set(c, d) => /\ index[c][d] \in Live
                    /\ Events[index[c][d]].fd = fd[c]

(* Every live slot belongs to one open connection: the slot's descriptor   *)
(* leads to a connection, and its bits are exactly the events of that      *)
(* connection whose index is the slot.  No slot is watched for nobody, no  *)
(* event is watched in a slot it does not know of.                         *)
SlotInv ==
  \A i \in Live :
    /\ Events[i].fd \in Fd
    /\ files[Events[i].fd] \in Conn
    /\ LET c == files[Events[i].fd] IN
       /\ fd[c] = Events[i].fd
       /\ Events[i].events = {d \in Dir : index[c][d] = i}
       /\ Events[i].events # {}

(* Two registered events of one connection share one slot, and events of   *)
(* two connections never do: poll() is given each descriptor once.         *)
OneSlotPerConnection ==
  \A c1, c2 \in Conn : \A d1, d2 \in Dir :
    /\ IsOpen(c1) /\ Set(c1, d1)
    /\ IsOpen(c2) /\ Set(c2, d2)
    => (index[c1][d1] = index[c2][d2] <=> c1 = c2)

(* The array never needs more slots than there are open connections, so    *)
(* the write to Events_[nEvents_] stays inside it.                         *)
OpenConns == {c \in Conn : IsOpen(c)}
WithinArray == nEvents <= Cardinality(OpenConns)

(* The interest the kernel sees is that of InterestSet: whatever slots     *)
(* move, each call changes the watching of its own event only.             *)
Interest == {p \in Fd \X Dir :
               \E i \in Live : Events[i].fd = p[1] /\ p[2] \in Events[i].events}
IS == INSTANCE InterestSet WITH opened   <- {fd[c] : c \in OpenConns},
                                interest <- Interest
ImplementsInterestSet == IS!Spec
=============================================================================
