-------------------------- MODULE EventLoop_proof --------------------------
(***************************************************************************)
(* Theorems about the poll module and the event loop on top of it, for     *)
(* every finite set of connections, every set of descriptors and listening *)
(* connections and every bound on handlers and timers.                     *)
(*                                                                         *)
(* First the registration table alone (PollSet).  None of IndexInv,        *)
(* SlotInv and OneSlotPerConnection is inductive alone: Poll_del_event_    *)
(* moves the last slot and looks its owner up in files_, so the owner must *)
(* be the right one (FilesInv, SlotInv), its indices must be the old place *)
(* (IndexInv), and nobody else may have them (OneSlotPerConnection).  IInv *)
(* is their conjunction.                                                   *)
(*                                                                         *)
(* Then one process's loop (EventLoop): the table keeps its invariant      *)
(* whatever the handlers do, so the workaround for closed descriptors is   *)
(* dead code; the flags and the queues of posted events agree; and the     *)
(* queues are drained in the order Process_events_and_timers() means.      *)
(*                                                                         *)
(* Last the loop whose handlers close connections too early                *)
(* (UnexpectedEvent): the workaround is needed, and does what it is for.   *)
(***************************************************************************)
EXTENDS UnexpectedEvent, FiniteSetTheorems, SequenceTheorems, TLAPS


IInv ==
  /\ TypeOK
  /\ FilesInv
  /\ IndexInv
  /\ SlotInv
  /\ OneSlotPerConnection

(* connection_n is a natural number, so 0 .. connection_n - 1 is a set of  *)
(* slots, and neither INVALID_INDEX nor the fd -1 is a legal value.        *)
LEMMA Basics ==
  /\ connection_n \in Nat
  /\ Slot \subseteq Nat
  /\ INVALID_INDEX \notin Nat /\ INVALID_INDEX \in Int
  /\ \A d \in Dir : Peer(d) \in Dir /\ Peer(d) # d
  /\ \A d, e \in Dir : e = d \/ e = Peer(d)
BY ConnAssumption, FS_CardinalityType
   DEF connection_n, Slot, INVALID_INDEX, Dir, Peer

(* Two slots never have the same owner, so there are no more slots than    *)
(* connections that own one.                                               *)
LEMMA SlotsFit ==
  ASSUME IInv, NEW T \in SUBSET Conn,
         \A n \in Live : files[Events[n].fd] \in T
  PROVE  nEvents <= Cardinality(T)
<1> DEFINE owner == [n \in Live |-> files[Events[n].fd]]
<1>1. nEvents \in Nat
  BY DEF IInv, TypeOK
<1>2. IsFiniteSet(T) /\ Cardinality(T) \in Nat
  BY ConnAssumption, FS_Subset, FS_CardinalityType
<1>3. IsFiniteSet(Live) /\ Cardinality(Live) = nEvents
  BY <1>1, FS_Interval DEF Live
<1>4. owner \in [Live -> T]
  OBVIOUS
<1>5. ASSUME NEW n \in Live, NEW j \in Live, owner[n] = owner[j]
      PROVE  n = j
  <2>1. SlotInv!(n) /\ SlotInv!(j)
    BY DEF IInv, SlotInv
  <2>2. PICK d \in Dir : index[owner[n]][d] = n
    BY <2>1
  <2>3. PICK e \in Dir : index[owner[j]][e] = j
    BY <2>1
  <2>4. Set(owner[n], d) /\ Set(owner[j], e) /\ IsOpen(owner[n])
    BY <2>1, <2>2, <2>3, Basics, <1>1, FdAssumption DEF Set, Live, IsOpen
  <2> QED
    BY <1>5, <2>1, <2>2, <2>3, <2>4 DEF IInv, OneSlotPerConnection
<1>6. ~(Cardinality(T) < Cardinality(Live))
  <2> HIDE DEF owner
  <2> QED BY <1>2, <1>3, <1>4, <1>5, FS_PigeonHole
<1> QED
  BY <1>1, <1>2, <1>3, <1>6

(* Poll_add_event_ writes Events_[nEvents_] without looking at the size of *)
(* the array; the slot is there, because a connection that takes a new     *)
(* slot owns none of those in use.                                         *)
LEMMA RoomForOneMore ==
  ASSUME IInv, NEW c \in Conn, \A d \in Dir : ~Set(c, d)
  PROVE  nEvents < connection_n
<1> DEFINE T == Conn \ {c}
<1>1. nEvents \in Nat /\ connection_n \in Nat
  BY Basics DEF IInv, TypeOK
<1>2. Cardinality(T) = connection_n - 1
  BY ConnAssumption, FS_RemoveElement DEF connection_n
<1>3. ASSUME NEW n \in Live
      PROVE  files[Events[n].fd] \in T
  <2>1. SlotInv!(n)
    BY DEF IInv, SlotInv
  <2>2. \A d \in Dir : index[c][d] # n
    BY Basics, <1>1 DEF Set, Live
  <2> QED
    BY <2>1, <2>2
<1>4. nEvents <= Cardinality(T)
  BY <1>3, SlotsFit
<1> QED
  BY <1>1, <1>2, <1>4

(* Setting one index of one connection keeps the type of the index table.  *)
LEMMA UpdateType ==
  ASSUME NEW S, NEW R \in [Conn -> [Dir -> S]],
         NEW c \in Conn, NEW d \in Dir, NEW v \in S
  PROVE  [R EXCEPT ![c][d] = v] \in [Conn -> [Dir -> S]]
OBVIOUS

(* Poll_init_ and init_connections_events() establish the invariant.       *)
LEMMA InitIInv == Init => IInv
BY Basics, FdAssumption, ConnAssumption
   DEF Init, IInv, TypeOK, FilesInv, IndexInv, SlotInv, OneSlotPerConnection,
       IsOpen, Set, Live, Slot

(* A new connection has no index, so it owns no slot, and the files_ entry *)
(* it takes over is nobody's.                                              *)
LEMMA GetConnectionIInv ==
  ASSUME IInv, NEW c \in Conn, NEW f \in Fd, GetConnection(c, f)
  PROVE  IInv'
<1> USE DEF GetConnection
<1>1. TypeOK'
  BY DEF IInv, TypeOK, INVALID_INDEX, NoFd
<1>2. FilesInv'
  BY DEF IInv, TypeOK, FilesInv, IsOpen
<1>3. IndexInv'
  BY DEF IInv, TypeOK, IndexInv, IsOpen, Set, Live
<1>4. SlotInv'
  <2> SUFFICES ASSUME NEW n \in Live
               PROVE  SlotInv!(n)'
    BY DEF SlotInv, Live
  <2>1. SlotInv!(n)
    BY DEF IInv, SlotInv
  <2>2. Events[n].fd # f /\ files[Events[n].fd] # c
    BY <2>1, FdAssumption DEF IsOpen
  <2> QED
    BY <2>1, <2>2 DEF IInv, TypeOK
<1>5. OneSlotPerConnection'
  BY DEF IInv, TypeOK, OneSlotPerConnection, IsOpen, Set
<1> QED
  BY <1>1, <1>2, <1>3, <1>4, <1>5 DEF IInv

(* A connection is closed with no event active, so it owns no slot and no  *)
(* slot is orphaned.                                                       *)
LEMMA CloseConnectionIInv ==
  ASSUME IInv, NEW c \in Conn, CloseConnection(c)
  PROVE  IInv'
<1> USE DEF CloseConnection, tableVars
<1>1. TypeOK'
  BY DEF IInv, TypeOK
<1>2. FilesInv'
  BY DEF IInv, TypeOK, FilesInv, IsOpen
<1>3. IndexInv'
  BY DEF IInv, TypeOK, IndexInv, IsOpen, Set, Live
<1>4. SlotInv'
  <2> SUFFICES ASSUME NEW n \in Live
               PROVE  SlotInv!(n)'
    BY DEF SlotInv, Live
  <2>1. SlotInv!(n)
    BY DEF IInv, SlotInv
  <2>2. files[Events[n].fd] # c
    <3>1. \A d \in Dir : index[c][d] \notin Live
      BY Basics DEF IInv, TypeOK, IndexInv, Set, Live
    <3> QED BY <2>1, <3>1
  <2> QED
    BY <2>1, <2>2 DEF IInv, TypeOK
<1>5. OneSlotPerConnection'
  BY DEF IInv, TypeOK, OneSlotPerConnection, IsOpen, Set
<1> QED
  BY <1>1, <1>2, <1>3, <1>4, <1>5 DEF IInv

(* A step that changes no variable keeps the invariant.                    *)
LEMMA StutterIInv ==
  ASSUME IInv, UNCHANGED pollVars
  PROVE  IInv'
<1> USE DEF pollVars
<1>1. TypeOK'
  BY DEF IInv, TypeOK
<1>2. FilesInv'
  BY DEF IInv, FilesInv, IsOpen
<1>3. IndexInv'
  BY DEF IInv, IndexInv, IsOpen, Set, Live
<1>4. SlotInv'
  BY DEF IInv, SlotInv, Live
<1>5. OneSlotPerConnection'
  BY DEF IInv, OneSlotPerConnection, IsOpen, Set
<1> QED
  BY <1>1, <1>2, <1>3, <1>4, <1>5 DEF IInv

(* Adding an event that is already registered changes nothing: it was      *)
(* active before.                                                          *)
LEMMA AddAlreadySetIInv ==
  ASSUME IInv, NEW c \in Conn, NEW d \in Dir, IsOpen(c), AddAlreadySet(c, d),
         active' = [active EXCEPT ![c][d] = TRUE], UNCHANGED connVars
  PROVE  IInv'
<1>1. active[c][d]
  BY DEF IInv, IndexInv, AddAlreadySet
<1>2. active' = active
  BY <1>1 DEF IInv, TypeOK
<1>3. UNCHANGED pollVars
  BY <1>2 DEF AddAlreadySet, connVars, pollVars
<1> QED
  BY <1>3, StutterIInv

(* The first event of a connection takes the slot behind the last one.     *)
LEMMA AddNewSlotIInv ==
  ASSUME IInv, NEW c \in Conn, NEW d \in Dir, IsOpen(c), AddNewSlot(c, d),
         active' = [active EXCEPT ![c][d] = TRUE], UNCHANGED connVars
  PROVE  IInv'
<1> USE DEF AddNewSlot, connVars
<1>0. \A e \in Dir : ~Set(c, e)
  BY Basics
<1>1. nEvents \in Slot /\ nEvents \in Nat
  BY <1>0, RoomForOneMore, Basics DEF IInv, TypeOK, Slot
<1>2. TypeOK'
  <2>1. nEvents' \in 0 .. connection_n
    BY <1>0, RoomForOneMore, Basics DEF IInv, TypeOK
  <2>2. fd[c] \in Fd /\ {d} \in SUBSET Dir
    BY DEF IInv, TypeOK, IsOpen
  <2> QED
    BY <1>1, <2>1, <2>2 DEF IInv, TypeOK
<1>3. FilesInv'
  BY DEF IInv, FilesInv, IsOpen
<1>4. Live' = Live \cup {nEvents}
  BY <1>1 DEF Live
<1>5. \A n \in Live : n # nEvents /\ n \in Slot /\ Events'[n] = Events[n]
  BY <1>1, Basics DEF Live, IInv, TypeOK, Slot
<1>6. Events'[nEvents] = [fd |-> fd[c], events |-> {d}]
  BY <1>1 DEF IInv, TypeOK
<1>7. \A x \in Conn, e \in Dir :
        index'[x][e] = IF x = c /\ e = d THEN nEvents ELSE index[x][e]
  BY DEF IInv, TypeOK
<1>8. IndexInv'
  <2> SUFFICES ASSUME NEW x \in Conn, NEW e \in Dir, IsOpen(x)
               PROVE  /\ active'[x][e] <=> Set(x, e)'
                      /\ Set(x, e)' => /\ index'[x][e] \in Live'
                                       /\ Events'[index'[x][e]].fd = fd[x]
    BY DEF IndexInv, IsOpen
  <2>1. CASE x = c /\ e = d
    BY <2>1, <1>1, <1>4, <1>6, <1>7, Basics DEF Set, IInv, TypeOK
  <2>2. CASE ~(x = c /\ e = d)
    BY <2>2, <1>4, <1>5, <1>7 DEF Set, IInv, TypeOK, IndexInv
  <2> QED BY <2>1, <2>2
<1>9. SlotInv'
  <2> SUFFICES ASSUME NEW n \in Live \cup {nEvents}
               PROVE  SlotInv!(n)'
    BY <1>4 DEF SlotInv
  <2>1. CASE n = nEvents
    <3>1. files[fd[c]] = c /\ fd[c] \in Fd
      BY DEF IInv, TypeOK, FilesInv, IsOpen
    <3>2. index[c][Peer(d)] # nEvents
      BY <1>1, Basics DEF Set
    <3>3. {e \in Dir : index'[c][e] = nEvents} = {d}
      BY <1>7, <3>2, Basics
    <3> QED
      BY <2>1, <3>1, <3>3, <1>6
  <2>2. CASE n \in Live
    <3>1. SlotInv!(n)
      BY <2>2 DEF IInv, SlotInv
    <3> DEFINE o == files[Events[n].fd]
    <3>2. {e \in Dir : index'[o][e] = n} = {e \in Dir : index[o][e] = n}
      BY <1>5, <1>7, <2>2, <3>1, <1>0, <1>1, Basics DEF Set, Live
    <3> QED
      BY <2>2, <3>1, <3>2, <1>5
  <2> QED BY <2>1, <2>2
<1>10. OneSlotPerConnection'
  <2>1. \A x \in Conn, e \in Dir : IsOpen(x) /\ Set(x, e) =>
          index[x][e] \in Live
    BY DEF IInv, IndexInv
  <2>2. \A x \in Conn, e \in Dir : IsOpen(x) /\ Set(x, e) =>
          index[x][e] # nEvents
    BY <2>1, <1>5
  <2> QED
    BY <1>0, <1>7, <2>2, Basics DEF IInv, OneSlotPerConnection, IsOpen, Set
<1> QED
  BY <1>2, <1>3, <1>8, <1>9, <1>10 DEF IInv

(* The second event of a connection adds its bit to the slot of the first. *)
LEMMA AddToPeerSlotIInv ==
  ASSUME IInv, NEW c \in Conn, NEW d \in Dir, IsOpen(c), AddToPeerSlot(c, d),
         active' = [active EXCEPT ![c][d] = TRUE], UNCHANGED connVars
  PROVE  IInv'
<1> USE DEF AddToPeerSlot, connVars
<1> DEFINE s == index[c][Peer(d)]
<1>1. /\ Peer(d) \in Dir /\ Peer(d) # d
      /\ s \in Live /\ Events[s].fd = fd[c] /\ fd[c] \in Fd
      /\ files[fd[c]] = c
  BY Basics DEF IInv, TypeOK, FilesInv, IndexInv, IsOpen
<1>2. Live' = Live /\ Live \subseteq Slot
  BY Basics DEF Live, IInv, TypeOK, Slot
<1>3. \A n \in Live :
        /\ Events'[n].fd = Events[n].fd
        /\ Events'[n].events = IF n = s THEN Events[n].events \cup {d}
                                         ELSE Events[n].events
  BY <1>1, <1>2 DEF IInv, TypeOK
<1>4. \A x \in Conn, e \in Dir :
        index'[x][e] = IF x = c /\ e = d THEN s ELSE index[x][e]
  <2>1. \A x \in Conn : DOMAIN index[x] = Dir /\ DOMAIN index = Conn
    BY DEF IInv, TypeOK
  <2>2. index' = [index EXCEPT ![c][d] = s]
    OBVIOUS
  <2> HIDE DEF s, AddToPeerSlot, connVars
  <2>3. \A x \in Conn : index'[x] = IF x = c THEN [index[c] EXCEPT ![d] = s] ELSE index[x]
    BY <2>1, <2>2
  <2>4. \A e \in Dir : [index[c] EXCEPT ![d] = s][e] = IF e = d THEN s ELSE index[c][e]
    BY <2>1
  <2>5. ASSUME NEW x \in Conn, NEW e \in Dir, x # c PROVE index'[x][e] = index[x][e]
    BY <2>3, <2>5
  <2>6. ASSUME NEW e \in Dir
        PROVE  index'[c][e] = IF e = d THEN s ELSE index[c][e]
    BY <2>3, <2>4
  <2> SUFFICES ASSUME NEW x \in Conn, NEW e \in Dir
               PROVE  index'[x][e] = IF x = c /\ e = d THEN s ELSE index[x][e]
    OBVIOUS
  <2>7. CASE x = c
    BY <2>6, <2>7
  <2>8. CASE x # c
    BY <2>5, <2>8
  <2> QED
    BY <2>7, <2>8
<1>5. TypeOK'
  <2>1. s \in Slot
    BY <1>1, <1>2
  <2>2. Events' \in [Slot -> [fd : Fd \cup {NoFd}, events : SUBSET Dir]]
    <3>1. Events' = [Events EXCEPT ![s].events = Events[s].events \cup {d}]
      OBVIOUS
    <3> HIDE DEF s, AddToPeerSlot, connVars
    <3> QED
      BY <2>1, <3>1 DEF IInv, TypeOK
  <2>3. /\ index' \in [Conn -> [Dir -> Slot \cup {0, INVALID_INDEX}]]
        /\ active' \in [Conn -> [Dir -> BOOLEAN]]
    BY <2>1 DEF IInv, TypeOK
  <2> QED
    BY <2>2, <2>3 DEF IInv, TypeOK
<1>6. FilesInv'
  BY DEF IInv, FilesInv, IsOpen
<1>7. IndexInv'
  <2> SUFFICES ASSUME NEW x \in Conn, NEW e \in Dir, IsOpen(x)
               PROVE  /\ active'[x][e] <=> Set(x, e)'
                      /\ Set(x, e)' => /\ index'[x][e] \in Live
                                       /\ Events'[index'[x][e]].fd = fd[x]
    BY <1>2 DEF IndexInv, IsOpen
  <2>1. CASE x = c /\ e = d
    BY <2>1, <1>1, <1>3, <1>4 DEF Set, IInv, TypeOK
  <2>2. CASE ~(x = c /\ e = d)
    BY <2>2, <1>3, <1>4 DEF Set, IInv, TypeOK, IndexInv
  <2> QED BY <2>1, <2>2
<1>8. SlotInv'
  <2> SUFFICES ASSUME NEW n \in Live
               PROVE  SlotInv!(n)'
    BY <1>2 DEF SlotInv
  <2>1. SlotInv!(n)
    BY DEF IInv, SlotInv
  <2>2. CASE n = s
    <3>1. {e \in Dir : index'[c][e] = n} = {e \in Dir : index[c][e] = n} \cup {d}
      <4>1. \A e \in Dir : index'[c][e] = n <=> index[c][e] = n \/ e = d
        BY <2>2, <1>4
      <4> QED
        BY <4>1
    <3> QED
      BY <2>1, <2>2, <3>1, <1>1, <1>3
  <2>3. CASE n # s
    <3> DEFINE o == files[Events[n].fd]
    <3>1. ~(o = c /\ index[c][d] = n)
      BY Basics, <1>2 DEF Set, Slot
    <3>2. {e \in Dir : index'[o][e] = n} = {e \in Dir : index[o][e] = n}
      BY <2>1, <2>3, <3>1, <1>4
    <3> QED
      BY <2>1, <2>3, <3>2, <1>3
  <2> QED BY <2>2, <2>3
<1>9. OneSlotPerConnection'
  BY <1>1, <1>4 DEF IInv, OneSlotPerConnection, IsOpen, Set
<1> QED
  BY <1>5, <1>6, <1>7, <1>8, <1>9 DEF IInv

(* Deleting an event that is not registered changes nothing.               *)
LEMMA DelAlreadyDeletedIInv ==
  ASSUME IInv, NEW c \in Conn, NEW d \in Dir, IsOpen(c),
         DelAlreadyDeleted(c, d),
         active' = [active EXCEPT ![c][d] = FALSE], UNCHANGED connVars
  PROVE  IInv'
<1>1. ~active[c][d]
  BY DEF IInv, IndexInv, DelAlreadyDeleted
<1>2. active' = active
  BY <1>1 DEF IInv, TypeOK
<1>3. UNCHANGED pollVars
  BY <1>2 DEF DelAlreadyDeleted, connVars, pollVars
<1> QED
  BY <1>3, StutterIInv

(* One of a connection's two events leaves the slot they share.            *)
LEMMA DelFromPeerSlotIInv ==
  ASSUME IInv, NEW c \in Conn, NEW d \in Dir, IsOpen(c),
         DelFromPeerSlot(c, d),
         active' = [active EXCEPT ![c][d] = FALSE], UNCHANGED connVars
  PROVE  IInv'
<1> USE DEF DelFromPeerSlot, connVars
<1> DEFINE s == index[c][Peer(d)]
<1>1. /\ Peer(d) \in Dir /\ Peer(d) # d
      /\ s \in Live /\ Events[s].fd = fd[c] /\ fd[c] \in Fd
      /\ files[fd[c]] = c /\ index[c][d] = s
  BY Basics DEF IInv, TypeOK, FilesInv, IndexInv, IsOpen, OneSlotPerConnection
<1>2. Live' = Live /\ Live \subseteq Slot /\ INVALID_INDEX \notin Live
  BY Basics DEF Live, IInv, TypeOK, Slot
<1>3. \A n \in Live :
        /\ Events'[n].fd = Events[n].fd
        /\ Events'[n].events = IF n = s THEN Events[n].events \ {d}
                                         ELSE Events[n].events
  BY <1>1, <1>2 DEF IInv, TypeOK
<1>4. \A x \in Conn, e \in Dir :
        index'[x][e] = IF x = c /\ e = d THEN INVALID_INDEX ELSE index[x][e]
  BY DEF IInv, TypeOK
<1>5. TypeOK'
  BY <1>1, <1>2 DEF IInv, TypeOK
<1>6. FilesInv'
  BY DEF IInv, FilesInv, IsOpen
<1>7. IndexInv'
  <2> SUFFICES ASSUME NEW x \in Conn, NEW e \in Dir, IsOpen(x)
               PROVE  /\ active'[x][e] <=> Set(x, e)'
                      /\ Set(x, e)' => /\ index'[x][e] \in Live
                                       /\ Events'[index'[x][e]].fd = fd[x]
    BY <1>2 DEF IndexInv, IsOpen
  <2>1. CASE x = c /\ e = d
    BY <2>1, <1>4 DEF Set, IInv, TypeOK
  <2>2. CASE ~(x = c /\ e = d)
    BY <2>2, <1>3, <1>4 DEF Set, IInv, TypeOK, IndexInv
  <2> QED BY <2>1, <2>2
<1>8. SlotInv'
  <2> SUFFICES ASSUME NEW n \in Live
               PROVE  SlotInv!(n)'
    BY <1>2 DEF SlotInv
  <2>1. SlotInv!(n)
    BY DEF IInv, SlotInv
  <2>2. CASE n = s
    <3>1. {e \in Dir : index'[c][e] = n} = {e \in Dir : index[c][e] = n} \ {d}
      <4>1. \A e \in Dir : index'[c][e] = n <=> index[c][e] = n /\ e # d
        BY <2>2, <1>2, <1>4
      <4> QED
        BY <4>1
    <3>2. Peer(d) \in {e \in Dir : index'[c][e] = n}
      BY <2>2, <1>1, <1>4
    <3>3. Events[n].events = {e \in Dir : index[c][e] = n}
      BY <2>1, <2>2, <1>1
    <3>4. /\ Events'[n].fd = fd[c]
          /\ Events'[n].events = {e \in Dir : index'[c][e] = n}
          /\ Events'[n].events # {}
      <4>1. Events'[n].fd = Events[n].fd /\ Events'[n].events = Events[n].events \ {d}
        BY <2>2, <1>3
      <4>2. Events'[n].events = {e \in Dir : index'[c][e] = n}
        BY <3>1, <3>3, <4>1, Zenon
      <4>3. Events'[n].events # {}
        BY <3>2, <4>2, Zenon
      <4> QED
        BY <2>2, <1>1, <4>1, <4>2, <4>3
    <3>5. Events'[n].fd \in Fd /\ files'[Events'[n].fd] = c /\ fd'[c] = fd[c]
      BY <3>4, <1>1
    <3> QED
      BY <3>4, <3>5
  <2>3. CASE n # s
    <3> DEFINE o == files[Events[n].fd]
    <3>1. {e \in Dir : index'[o][e] = n} = {e \in Dir : index[o][e] = n}
      BY <2>1, <2>3, <1>1, <1>2, <1>4
    <3> QED
      BY <2>1, <2>3, <3>1, <1>3
  <2> QED BY <2>2, <2>3
<1>9. OneSlotPerConnection'
  BY <1>1, <1>4 DEF IInv, OneSlotPerConnection, IsOpen, Set
<1> QED
  BY <1>5, <1>6, <1>7, <1>8, <1>9 DEF IInv

(* The only event of a connection gives its slot up and the last slot is   *)
(* moved there.  Its owner m is another connection, whose indices all      *)
(* follow the slot; nobody else had them.                                  *)
LEMMA DelSlotIInv ==
  ASSUME IInv, NEW c \in Conn, NEW d \in Dir, IsOpen(c), DelSlot(c, d),
         active' = [active EXCEPT ![c][d] = FALSE], UNCHANGED connVars
  PROVE  IInv'
<1> DEFINE n    == index[c][d]
           last == nEvents - 1
           m    == files[Events[last].fd]
<1>1. /\ n \in Live /\ Events[n].fd = fd[c] /\ fd[c] \in Fd /\ files[fd[c]] = c
      /\ Set(c, d) /\ ~Set(c, Peer(d))
  BY DEF DelSlot, IInv, TypeOK, FilesInv, IndexInv, IsOpen
<1>2. /\ nEvents \in Nat /\ last \in Live /\ nEvents' = last
      /\ Live' = Live \ {last} /\ Live \subseteq Slot
      /\ INVALID_INDEX \notin Live
  BY <1>1, Basics DEF Live, IInv, TypeOK, Slot, DelSlot
<1>3. SlotInv!(last)
  BY <1>2 DEF IInv, SlotInv
<1>4. \A e \in Dir : index[c][e] = n <=> e = d
  BY <1>1, <1>2, Basics DEF Set
<1>5. m = c <=> n = last
  BY <1>1, <1>3, <1>4, Basics, <1>2 DEF Set
<1>6. \A j \in Live' : Events'[j] = IF j = n THEN Events[last] ELSE Events[j]
  <2>1. CASE n = last
    BY <2>1, <1>2 DEF DelSlot
  <2>2. CASE n # last
    <3>1. n < last
      BY <2>2, <1>1, <1>2 DEF Live
    <3>2. Events' = [Events EXCEPT ![n] = Events[last]]
      BY <3>1 DEF DelSlot
    <3> QED
      BY <3>2, <1>2 DEF IInv, TypeOK
  <2> QED BY <2>1, <2>2
<1>7. \A x \in Conn, e \in Dir :
        index'[x][e] = IF x = c /\ e = d THEN INVALID_INDEX
                       ELSE IF x = m /\ index[m][e] = last THEN n
                       ELSE index[x][e]
  <2>1. CASE n = last
    <3>1. index' = [index EXCEPT ![c][d] = INVALID_INDEX]
      BY <2>1 DEF DelSlot, IInv, TypeOK, Live
    <3> QED
      BY <2>1, <3>1, <1>4, <1>5 DEF IInv, TypeOK
  <2>2. CASE n # last
    <3>1. n < last
      BY <2>2, <1>1, <1>2 DEF Live
    <3>2. index' = [Retarget(m, last, n) EXCEPT ![c][d] = INVALID_INDEX]
      BY <3>1 DEF DelSlot
    <3>3. m \in Conn /\ IsOpen(m) /\ m # c
      BY <2>2, <1>3, <1>5, FdAssumption DEF IsOpen
    <3> QED
      BY <3>2, <3>3 DEF Retarget, IInv, TypeOK
  <2> QED BY <2>1, <2>2
<1>8. TypeOK'
  <2>1. nEvents' \in 0 .. connection_n
    BY <1>2, Basics DEF Live, IInv, TypeOK
  <2>2. Events' \in [Slot -> [fd : Fd \cup {NoFd}, events : SUBSET Dir]]
    BY <1>1, <1>2 DEF DelSlot, IInv, TypeOK
  <2>3. index' \in [Conn -> [Dir -> Slot \cup {0, INVALID_INDEX}]]
    <3>1. INVALID_INDEX \in Slot \cup {0, INVALID_INDEX} /\ n \in Slot
      BY <1>1, <1>2
    <3>2. Retarget(m, last, n) \in [Conn -> [Dir -> Slot \cup {0, INVALID_INDEX}]]
      BY <3>1, <1>3 DEF Retarget, IInv, TypeOK
    <3>3. \/ index' = [Retarget(m, last, n) EXCEPT ![c][d] = INVALID_INDEX]
          \/ index' = [index EXCEPT ![c][d] = INVALID_INDEX]
      BY DEF DelSlot
    <3>4. index \in [Conn -> [Dir -> Slot \cup {0, INVALID_INDEX}]]
      BY DEF IInv, TypeOK
    <3>5. [Retarget(m, last, n) EXCEPT ![c][d] = INVALID_INDEX]
            \in [Conn -> [Dir -> Slot \cup {0, INVALID_INDEX}]]
      BY <3>1, <3>2, UpdateType
    <3>6. [index EXCEPT ![c][d] = INVALID_INDEX]
            \in [Conn -> [Dir -> Slot \cup {0, INVALID_INDEX}]]
      BY <3>1, <3>4, UpdateType
    <3> QED
      BY <3>3, <3>5, <3>6
  <2> QED
    BY <2>1, <2>2, <2>3 DEF IInv, TypeOK, connVars
<1>9. FilesInv'
  BY DEF IInv, FilesInv, IsOpen, connVars
<1>10. \A x \in Conn, e \in Dir : IsOpen(x) /\ Set(x, e) =>
         /\ index[x][e] \in Live /\ Events[index[x][e]].fd = fd[x]
         /\ index[x][e] = last => x = m
         /\ index[x][e] = n => x = c /\ e = d
  BY <1>1, <1>2, <1>3, <1>4 DEF IInv, IndexInv, OneSlotPerConnection, TypeOK, FilesInv, IsOpen
<1>11. IndexInv'
  <2> SUFFICES ASSUME NEW x \in Conn, NEW e \in Dir, IsOpen(x)
               PROVE  /\ active'[x][e] <=> Set(x, e)'
                      /\ Set(x, e)' => /\ index'[x][e] \in Live'
                                       /\ Events'[index'[x][e]].fd = fd[x]
    BY DEF IndexInv, IsOpen, connVars
  <2>1. CASE x = c /\ e = d
    BY <2>1, <1>7 DEF Set, IInv, TypeOK
  <2>2. CASE ~(x = c /\ e = d)
    <3>1. active'[x][e] = active[x][e]
      BY <2>2 DEF IInv, TypeOK
    <3>2. active[x][e] <=> Set(x, e)
      BY DEF IInv, IndexInv
    <3>3. CASE x = m /\ index[m][e] = last
      <4>1. index'[x][e] = n /\ Set(x, e) /\ Set(x, e)'
        BY <2>2, <3>3, <1>1, <1>2, <1>7 DEF Set
      <4>2. n # last
        BY <1>4, <1>5, <2>2, <3>3
      <4> QED
        BY <3>1, <3>2, <3>3, <4>1, <4>2, <1>1, <1>2, <1>3, <1>6
    <3>4. CASE ~(x = m /\ index[m][e] = last)
      <4>1. index'[x][e] = index[x][e]
        BY <2>2, <3>4, <1>7
      <4> QED
        BY <2>2, <3>1, <3>2, <3>4, <4>1, <1>2, <1>6, <1>10 DEF Set
    <3> QED BY <3>3, <3>4
  <2> QED BY <2>1, <2>2
<1>12. SlotInv'
  <2> SUFFICES ASSUME NEW j \in Live'
               PROVE  SlotInv!(j)'
    BY DEF SlotInv
  <2>1. SlotInv!(j) /\ j \in Live /\ j # last
    BY <1>2 DEF IInv, SlotInv
  <2>2. CASE j = n
    <3>1. m # c /\ m \in Conn
      BY <2>1, <2>2, <1>3, <1>5
    <3>2. {e \in Dir : index'[m][e] = n} = {e \in Dir : index[m][e] = last}
      <4>1. \A e \in Dir : index[m][e] # n
        BY <1>2, <1>1, <1>3, <1>10, <3>1, FdAssumption DEF IsOpen, Set
      <4>2. \A e \in Dir : index'[m][e] = n <=> index[m][e] = last
        BY <4>1, <3>1, <1>7
      <4> QED
        BY <4>2
    <3> QED
      BY <2>2, <1>3, <1>6, <3>2 DEF connVars
  <2>3. CASE j # n
    <3> DEFINE o == files[Events[j].fd]
    <3>1. o # c
      <4>1. \A e \in Dir : index[c][e] # j
        BY <2>1, <2>3, <1>1, <1>2, <1>4, Basics DEF Set
      <4> QED BY <2>1, <4>1
    <3>2. {e \in Dir : index'[o][e] = j} = {e \in Dir : index[o][e] = j}
      BY <2>1, <2>3, <3>1, <1>7
    <3> QED
      BY <2>1, <2>3, <3>2, <1>6 DEF connVars
  <2> QED BY <2>2, <2>3
<1>13. OneSlotPerConnection'
  <2> SUFFICES ASSUME NEW x \in Conn, NEW y \in Conn, NEW e \in Dir, NEW g \in Dir,
                      IsOpen(x), Set(x, e)', IsOpen(y), Set(y, g)'
               PROVE  index'[x][e] = index'[y][g] <=> x = y
    BY DEF OneSlotPerConnection, IsOpen, connVars
  <2>1. /\ ~(x = c /\ e = d) /\ ~(y = c /\ g = d)
        /\ Set(x, e) /\ Set(y, g)
    BY <1>7, <1>2, <1>1 DEF Set
  <2>2. index[x][e] = index[y][g] <=> x = y
    BY <2>1 DEF IInv, OneSlotPerConnection
  <2> QED
    BY <2>1, <2>2, <1>7, <1>10
<1> QED
  BY <1>8, <1>9, <1>11, <1>12, <1>13 DEF IInv

(* The invariant is inductive: one step per operation of the table.        *)
LEMMA NextIInv == IInv /\ [Next]_pollVars => IInv'
<1> SUFFICES ASSUME IInv, [Next]_pollVars
             PROVE  IInv'
  OBVIOUS
<1>1. CASE UNCHANGED pollVars
  BY <1>1, StutterIInv
<1>2. ASSUME NEW c \in Conn, NEW f \in Fd, GetConnection(c, f)
      PROVE  IInv'
  BY <1>2, GetConnectionIInv
<1>3. ASSUME NEW c \in Conn, CloseConnection(c)
      PROVE  IInv'
  BY <1>3, CloseConnectionIInv
<1>4. ASSUME NEW c \in Conn, NEW d \in Dir, Poll_add_event(c, d)
      PROVE  IInv'
  BY <1>4, AddAlreadySetIInv, AddNewSlotIInv, AddToPeerSlotIInv
     DEF Poll_add_event
<1>5. ASSUME NEW c \in Conn, NEW d \in Dir, Poll_del_event(c, d)
      PROVE  IInv'
  BY <1>5, DelAlreadyDeletedIInv, DelSlotIInv, DelFromPeerSlotIInv
     DEF Poll_del_event
<1> QED
  BY <1>1, <1>2, <1>3, <1>4, <1>5 DEF Next

-----------------------------------------------------------------------------
(* IInv holds in every state the table can be in.                          *)
THEOREM Invariant == Spec => []IInv
BY InitIInv, NextIInv, PTL DEF Spec

(* Every variable of the table keeps its type; nEvents_ stays within the   *)
(* array that Poll_init_ allocated.                                        *)
THEOREM TypeCorrect == Spec => []TypeOK
BY Invariant, PTL DEF IInv

(* The back index of a registered event names a live slot that has the     *)
(* event's descriptor, whatever slots Poll_del_event_ has moved.           *)
THEOREM IndexCorrect == Spec => []IndexInv
BY Invariant, PTL DEF IInv

(* Every slot handed to poll() belongs to one open connection and watches  *)
(* exactly the events registered there: the "unexpected event" and         *)
(* "unexpected last event" branches are dead while connections are closed  *)
(* after their events are deleted.                                         *)
THEOREM SlotCorrect == Spec => []SlotInv
BY Invariant, PTL DEF IInv

(* poll() is never given the same descriptor in two slots.                 *)
THEOREM OneSlotCorrect == Spec => []OneSlotPerConnection
BY Invariant, PTL DEF IInv

(* The array never holds more slots than there are open connections, so    *)
(* Poll_add_event_ never writes past what Poll_init_ allocated.            *)
THEOREM WithinArrayCorrect == Spec => []WithinArray
<1>1. IInv => WithinArray
  <2> SUFFICES ASSUME IInv, NEW n \in Live
               PROVE  files[Events[n].fd] \in OpenConns
    BY SlotsFit DEF WithinArray, OpenConns
  <2>1. SlotInv!(n)
    BY DEF IInv, SlotInv
  <2> QED
    BY <2>1, FdAssumption DEF OpenConns, IsOpen
<1> QED
  BY <1>1, Invariant, PTL

(* Under the invariant the interest of the slots is the interest of the    *)
(* active flags.                                                           *)
ActiveInterest ==
  {p \in Fd \X Dir : \E c \in Conn : fd[c] = p[1] /\ active[c][p[2]]}

LEMMA InterestIsActive == IInv => Interest = ActiveInterest
<1> SUFFICES ASSUME IInv, NEW f \in Fd, NEW d \in Dir
             PROVE  (\E n \in Live : Events[n].fd = f /\ d \in Events[n].events)
                    <=> (\E c \in Conn : fd[c] = f /\ active[c][d])
  BY DEF Interest, ActiveInterest
<1>1. ASSUME NEW n \in Live, Events[n].fd = f, d \in Events[n].events
      PROVE  \E c \in Conn : fd[c] = f /\ active[c][d]
  <2>1. SlotInv!(n)
    BY DEF IInv, SlotInv
  <2>2. IsOpen(files[f]) /\ Set(files[f], d)
    BY <1>1, <2>1, Basics, FdAssumption DEF IsOpen, Set, Live, IInv, TypeOK
  <2> QED
    BY <1>1, <2>1, <2>2 DEF IInv, IndexInv
<1>2. ASSUME NEW c \in Conn, fd[c] = f, active[c][d]
      PROVE  \E n \in Live : Events[n].fd = f /\ d \in Events[n].events
  <2>1. IsOpen(c)
    BY <1>2, FdAssumption DEF IsOpen
  <2>2. index[c][d] \in Live /\ Events[index[c][d]].fd = f
    BY <1>2, <2>1 DEF IInv, IndexInv
  <2>3. files[f] = c
    BY <1>2, <2>1 DEF IInv, FilesInv
  <2>4. SlotInv!(index[c][d])
    BY <2>2 DEF IInv, SlotInv
  <2> QED
    BY <2>2, <2>3, <2>4
<1> QED BY <1>1, <1>2

(* Every operation of the table is one operation on the interest set, or   *)
(* leaves it alone.                                                        *)
LEMMA NextImplements == IInv /\ IInv' /\ [Next]_pollVars => [IS!Next]_(IS!vars)
<1> SUFFICES ASSUME IInv, IInv', [Next]_pollVars
             PROVE  [IS!Next]_(IS!vars)
  OBVIOUS
<1> DEFINE O == {fd[c] : c \in OpenConns}
<1>0. /\ Interest = {p \in Fd \X Dir :
                      \E c \in Conn : fd[c] = p[1] /\ active[c][p[2]]}
      /\ Interest' = {p \in Fd \X Dir :
                      \E c \in Conn : fd'[c] = p[1] /\ active'[c][p[2]]}
      /\ \A x, y \in Conn : IsOpen(x) /\ fd[x] = fd[y] => x = y
  <2>1. (Interest = ActiveInterest)'
    BY InterestIsActive, PTL
  <2> QED
    BY <2>1, InterestIsActive DEF ActiveInterest, IInv, FilesInv, IsOpen
<1>1. CASE UNCHANGED pollVars
  BY <1>1 DEF pollVars, IS!vars, OpenConns, IsOpen, Interest, Live
<1>2. ASSUME NEW c \in Conn, NEW f \in Fd, GetConnection(c, f)
      PROVE  IS!Next
  <2>1. f \notin O /\ O' = O \cup {f}
    BY <1>2, FdAssumption DEF GetConnection, OpenConns, IsOpen, IInv, TypeOK
  <2>2. UNCHANGED Interest
    BY <1>0, <1>2, FdAssumption DEF GetConnection, IsOpen, IInv, TypeOK
  <2> QED
    BY <2>1, <2>2 DEF IS!Next, IS!Open
<1>3. ASSUME NEW c \in Conn, CloseConnection(c)
      PROVE  IS!Next
  <2>1. fd[c] \in O /\ fd[c] \in Fd /\ O' = O \ {fd[c]}
    BY <1>0, <1>3 DEF CloseConnection, OpenConns, IsOpen, IInv, TypeOK
  <2>2. \A d \in Dir : <<fd[c], d>> \notin Interest
    BY <1>0, <1>3 DEF CloseConnection
  <2>3. UNCHANGED Interest
    BY <1>0, <1>3, FdAssumption
       DEF CloseConnection, tableVars, IsOpen, IInv, TypeOK
  <2> QED
    BY <2>1, <2>2, <2>3 DEF IS!Next, IS!Close
<1>4. ASSUME NEW c \in Conn, NEW d \in Dir, Poll_add_event(c, d)
      PROVE  IS!Next
  <2>1. fd[c] \in O /\ fd[c] \in Fd /\ O' = O
    BY <1>4 DEF Poll_add_event, connVars, OpenConns, IsOpen, IInv, TypeOK
  <2>2. Interest' = Interest \cup {<<fd[c], d>>}
    BY <1>0, <1>4, <2>1 DEF Poll_add_event, connVars, IsOpen, IInv, TypeOK
  <2> QED
    BY <2>1, <2>2 DEF IS!Next, IS!Watch
<1>5. ASSUME NEW c \in Conn, NEW d \in Dir, Poll_del_event(c, d)
      PROVE  IS!Next
  <2>1. fd[c] \in O /\ fd[c] \in Fd /\ O' = O
    BY <1>5 DEF Poll_del_event, connVars, OpenConns, IsOpen, IInv, TypeOK
  <2>2. Interest' = Interest \ {<<fd[c], d>>}
    BY <1>0, <1>5, <2>1 DEF Poll_del_event, connVars, IsOpen, IInv, TypeOK
  <2> QED
    BY <2>1, <2>2 DEF IS!Next, IS!Unwatch
<1> QED
  BY <1>1, <1>2, <1>3, <1>4, <1>5 DEF Next

(* The table of slots implements the set of watched pairs.                 *)
THEOREM Implements == Spec => ImplementsInterestSet
<1>1. Init => IS!Init
  BY DEF Init, IS!Init, OpenConns, IsOpen, Interest, Live
<1> QED
  BY <1>1, Invariant, NextImplements, PTL DEF Spec, ImplementsInterestSet, IS!Spec
-----------------------------------------------------------------------------

(* What holds of the queues at each program point, a handler's being that  *)
(* of the point it returns to: DrainOrder alone does not survive the       *)
(* return of a handler.                                                    *)
At(p) == pc = p \/ (pc = "handler" /\ ret = p)

DrainIInv ==
  /\ At("poll") => Posted_accept_events = <<>> /\ Posted_events = <<>>
  /\ At("expire") \/ At("posted") => Posted_accept_events = <<>>

LoopIInv == IInv /\ LoopTypeOK /\ QueueInv /\ DrainIInv

-----------------------------------------------------------------------------
(* The queue operations on sequences without duplicates.                   *)
LEMMA EmptyQueue == Distinct(<<>>) /\ Linked(<<>>) = {}
BY EmptySeq DEF Distinct, Linked

(* Queue_insert_tail of one event that is not linked yet.                  *)
LEMMA InsertTail ==
  ASSUME NEW S, NEW q \in Seq(S), NEW e \in S, Distinct(q), e \notin Linked(q)
  PROVE  /\ q \o <<e>> \in Seq(S)
         /\ Distinct(q \o <<e>>)
         /\ Linked(q \o <<e>>) = Linked(q) \cup {e}
<1> DEFINE r == q \o <<e>>
<1>1. <<e>> \in Seq(S) /\ Len(<<e>>) = 1
  OBVIOUS
<1>2. /\ r \in Seq(S) /\ Len(r) = Len(q) + 1 /\ Len(q) \in Nat
      /\ \A k \in 1 .. Len(r) : r[k] = IF k <= Len(q) THEN q[k] ELSE e
  BY <1>1, ConcatProperties, LenProperties
<1>3. Distinct(r)
  BY <1>2 DEF Distinct, Linked
<1>4. Linked(r) = Linked(q) \cup {e}
  <2>1. \A k \in 1 .. Len(q) : r[k] = q[k] /\ k \in 1 .. Len(r)
    BY <1>2
  <2>2. Len(r) \in 1 .. Len(r) /\ r[Len(r)] = e
    BY <1>2
  <2>3. \A k \in 1 .. Len(r) : r[k] = e \/ (k \in 1 .. Len(q) /\ r[k] = q[k])
    BY <1>2
  <2> HIDE DEF r
  <2> QED BY <2>1, <2>2, <2>3 DEF Linked
<1> QED BY <1>2, <1>3, <1>4

(* Queue_remove of the head.                                               *)
LEMMA RemoveHead ==
  ASSUME NEW S, NEW q \in Seq(S), q # <<>>, Distinct(q)
  PROVE  /\ Head(q) \in S /\ Head(q) \in Linked(q)
         /\ Tail(q) \in Seq(S) /\ Distinct(Tail(q))
         /\ Linked(Tail(q)) = Linked(q) \ {Head(q)}
<1> DEFINE t == Tail(q)
           n == Len(q)
<1>1. /\ n \in Nat \ {0} /\ Head(q) = q[1] /\ Head(q) \in S
      /\ t \in Seq(S) /\ Len(t) = n - 1
      /\ \A k \in 1 .. n - 1 : t[k] = q[k + 1]
  BY EmptySeq, HeadTailProperties
<1> HIDE DEF t, n
<1>2. \A k \in 1 .. n - 1 : k + 1 \in 1 .. n /\ k + 1 # 1
  BY <1>1
<1>3. \A k \in 1 .. n : k # 1 => k - 1 \in 1 .. n - 1 /\ t[k - 1] = q[k]
  BY <1>1
<1>4. \A j, k \in 1 .. n : q[j] = q[k] => j = k
  BY DEF Distinct, n
<1>5. Linked(q) = {q[k] : k \in 1 .. n} /\ Linked(t) = {t[k] : k \in 1 .. n - 1}
  BY <1>1 DEF Linked, n
<1>6. 1 \in 1 .. n
  BY <1>1
<1>7. Distinct(t)
  BY <1>1, <1>2, <1>4 DEF Distinct
<1>8. Linked(t) = Linked(q) \ {Head(q)}
  <2>1. \A k \in 1 .. n - 1 : t[k] \in {q[m] : m \in 1 .. n} \ {q[1]}
    <3> SUFFICES ASSUME NEW k \in 1 .. n - 1
                 PROVE  t[k] \in {q[m] : m \in 1 .. n} \ {q[1]}
      OBVIOUS
    <3>1. PICK m \in 1 .. n : m = k + 1 /\ m # 1
      BY <1>2
    <3>2. t[k] = q[m]
      BY <1>1, <3>1
    <3>3. q[m] # q[1]
      BY <1>4, <1>6, <3>1
    <3> QED BY <3>2, <3>3
  <2>2. \A k \in 1 .. n : q[k] # q[1] => q[k] \in {t[m] : m \in 1 .. n - 1}
    <3> SUFFICES ASSUME NEW k \in 1 .. n, q[k] # q[1]
                 PROVE  q[k] \in {t[m] : m \in 1 .. n - 1}
      OBVIOUS
    <3> QED BY <1>3
  <2>3. Head(q) = q[1]
    BY <1>1
  <2> QED BY <1>5, <2>1, <2>2, <2>3
<1> QED BY <1>1, <1>5, <1>6, <1>7, <1>8 DEF t

(* Delete_posted_event of an event that may be anywhere in the queue.      *)
LEMMA RemoveAny ==
  ASSUME NEW S, NEW q \in Seq(S), NEW e, Distinct(q)
  PROVE  /\ Unlink(q, e) \in Seq(S)
         /\ Distinct(Unlink(q, e))
         /\ Linked(Unlink(q, e)) = Linked(q) \ {e}
<1>1. CASE e \notin Linked(q)
  BY <1>1 DEF Unlink
<1>2. CASE e \in Linked(q)
  <2> DEFINE n == Len(q)
             k == CHOOSE k \in 1 .. n : q[k] = e
             u == SubSeq(q, 1, k - 1)
             v == SubSeq(q, k + 1, n)
             r == u \o v
  <2>1. n \in Nat /\ k \in 1 .. n /\ q[k] = e
    BY <1>2, LenProperties DEF Linked
  <2>2. Unlink(q, e) = r
    BY <1>2 DEF Unlink
  <2> HIDE DEF k
  <2>3. \A j \in 1 .. n : q[j] \in S
    BY ElementOfSeq
  <2>4. /\ u \in Seq(S) /\ Len(u) = k - 1
        /\ \A j \in 1 .. k - 1 : u[j] = q[j]
    <3>1. \A j \in 1 .. k - 1 : q[j] \in S
      BY <2>1, <2>3
    <3>2. 1 \in Int /\ k - 1 \in Int /\ (k - 1) - 1 + 1 = k - 1
      BY <2>1
    <3>3. /\ u \in Seq(S) /\ Len(u) = IF 1 <= k - 1 THEN (k - 1) - 1 + 1 ELSE 0
          /\ \A j \in 1 .. (k - 1) - 1 + 1 : u[j] = q[1 + j - 1]
      BY <3>1, <3>2, SubSeqProperties
    <3> HIDE DEF u
    <3> QED BY <2>1, <3>3
  <2>5. /\ v \in Seq(S) /\ Len(v) = n - k
        /\ \A j \in 1 .. n - k : v[j] = q[k + j]
    <3>1. \A j \in k + 1 .. n : q[j] \in S
      BY <2>1, <2>3
    <3>2. k + 1 \in Int /\ n \in Int
      BY <2>1
    <3>3. /\ v \in Seq(S) /\ Len(v) = IF k + 1 <= n THEN n - (k + 1) + 1 ELSE 0
          /\ \A j \in 1 .. n - (k + 1) + 1 : v[j] = q[(k + 1) + j - 1]
      BY <3>1, <3>2, SubSeqProperties
    <3> HIDE DEF v
    <3> QED BY <2>1, <3>3
  <2> HIDE DEF u, v
  <2>6. /\ r \in Seq(S) /\ Len(r) = Len(u) + Len(v)
        /\ \A j \in 1 .. Len(u) + Len(v) :
             r[j] = IF j <= Len(u) THEN u[j] ELSE v[j - Len(u)]
    BY <2>4, <2>5, ConcatProperties
  <2> HIDE DEF r
  <2>7. /\ r \in Seq(S) /\ Len(r) = n - 1
        /\ \A j \in 1 .. n - 1 : r[j] = IF j < k THEN q[j] ELSE q[j + 1]
    <3>1. Len(u) + Len(v) = n - 1
      BY <2>1, <2>4, <2>5
    <3>2. ASSUME NEW j \in 1 .. n - 1
          PROVE  r[j] = IF j < k THEN q[j] ELSE q[j + 1]
      <4>1. CASE j < k
        BY <4>1, <3>1, <2>1, <2>4, <2>6
      <4>2. CASE ~(j < k)
        <5>1. j - Len(u) \in 1 .. n - k /\ k + (j - Len(u)) = j + 1
          BY <4>2, <2>1, <2>4
        <5>2. r[j] = v[j - Len(u)]
          <6>1. j \in 1 .. Len(u) + Len(v) /\ ~(j <= Len(u))
            BY <4>2, <3>1, <2>1, <2>4
          <6> QED
            BY <6>1, <2>6
        <5> QED BY <4>2, <5>1, <5>2, <2>5
      <4> QED BY <4>1, <4>2
    <3> QED BY <3>1, <3>2, <2>6
  <2>8. \A i1, i2 \in 1 .. n : q[i1] = q[i2] => i1 = i2
    BY DEF Distinct
  <2> HIDE DEF n
  <2>9. \A j \in 1 .. n - 1 : j \in 1 .. n /\ j + 1 \in 1 .. n
    BY <2>1
  <2>10. Distinct(r)
    <3> SUFFICES ASSUME NEW j1 \in 1 .. n - 1, NEW j2 \in 1 .. n - 1, r[j1] = r[j2]
                 PROVE  j1 = j2
      BY <2>7 DEF Distinct
    <3>1. (IF j1 < k THEN j1 ELSE j1 + 1) = (IF j2 < k THEN j2 ELSE j2 + 1)
      BY <2>7, <2>8, <2>9
    <3> QED BY <3>1, <2>1
  <2>11. \A j \in 1 .. n - 1 : r[j] \in {q[m] : m \in 1 .. n} \ {e}
    BY <2>1, <2>7, <2>8, <2>9
  <2>12. ASSUME NEW m \in 1 .. n, m # k
         PROVE  \E j \in 1 .. n - 1 : r[j] = q[m]
    <3>1. CASE m < k
      <4>1. m \in 1 .. n - 1
        BY <3>1, <2>1
      <4> QED BY <3>1, <4>1, <2>7
    <3>2. CASE m > k
      <4>1. m - 1 \in 1 .. n - 1 /\ ~(m - 1 < k) /\ (m - 1) + 1 = m
        BY <3>2, <2>1
      <4> QED BY <4>1, <2>7
    <3> QED BY <3>1, <3>2, <2>1, <2>12
  <2>13. Linked(r) = Linked(q) \ {e}
    <3>1. Linked(r) = {r[j] : j \in 1 .. n - 1} /\ Linked(q) = {q[m] : m \in 1 .. n}
      BY <2>7 DEF Linked, n
    <3>2. {r[j] : j \in 1 .. n - 1} \subseteq {q[m] : m \in 1 .. n} \ {e}
      BY <2>11
    <3>3. ASSUME NEW y \in {q[m] : m \in 1 .. n} \ {e}
          PROVE  y \in {r[j] : j \in 1 .. n - 1}
      <4>1. PICK m \in 1 .. n : y = q[m] /\ m # k
        BY <2>1
      <4> QED BY <4>1, <2>12
    <3> QED BY <3>1, <3>2, <3>3
  <2> QED BY <2>2, <2>7, <2>10, <2>13
<1> QED BY <1>1, <1>2

(* Both events of a connection are taken out of a queue.                   *)
LEMMA RemoveBoth ==
  ASSUME NEW S, NEW q \in Seq(S), NEW c, Distinct(q)
  PROVE  /\ Without(q, c) \in Seq(S)
         /\ Distinct(Without(q, c))
         /\ Linked(Without(q, c)) = Linked(q) \ {<<c, "read">>, <<c, "write">>}
<1> DEFINE r == Unlink(q, <<c, "read">>)
<1>1. /\ r \in Seq(S) /\ Distinct(r)
      /\ Linked(r) = Linked(q) \ {<<c, "read">>}
  BY RemoveAny
<1> HIDE DEF r
<1>2. /\ Unlink(r, <<c, "write">>) \in Seq(S)
      /\ Distinct(Unlink(r, <<c, "write">>))
      /\ Linked(Unlink(r, <<c, "write">>)) = Linked(r) \ {<<c, "write">>}
  BY <1>1, RemoveAny
<1>3. Without(q, c) = Unlink(r, <<c, "write">>)
  BY DEF Without, r
<1> QED BY <1>1, <1>2, <1>3

-----------------------------------------------------------------------------
(* The two kinds of events, and where the accept events are.               *)
LEMMA LoopBasics ==
  /\ \A c \in Conn, d \in Dir : <<c, d>> \in Event
  /\ \A c \in Conn, d \in Dir : <<c, d>> \in AcceptEvent
                                  <=> c \in Listening /\ d = "read"
  /\ AcceptEvent \subseteq Event
BY LoopAssumption DEF Event, AcceptEvent, Dir

(* While the walk is at slot i, the slot is one poll() was given, and it   *)
(* belongs to an open connection.                                          *)
LEMMA SlotIsOpen ==
  ASSUME IInv, LoopTypeOK, AtSlot
  PROVE  /\ i \in Live /\ Events[i].fd # NoFd
         /\ files[Events[i].fd] \in Conn /\ IsOpen(files[Events[i].fd])
<1>1. i \in Live
  BY Basics DEF AtSlot, LoopTypeOK, IInv, TypeOK, Live
<1>2. SlotInv!(i)
  BY <1>1 DEF IInv, SlotInv
<1> QED
  BY <1>1, <1>2, FdAssumption DEF IsOpen

(* The invariant of the table is untouched by what does not touch the      *)
(* table, and kept by its operations.                                      *)
LEMMA TableStep ==
  ASSUME IInv, LoopTypeOK, [LoopNext]_allVars
  PROVE  IInv'
<1>1. CASE UNCHANGED pollVars
  BY <1>1, NextIInv
<1>2. CASE SkipDisabledSlot \/ DisableClosedSlot
  BY <1>2, SlotIsOpen DEF SkipDisabledSlot, DisableClosedSlot
<1>3. CASE HandlerEvent \/ HandlerOpen \/ HandlerClose
  <2>1. Next
    BY <1>3 DEF HandlerEvent, HandlerOpen, HandlerClose, Next
  <2> QED BY <2>1, NextIInv
<1>4. CASE PollNothing \/ PollReady
  BY <1>1, <1>4 DEF PollNothing, PollReady
<1>5. CASE PostSlot \/ PollDone
  BY <1>1, <1>5 DEF PostSlot, PollDone
<1>6. CASE RunAccept \/ AcceptDone \/ RunTimer \/ ExpireDone
  BY <1>1, <1>6 DEF RunAccept, AcceptDone, RunTimer, ExpireDone
<1>7. CASE RunPosted \/ PostedDone \/ HandlerReturn \/ HandlerPost
  BY <1>1, <1>7 DEF RunPosted, PostedDone, HandlerReturn, HandlerPost
<1>8. CASE UNCHANGED allVars
  BY <1>1, <1>8 DEF allVars
<1> QED
  BY <1>2, <1>3, <1>4, <1>5, <1>6, <1>7, <1>8 DEF LoopNext, LoopStep, Handler

-----------------------------------------------------------------------------
(* QueueInv with the types it needs.                                       *)
QueueTypes ==
  /\ posted \in [Conn -> [Dir -> BOOLEAN]]
  /\ Posted_accept_events \in Seq(Event)
  /\ Posted_events \in Seq(Event)

QueueOK == QueueTypes /\ QueueInv

(* Nothing about the queues changes with the rest of the state, while the  *)
(* connections that are open stay open.                                    *)
LEMMA QueuesAlone ==
  ASSUME QueueOK, UNCHANGED queueVars, \A c \in Conn : IsOpen(c) => IsOpen(c)'
  PROVE  QueueOK'
<1> USE DEF queueVars
<1>1. QueueTypes'
  BY DEF QueueOK, QueueTypes
<1>2. \A e \in Event : e[1] \in Conn
  BY DEF Event
<1>3. QueueInv'
  BY <1>2 DEF QueueOK, QueueInv, Linked, Distinct
<1> QED BY <1>1, <1>3 DEF QueueOK

(* Post_event links the events that were not linked, and no other.         *)
LEMMA PostQueueOK ==
  ASSUME QueueOK, NEW c \in Conn, IsOpen(c), NEW hit \in SUBSET Dir,
         Post(c, hit), UNCHANGED fd
  PROVE  QueueOK'
<1> DEFINE new == {d \in hit : ~posted[c][d]}
           toAccept == "read" \in new /\ c \in Listening
           R == <<c, "read">>
           W == <<c, "write">>
           A == Posted_accept_events
           P == Posted_events
           A1 == A \o One(toAccept, R)
           P1 == P \o One("read" \in new /\ ~toAccept, R)
           P2 == P1 \o One("write" \in new, W)
           flagged == {e \in Event : posted[e[1]][e[2]]}
<1>1. /\ A \in Seq(Event) /\ Distinct(A) /\ Linked(A) = flagged \cap AcceptEvent
      /\ P \in Seq(Event) /\ Distinct(P) /\ Linked(P) = flagged \ AcceptEvent
      /\ \A e \in flagged : IsOpen(e[1])
      /\ posted \in [Conn -> [Dir -> BOOLEAN]]
  BY DEF QueueOK, QueueTypes, QueueInv
<1>2. /\ posted' = [posted EXCEPT ![c] = [d \in Dir |-> @[d] \/ d \in new]]
      /\ Posted_accept_events' = A1
      /\ Posted_events' = P2
  BY DEF Post
<1>3. R \in Event /\ W \in Event /\ R # W
  BY LoopBasics DEF Dir
<1>4. \A d \in Dir : d \in new => <<c, d>> \notin flagged
  BY DEF Event
<1> HIDE DEF new
<1>5. new \subseteq Dir
  BY DEF new
<1>6. posted' \in [Conn -> [Dir -> BOOLEAN]]
  BY <1>1, <1>2
<1>7. {e \in Event : posted'[e[1]][e[2]]} = flagged \cup {<<c, d>> : d \in new}
  <2>1. \A x \in Conn, d \in Dir :
          posted'[x][d] <=> posted[x][d] \/ (x = c /\ d \in new)
    BY <1>1, <1>2
  <2> QED BY <2>1, <1>5 DEF Event
<1>8. \A x : x \in {<<c, d>> : d \in new}
               <=> (x = R /\ "read" \in new) \/ (x = W /\ "write" \in new)
  BY <1>5 DEF Dir
<1> HIDE DEF flagged
<1>9. /\ A1 \in Seq(Event) /\ Distinct(A1)
      /\ \A x : x \in Linked(A1) <=> x \in Linked(A) \/ (x = R /\ toAccept)
  <2>1. CASE toAccept
    <3>1. R \notin Linked(A)
      BY <2>1, <1>1, <1>4 DEF Dir
    <3>2. A1 = A \o <<R>>
      BY <2>1 DEF One
    <3>3. A \in Seq(Event) /\ Distinct(A)
      BY <1>1
    <3>4. /\ A \o <<R>> \in Seq(Event) /\ Distinct(A \o <<R>>)
          /\ Linked(A \o <<R>>) = Linked(A) \cup {R}
      BY <3>1, <3>3, <1>3, InsertTail
    <3> HIDE DEF A1
    <3> QED BY <2>1, <3>2, <3>4
  <2>2. CASE ~toAccept
    <3>1. A1 = A \o <<>>
      BY <2>2 DEF One
    <3>2. A1 = A
      BY <3>1, <1>1, ConcatEmptySeq
    <3>3. A \in Seq(Event) /\ Distinct(A)
      BY <1>1
    <3> HIDE DEF A1
    <3> QED BY <2>2, <3>2, <3>3
  <2> QED BY <2>1, <2>2
<1>10. /\ P1 \in Seq(Event) /\ Distinct(P1)
       /\ \A x : x \in Linked(P1)
                   <=> x \in Linked(P) \/ (x = R /\ "read" \in new /\ ~toAccept)
  <2>1. CASE "read" \in new /\ ~toAccept
    <3>1. R \notin Linked(P)
      BY <2>1, <1>1, <1>4 DEF Dir
    <3>2. P1 = P \o <<R>>
      BY <2>1 DEF One
    <3>3. P \in Seq(Event) /\ Distinct(P)
      BY <1>1
    <3>4. /\ P \o <<R>> \in Seq(Event) /\ Distinct(P \o <<R>>)
          /\ Linked(P \o <<R>>) = Linked(P) \cup {R}
      BY <3>1, <3>3, <1>3, InsertTail
    <3> HIDE DEF P1
    <3> QED BY <2>1, <3>2, <3>4
  <2>2. CASE ~("read" \in new /\ ~toAccept)
    <3>1. P1 = P \o <<>>
      BY <2>2 DEF One
    <3>2. P1 = P
      BY <3>1, <1>1, ConcatEmptySeq
    <3>3. P \in Seq(Event) /\ Distinct(P)
      BY <1>1
    <3> HIDE DEF P1
    <3> QED BY <2>2, <3>2, <3>3
  <2> QED BY <2>1, <2>2
<1>11. /\ P2 \in Seq(Event) /\ Distinct(P2)
       /\ \A x : x \in Linked(P2)
                   <=> x \in Linked(P1) \/ (x = W /\ "write" \in new)
  <2> HIDE DEF P1
  <2>1. CASE "write" \in new
    <3>1. W \notin Linked(P1)
      BY <2>1, <1>1, <1>3, <1>4, <1>10 DEF Dir
    <3>2. P2 = P1 \o <<W>>
      BY <2>1 DEF One
    <3> HIDE DEF P2
    <3> QED BY <2>1, <3>1, <3>2, <1>3, <1>10, InsertTail
  <2>2. CASE "write" \notin new
    <3>1. P2 = P1 \o <<>>
      BY <2>2 DEF One
    <3>2. P2 = P1
      BY <3>1, <1>10, ConcatEmptySeq
    <3> HIDE DEF P2
    <3> QED BY <2>2, <3>2, <1>10
  <2> QED BY <2>1, <2>2
<1> HIDE DEF A1, P1, P2
<1>12. /\ R \in AcceptEvent <=> c \in Listening
       /\ W \notin AcceptEvent
  BY LoopBasics DEF Dir
<1>13. QueueTypes'
  BY <1>2, <1>6, <1>9, <1>11 DEF QueueTypes
<1>14. QueueInv'
  <2>1. \A e \in flagged \cup {<<c, d>> : d \in new} : IsOpen(e[1])'
    BY <1>1 DEF IsOpen
  <2>2. Linked(Posted_accept_events)'
          = (flagged \cup {<<c, d>> : d \in new}) \cap AcceptEvent
    BY <1>1, <1>2, <1>8, <1>9, <1>12
  <2>3. Linked(Posted_events)'
          = (flagged \cup {<<c, d>> : d \in new}) \ AcceptEvent
    BY <1>1, <1>2, <1>8, <1>10, <1>11, <1>12
  <2> QED BY <1>2, <1>7, <1>9, <1>11, <2>1, <2>2, <2>3 DEF QueueInv
<1> QED BY <1>13, <1>14 DEF QueueOK

(* Running a handler unlinks its event and clears the flag.                *)
LEMMA RunQueueOK ==
  ASSUME QueueOK, UNCHANGED fd,
         \/ RunAccept
         \/ RunPosted
  PROVE  QueueOK'
<1> DEFINE A == Posted_accept_events
           P == Posted_events
           flagged == {e \in Event : posted[e[1]][e[2]]}
<1>1. /\ A \in Seq(Event) /\ Distinct(A) /\ Linked(A) = flagged \cap AcceptEvent
      /\ P \in Seq(Event) /\ Distinct(P) /\ Linked(P) = flagged \ AcceptEvent
      /\ \A e \in flagged : IsOpen(e[1])
      /\ posted \in [Conn -> [Dir -> BOOLEAN]]
  BY DEF QueueOK, QueueTypes, QueueInv
<1>2. ASSUME NEW e \in Event, Unpost(e)
      PROVE  /\ posted' \in [Conn -> [Dir -> BOOLEAN]]
             /\ {x \in Event : posted'[x[1]][x[2]]} = flagged \ {e}
  <2>1. PICK c \in Conn, d \in Dir : e = <<c, d>>
    BY DEF Event
  <2>2. posted' = [posted EXCEPT ![c][d] = FALSE]
    BY <1>2, <2>1 DEF Unpost
  <2>3. posted' \in [Conn -> [Dir -> BOOLEAN]]
    BY <1>1, <2>2
  <2>4. \A x \in Conn, y \in Dir :
          posted'[x][y] <=> posted[x][y] /\ <<x, y>> # <<c, d>>
    BY <1>1, <2>2
  <2> QED BY <2>1, <2>3, <2>4 DEF Event
<1>3. CASE RunAccept
  <2>1. A # <<>> /\ Unpost(Head(A)) /\ Posted_accept_events' = Tail(A)
        /\ Posted_events' = P
    BY <1>3 DEF RunAccept
  <2>2. /\ Head(A) \in Event /\ Head(A) \in Linked(A)
        /\ Tail(A) \in Seq(Event) /\ Distinct(Tail(A))
        /\ Linked(Tail(A)) = Linked(A) \ {Head(A)}
    BY <1>1, <2>1, RemoveHead
  <2> HIDE DEF flagged
  <2>3. QueueTypes'
    BY <1>1, <1>2, <2>1, <2>2 DEF QueueTypes
  <2>4. \A e \in flagged : IsOpen(e[1])'
    BY <1>1 DEF IsOpen
  <2>5. QueueInv'
    BY <1>1, <1>2, <2>1, <2>2, <2>4 DEF QueueInv
  <2> QED BY <2>3, <2>5 DEF QueueOK
<1>4. CASE RunPosted
  <2>1. P # <<>> /\ Unpost(Head(P)) /\ Posted_events' = Tail(P)
        /\ Posted_accept_events' = A
    BY <1>4 DEF RunPosted
  <2>2. /\ Head(P) \in Event /\ Head(P) \in Linked(P)
        /\ Tail(P) \in Seq(Event) /\ Distinct(Tail(P))
        /\ Linked(Tail(P)) = Linked(P) \ {Head(P)}
    BY <1>1, <2>1, RemoveHead
  <2> HIDE DEF flagged
  <2>3. QueueTypes'
    BY <1>1, <1>2, <2>1, <2>2 DEF QueueTypes
  <2>4. \A e \in flagged : IsOpen(e[1])'
    BY <1>1 DEF IsOpen
  <2>5. QueueInv'
    BY <1>1, <1>2, <2>1, <2>2, <2>4 DEF QueueInv
  <2> QED BY <2>3, <2>5 DEF QueueOK
<1> QED BY <1>3, <1>4

(* A closed connection leaves both queues.                                 *)
LEMMA ForgetQueueOK ==
  ASSUME QueueOK, NEW c \in Conn, Forget(c),
         \A x \in Conn : x # c => fd'[x] = fd[x]
  PROVE  QueueOK'
<1> DEFINE A == Posted_accept_events
           P == Posted_events
           flagged == {e \in Event : posted[e[1]][e[2]]}
           both == {<<c, "read">>, <<c, "write">>}
<1>1. /\ A \in Seq(Event) /\ Distinct(A) /\ Linked(A) = flagged \cap AcceptEvent
      /\ P \in Seq(Event) /\ Distinct(P) /\ Linked(P) = flagged \ AcceptEvent
      /\ \A e \in flagged : IsOpen(e[1])
      /\ posted \in [Conn -> [Dir -> BOOLEAN]]
  BY DEF QueueOK, QueueTypes, QueueInv
<1>2. /\ posted' = [posted EXCEPT ![c] = [d \in Dir |-> FALSE]]
      /\ Posted_accept_events' = Without(A, c)
      /\ Posted_events' = Without(P, c)
  BY DEF Forget
<1>3. /\ Without(A, c) \in Seq(Event) /\ Distinct(Without(A, c))
      /\ Linked(Without(A, c)) = Linked(A) \ both
      /\ Without(P, c) \in Seq(Event) /\ Distinct(Without(P, c))
      /\ Linked(Without(P, c)) = Linked(P) \ both
  BY <1>1, RemoveBoth
<1>4. posted' \in [Conn -> [Dir -> BOOLEAN]]
  BY <1>1, <1>2
<1>5. {e \in Event : posted'[e[1]][e[2]]} = flagged \ both
  <2>1. \A x \in Conn, d \in Dir : posted'[x][d] <=> posted[x][d] /\ x # c
    BY <1>1, <1>2
  <2>2. \A x \in Conn, d \in Dir : <<x, d>> \in both <=> x = c
    BY DEF Dir
  <2> HIDE DEF both
  <2> QED BY <2>1, <2>2 DEF Event
<1>6. \A e \in flagged \ both : IsOpen(e[1])'
  <2>1. \A e \in Event : e[1] = c => e \in both
    BY DEF Event, Dir
  <2>2. \A e \in Event : e[1] \in Conn
    BY DEF Event
  <2> QED BY <1>1, <2>1, <2>2 DEF IsOpen
<1> HIDE DEF flagged, both
<1>7. QueueTypes' /\ QueueInv'
  BY <1>1, <1>2, <1>3, <1>4, <1>5, <1>6 DEF QueueTypes, QueueInv
<1> QED BY <1>7 DEF QueueOK

-----------------------------------------------------------------------------
(* No step of the loop or of a handler breaks the queues.                  *)
LEMMA QueueStep ==
  ASSUME LoopIInv, [LoopNext]_allVars
  PROVE  QueueOK'
<1>0. IInv /\ LoopTypeOK /\ QueueOK
  BY DEF LoopIInv, LoopTypeOK, QueueOK, QueueTypes
<1>1. CASE UNCHANGED <<fd, queueVars>>
  BY <1>0, <1>1, QueuesAlone DEF IsOpen
<1>2. CASE SkipDisabledSlot \/ DisableClosedSlot
  BY <1>0, <1>2, SlotIsOpen DEF SkipDisabledSlot, DisableClosedSlot
<1>3. CASE PostSlot
  <2> DEFINE c == files[Events[i].fd]
  <2>1. c \in Conn /\ IsOpen(c) /\ Post(c, Reported(i, c)) /\ UNCHANGED fd
    BY <1>0, <1>3, SlotIsOpen DEF PostSlot, pollVars
  <2>2. Reported(i, c) \in SUBSET Dir
    BY DEF Reported
  <2> QED BY <1>0, <2>1, <2>2, PostQueueOK
<1>4. CASE RunAccept \/ RunPosted
  BY <1>0, <1>4, RunQueueOK DEF RunAccept, RunPosted, pollVars
<1>5. CASE HandlerPost
  <2>1. PICK c \in Conn, d \in Dir : IsOpen(c) /\ Post(c, {d})
    BY <1>5 DEF HandlerPost
  <2>2. UNCHANGED fd /\ {d} \in SUBSET Dir
    BY <1>5 DEF HandlerPost, pollVars
  <2> QED BY <1>0, <2>1, <2>2, PostQueueOK
<1>6. CASE HandlerClose
  <2>1. PICK c \in Conn : CloseConnection(c) /\ Forget(c)
    BY <1>6 DEF HandlerClose
  <2>2. \A x \in Conn : x # c => fd'[x] = fd[x]
    BY <1>0, <2>1 DEF CloseConnection, IInv, TypeOK
  <2> QED BY <1>0, <2>1, <2>2, ForgetQueueOK
<1>7. CASE HandlerOpen
  <2>1. PICK c \in Conn, f \in Fd : GetConnection(c, f)
    BY <1>7 DEF HandlerOpen
  <2>2. \A x \in Conn : IsOpen(x) => IsOpen(x)'
    BY <1>0, <2>1 DEF GetConnection, IInv, TypeOK, IsOpen
  <2> QED BY <1>0, <1>7, <2>2, QueuesAlone DEF HandlerOpen
<1>8. CASE HandlerEvent
  BY <1>1, <1>8 DEF HandlerEvent, Poll_add_event, Poll_del_event, connVars
<1>9. CASE PollNothing \/ PollReady \/ PollDone
  BY <1>1, <1>9 DEF PollNothing, PollReady, PollDone, pollVars
<1>10. CASE AcceptDone \/ RunTimer \/ ExpireDone \/ PostedDone \/ HandlerReturn
  BY <1>1, <1>10
     DEF AcceptDone, RunTimer, ExpireDone, PostedDone, HandlerReturn, pollVars
<1>11. CASE UNCHANGED allVars
  BY <1>1, <1>11 DEF allVars, loopVars, queueVars, pollVars
<1> QED
  BY <1>2, <1>3, <1>4, <1>5, <1>6, <1>7, <1>8, <1>9, <1>10, <1>11
     DEF LoopNext, LoopStep, Handler

(* The variables of the loop that are not the queues'.                     *)
ControlTypes ==
  /\ pc \in {"poll", "dispatch", "accept", "expire", "posted", "handler"}
  /\ i \in 0 .. connection_n
  /\ ready \in 0 .. connection_n
  /\ revents \in [Slot -> (SUBSET Dir) \cup {{"err"}}]
  /\ due \subseteq Event
  /\ ret \in {"poll", "accept", "expire", "posted"}
  /\ ops \in 0 .. MaxOps

(* No step takes one of them out of its type.                              *)
LEMMA ControlStep ==
  ASSUME IInv, LoopTypeOK, [LoopNext]_allVars
  PROVE  ControlTypes'
<1> USE DEF ControlTypes, pollPhaseVars, callVars, Call
<1>0. /\ ControlTypes
      /\ nEvents \in 0 .. connection_n
      /\ connection_n \in Nat /\ MaxOps \in Nat
  BY Basics, LoopAssumption DEF LoopTypeOK, IInv, TypeOK
<1>1. CASE SkipDisabledSlot \/ DisableClosedSlot
  BY <1>1, SlotIsOpen DEF SkipDisabledSlot, DisableClosedSlot
<1>2. CASE PollNothing
  BY <1>0, <1>2 DEF PollNothing
<1>3. CASE PollReady
  <2>1. PICK r \in [Slot -> (SUBSET Dir) \cup {{"err"}}] :
          /\ revents' = r
          /\ ready' = Cardinality({s \in Live : r[s] # {}})
    BY <1>3 DEF PollReady
  <2>2. IsFiniteSet(Live) /\ Cardinality(Live) = nEvents
    BY <1>0, FS_Interval DEF Live
  <2>3. ready' \in 0 .. nEvents
    <3> DEFINE R == {s \in Live : r[s] # {}}
    <3>1. Cardinality(R) <= Cardinality(Live) /\ Cardinality(R) \in Nat
      BY <2>2, FS_Subset, FS_CardinalityType
    <3> QED BY <1>0, <2>1, <2>2, <3>1
  <2> QED BY <1>0, <1>3, <2>1, <2>3 DEF PollReady
<1>4. CASE PostSlot
  <2>1. Found(Reported(i, files[Events[i].fd])) \in {0, 1}
    BY DEF Found
  <2>2. i' \in 0 .. connection_n /\ ready' \in 0 .. connection_n
    BY <1>0, <1>4, <2>1 DEF PostSlot, AtSlot
  <2> QED BY <1>0, <1>4, <2>2 DEF PostSlot
<1>5. CASE PollDone
  BY <1>0, <1>5 DEF PollDone, NoReport
<1>6. CASE RunAccept \/ RunPosted \/ RunTimer
  BY <1>0, <1>6 DEF RunAccept, RunPosted, RunTimer
<1>7. CASE AcceptDone \/ ExpireDone \/ PostedDone \/ HandlerReturn
  BY <1>0, <1>7 DEF AcceptDone, ExpireDone, PostedDone, HandlerReturn
<1>8. CASE HandlerEvent \/ HandlerPost \/ HandlerOpen \/ HandlerClose
  BY <1>0, <1>8 DEF HandlerEvent, HandlerPost, HandlerOpen, HandlerClose,
                    Operation, Forget
<1>9. CASE UNCHANGED allVars
  BY <1>0, <1>9 DEF allVars, loopVars
<1> QED
  BY <1>1, <1>2, <1>3, <1>4, <1>5, <1>6, <1>7, <1>8, <1>9
     DEF LoopNext, LoopStep, Handler

(* Only a phase whose queue is empty is left, and nothing is put into the  *)
(* accept queue but by the walk.                                           *)
LEMMA DrainStep ==
  ASSUME LoopIInv, [LoopNext]_allVars
  PROVE  DrainIInv'
<1> USE DEF DrainIInv, At
<1>0. IInv /\ LoopTypeOK /\ DrainIInv /\ QueueOK
  BY DEF LoopIInv, LoopTypeOK, QueueOK, QueueTypes
<1>1. CASE SkipDisabledSlot \/ DisableClosedSlot
  BY <1>0, <1>1, SlotIsOpen DEF SkipDisabledSlot, DisableClosedSlot
<1>2. CASE PollNothing \/ PollReady \/ PostSlot \/ PollDone
  BY <1>2 DEF PollNothing, PollReady, PostSlot, PollDone, AtSlot
<1>3. CASE RunAccept \/ RunTimer \/ RunPosted
  BY <1>0, <1>3 DEF RunAccept, RunTimer, RunPosted, Call, queueVars
<1>4. CASE AcceptDone \/ ExpireDone \/ PostedDone
  BY <1>0, <1>4 DEF AcceptDone, ExpireDone, PostedDone, Drained, queueVars
<1>5. CASE HandlerReturn
  BY <1>0, <1>5 DEF HandlerReturn, queueVars, LoopTypeOK
<1>6. CASE HandlerEvent \/ HandlerOpen
  BY <1>0, <1>6 DEF HandlerEvent, HandlerOpen, Operation, queueVars
<1>7. CASE HandlerPost
  <2>1. PICK c \in Conn, d \in Dir :
          ~(c \in Listening /\ d = "read") /\ Post(c, {d})
    BY <1>7 DEF HandlerPost
  <2>2. Posted_accept_events' = Posted_accept_events \o <<>>
    BY <2>1 DEF Post, One
  <2>3. Posted_accept_events' = Posted_accept_events
    BY <1>0, <2>2, ConcatEmptySeq DEF QueueOK, QueueTypes
  <2> QED BY <1>0, <1>7, <2>3 DEF HandlerPost, Operation
<1>8. CASE HandlerClose
  <2>1. \A c : Without(<<>>, c) = <<>>
    BY EmptyQueue DEF Without, Unlink
  <2> QED BY <1>0, <1>8, <2>1 DEF HandlerClose, Operation, Forget
<1>9. CASE UNCHANGED allVars
  BY <1>0, <1>9 DEF allVars, loopVars
<1> QED
  BY <1>1, <1>2, <1>3, <1>4, <1>5, <1>6, <1>7, <1>8, <1>9
     DEF LoopNext, LoopStep, Handler

(* Event_core_process_init_ establishes the invariant.                     *)
LEMMA LoopInitIInv == LoopInit => LoopIInv
<1> SUFFICES ASSUME LoopInit PROVE LoopIInv
  OBVIOUS
<1>1. IInv
  BY InitIInv DEF LoopInit
<1>2. LoopTypeOK
  BY Basics, LoopAssumption, EmptySeq DEF LoopInit, LoopTypeOK, NoReport
<1>3. QueueInv
  BY EmptyQueue DEF LoopInit, QueueInv, Event
<1>4. DrainIInv
  BY DEF LoopInit, DrainIInv
<1> QED BY <1>1, <1>2, <1>3, <1>4 DEF LoopIInv

(* Every step keeps it.                                                    *)
LEMMA LoopNextIInv == LoopIInv /\ [LoopNext]_allVars => LoopIInv'
<1> SUFFICES ASSUME LoopIInv, [LoopNext]_allVars PROVE LoopIInv'
  OBVIOUS
<1>1. IInv'
  BY TableStep DEF LoopIInv
<1>2. QueueOK'
  BY QueueStep
<1>3. ControlTypes'
  BY ControlStep DEF LoopIInv
<1>4. DrainIInv'
  BY DrainStep
<1> QED
  BY <1>1, <1>2, <1>3, <1>4
     DEF LoopIInv, LoopTypeOK, ControlTypes, QueueOK, QueueTypes

-----------------------------------------------------------------------------
(* LoopIInv holds whenever the loop, or a handler it called, has control.  *)
THEOREM LoopInvariant == LoopSpec => []LoopIInv
BY LoopInitIInv, LoopNextIInv, PTL DEF LoopSpec

(* The variables of Process_events_and_timers() keep their types: the      *)
(* count of slots still to be found never becomes negative, the walk never *)
(* leaves the array.                                                       *)
THEOREM LoopTypeCorrect == LoopSpec => []LoopTypeOK
BY LoopInvariant, PTL DEF LoopIInv

(* Whatever handlers do, the slots poll() is given are those of open       *)
(* connections.                                                            *)
THEOREM LoopSlotCorrect == LoopSpec => []SlotInv
BY LoopInvariant, PTL DEF LoopIInv, IInv

(* An event is flagged posted exactly when it is linked, once, into the    *)
(* queue it belongs to, and its connection is open.                        *)
THEOREM QueueCorrect == LoopSpec => []QueueInv
BY LoopInvariant, PTL DEF LoopIInv

(* poll() never blocks over a posted event, and timers and posted events   *)
(* wait for the accept queue.                                              *)
THEOREM DrainCorrect == LoopSpec => []DrainOrder
<1>1. LoopIInv => DrainOrder
  BY DEF LoopIInv, DrainIInv, DrainOrder, At
<1> QED BY <1>1, LoopInvariant, PTL

-----------------------------------------------------------------------------
(* The walk over the slots.  Waiting is what it has still to come across;  *)
(* what it has passed is posted.                                           *)
Waiting == {s \in Live : i <= s /\ revents[s] # {}}

Hit(s) == Reported(s, files[Events[s].fd])

WalkIInv ==
  pc = "dispatch" =>
    /\ ready = Cardinality(Waiting)
    /\ \A s \in Live :
         /\ revents[s] \subseteq Events[s].events \cup {"err"}
         /\ s < i => \A d \in Hit(s) : posted[files[Events[s].fd]][d]

(* A reported slot always yields an event to post: its bits are those of   *)
(* active events, so ready is decremented for each of them.                *)
LEMMA ReportedSlotHits ==
  ASSUME IInv, WalkIInv, pc = "dispatch", NEW s \in Live
  PROVE  Hit(s) # {} <=> revents[s] # {}
<1> DEFINE c == files[Events[s].fd]
<1>1. SlotInv!(s)
  BY DEF IInv, SlotInv
<1>2. \A d \in Events[s].events : d \in Dir /\ active[c][d]
  <2>1. \A d \in Events[s].events : d \in Dir /\ index[c][d] = s
    BY <1>1
  <2>2. s # INVALID_INDEX
    BY Basics DEF Live, IInv, TypeOK
  <2>3. IsOpen(c)
    BY <1>1, FdAssumption DEF IsOpen
  <2> QED BY <1>1, <2>1, <2>2, <2>3 DEF IInv, IndexInv, Set
<1>3. revents[s] \subseteq Events[s].events \cup {"err"}
  BY DEF WalkIInv
<1> QED BY <1>1, <1>2, <1>3 DEF Hit, Reported

(* The walk decrements the count exactly when it passes a waiting slot.    *)
LEMMA WalkStep ==
  ASSUME LoopIInv, WalkIInv, [LoopNext]_allVars
  PROVE  WalkIInv'
<1> USE DEF pollPhaseVars
<1>0. IInv /\ LoopTypeOK /\ nEvents \in Nat
  BY DEF LoopIInv, IInv, TypeOK, connection_n
<1>1. CASE pc' # "dispatch"
  BY <1>1 DEF WalkIInv
<1>2. CASE SkipDisabledSlot \/ DisableClosedSlot
  BY <1>0, <1>2, SlotIsOpen DEF SkipDisabledSlot, DisableClosedSlot
<1>3. CASE PollReady
  <2>1. PICK r \in [Slot -> (SUBSET Dir) \cup {{"err"}}] :
          /\ \A s \in Slot : r[s] \in IF s \in Live THEN MayReport(s) ELSE {{}}
          /\ revents' = r
          /\ ready' = Cardinality({s \in Live : r[s] # {}})
          /\ i' = 0
          /\ UNCHANGED pollVars
    BY <1>3 DEF PollReady
  <2>2. Live \subseteq Slot /\ Live' = Live /\ \A s \in Live : s >= 0
    BY <2>1, Basics DEF Live, Slot, pollVars, IInv, TypeOK, LoopIInv
  <2>3. Waiting' = {s \in Live : r[s] # {}}
    BY <2>1, <2>2 DEF Waiting
  <2>4. ASSUME NEW s \in Live
        PROVE  r[s] \subseteq Events[s].events \cup {"err"}
    <3>1. r[s] \in MayReport(s)
      BY <2>1, <2>2
    <3>2. MayReport(s) \subseteq (SUBSET Events[s].events) \cup {{}, {"err"}}
      BY DEF MayReport
    <3>3. r[s] \in SUBSET Events[s].events \/ r[s] = {} \/ r[s] = {"err"}
      BY <3>1, <3>2
    <3> QED BY <3>3
  <2>5. \A s \in Live : ~(s < i')
    BY <2>1, <2>2 DEF Live
  <2> QED BY <2>1, <2>2, <2>3, <2>4, <2>5 DEF WalkIInv, pollVars
<1>4. CASE PostSlot
  <2> DEFINE c == files[Events[i].fd]
             new == {d \in Hit(i) : ~posted[c][d]}
  <2>1. /\ i \in Live /\ c \in Conn /\ pc = "dispatch" /\ i \in Nat
        /\ Post(c, Hit(i)) /\ ready' = ready - Found(Hit(i)) /\ i' = i + 1
        /\ UNCHANGED pollVars /\ UNCHANGED revents
    BY <1>0, <1>4, SlotIsOpen DEF PostSlot, AtSlot, Hit, LoopTypeOK
  <2>2. Live' = Live /\ IsFiniteSet(Live) /\ Live \subseteq Nat
    BY <1>0, <2>1, FS_Interval DEF Live, pollVars
  <2>3. IsFiniteSet(Waiting)
    BY <2>2, FS_Subset DEF Waiting
  <2>4. \A s \in Live : i' <= s <=> i <= s /\ s # i
    BY <2>1, <2>2
  <2>5. Waiting' = Waiting \ {i}
    BY <2>1, <2>2, <2>4 DEF Waiting
  <2>6. i \in Waiting <=> Hit(i) # {}
    BY <1>0, <2>1, ReportedSlotHits DEF Waiting
  <2>7. ready' = Cardinality(Waiting')
    <3>1. ready = Cardinality(Waiting) /\ ready \in Nat
      BY <2>1, <2>3, FS_CardinalityType DEF WalkIInv
    <3>2. CASE i \in Waiting
      BY <3>1, <3>2, <2>1, <2>3, <2>5, <2>6, FS_RemoveElement DEF Found
    <3>3. CASE i \notin Waiting
      <4>1. Waiting \ {i} = Waiting
        BY <3>3
      <4>2. ready' = ready
        BY <3>1, <3>3, <2>1, <2>6 DEF Found
      <4> QED BY <3>1, <4>1, <4>2, <2>5
    <3> QED BY <3>2, <3>3
  <2>8. \A x \in Conn, d \in Dir :
          posted'[x][d] <=> posted[x][d] \/ (x = c /\ d \in Hit(i))
    BY <1>0, <2>1 DEF Post, LoopTypeOK
  <2>9. \A s \in Live : Hit(s)' = Hit(s)
    BY <2>1 DEF Hit, Reported, pollVars
  <2>10. ASSUME NEW s \in Live, s < i', NEW d \in Hit(s)
         PROVE  posted'[files[Events[s].fd]][d]
    <3>1. files[Events[s].fd] \in Conn /\ d \in Dir
      BY <1>0 DEF IInv, SlotInv, Hit, Reported
    <3>2. CASE s = i
      BY <3>1, <3>2, <2>8, <2>10
    <3>3. CASE s < i
      BY <3>1, <3>3, <2>1, <2>8, <2>10 DEF WalkIInv
    <3> QED BY <3>2, <3>3, <2>1, <2>2, <2>10
  <2>11. \A s \in Live : revents'[s] \subseteq Events'[s].events \cup {"err"}
    BY <2>1 DEF WalkIInv, pollVars
  <2>12. \A s \in Live : s < i' =>
           \A d \in Hit(s)' : posted'[files'[Events'[s].fd]][d]
    BY <2>1, <2>9, <2>10 DEF pollVars
  <2> QED BY <2>2, <2>7, <2>11, <2>12 DEF WalkIInv
<1>5. CASE UNCHANGED allVars
  BY <1>5 DEF allVars, loopVars, pollVars, WalkIInv, Waiting, Live, Hit, Reported
<1>6. CASE PollNothing \/ PollDone
  BY <1>1, <1>6 DEF PollNothing, PollDone
<1>7. CASE RunAccept \/ RunTimer \/ RunPosted
  BY <1>1, <1>7 DEF RunAccept, RunTimer, RunPosted, Call
<1>8. CASE AcceptDone \/ ExpireDone \/ PostedDone
  BY <1>1, <1>8 DEF AcceptDone, ExpireDone, PostedDone
<1>9. CASE HandlerReturn \/ HandlerEvent \/ HandlerPost \/ HandlerOpen \/ HandlerClose
  BY <1>0, <1>1, <1>9 DEF HandlerReturn, HandlerEvent, HandlerPost, HandlerOpen,
                    HandlerClose, Operation, LoopTypeOK
<1> QED
  BY <1>2, <1>3, <1>4, <1>5, <1>6, <1>7, <1>8, <1>9
     DEF LoopNext, LoopStep, Handler

(* At every step of the walk the count is the number of slots still to be  *)
(* found, and all reports of the slots behind it are posted.               *)
THEOREM WalkInvariant == LoopSpec => [](LoopIInv /\ WalkIInv)
<1>1. LoopInit => WalkIInv
  BY DEF LoopInit, WalkIInv
<1>2. LoopIInv /\ WalkIInv /\ [LoopNext]_allVars => WalkIInv'
  BY WalkStep
<1> QED BY <1>1, <1>2, LoopInvariant, PTL DEF LoopSpec

(* When the walk ends nothing waits any more, whether it ended because the *)
(* array did or because the count ran out.                                 *)
LEMMA WalkEnds ==
  ASSUME IInv, LoopTypeOK, WalkIInv, pc = "dispatch", ~AtSlot
  PROVE  ready = 0 /\ Waiting = {}
<1>1. i \in Nat /\ nEvents \in Nat /\ ready = Cardinality(Waiting)
  BY Basics DEF WalkIInv, LoopTypeOK, IInv, TypeOK
<1>2. IsFiniteSet(Live)
  BY <1>1, FS_Interval DEF Live
<1>3. IsFiniteSet(Waiting)
  BY <1>2, FS_Subset DEF Waiting
<1>4. ready = 0 <=> Waiting = {}
  BY <1>1, <1>3, FS_EmptySet
<1>5. i >= nEvents => Waiting = {}
  BY <1>1 DEF Waiting, Live
<1> QED BY <1>1, <1>4, <1>5 DEF AtSlot

(* Only the end of the walk leads from it to the accept queue.             *)
LEMMA WalkLeaves ==
  ASSUME IInv, LoopTypeOK, [LoopNext]_allVars, pc = "dispatch", pc' = "accept"
  PROVE  PollDone
BY SlotIsOpen
   DEF LoopNext, LoopStep, Handler, allVars, loopVars, PollNothing, PollReady,
       SkipDisabledSlot, DisableClosedSlot, PostSlot, RunAccept, AcceptDone,
       RunTimer, ExpireDone, RunPosted, PostedDone, HandlerReturn,
       HandlerEvent, HandlerPost, HandlerOpen, HandlerClose, Operation

(* Every event poll() reported is posted when the walk ends: the count of  *)
(* slots still to be found never runs out before the last of them.         *)
THEOREM ReportsCorrect == LoopSpec => NoReportLost
<1> DEFINE Kept ==
      pc = "dispatch" /\ pc' = "accept" =>
        \A s \in Live : Events[s].fd # NoFd =>
          LET c == files[Events[s].fd] IN
          IsOpen(c) => \A d \in Dir :
            /\ active[c][d]
            /\ d \in revents[s] \/ "err" \in revents[s]
            => posted'[c][d]
<1>1. LoopIInv /\ WalkIInv /\ [LoopNext]_allVars => Kept
  <2> SUFFICES ASSUME LoopIInv, WalkIInv, [LoopNext]_allVars,
                      pc = "dispatch", pc' = "accept",
                      NEW s \in Live, NEW d \in Dir,
                      active[files[Events[s].fd]][d],
                      d \in revents[s] \/ "err" \in revents[s]
               PROVE  posted'[files[Events[s].fd]][d]
    OBVIOUS
  <2>1. IInv /\ LoopTypeOK
    BY DEF LoopIInv
  <2>2. PollDone /\ ~AtSlot /\ posted' = posted
    BY <2>1, WalkLeaves DEF PollDone, queueVars
  <2>3. Waiting = {}
    BY <2>1, <2>2, WalkEnds
  <2>4. d \in Hit(s)
    BY DEF Hit, Reported
  <2>5. s < i
    <3>1. revents[s] # {}
      OBVIOUS
    <3>2. ~(i <= s)
      BY <2>3, <3>1 DEF Waiting
    <3>3. i \in Int /\ s \in Int
      BY <2>1, Basics DEF LoopTypeOK, Live, IInv, TypeOK
    <3> QED BY <3>2, <3>3
  <2> QED BY <2>2, <2>4, <2>5 DEF WalkIInv
<1> QED BY <1>1, WalkInvariant, PTL DEF LoopSpec, NoReportLost

(* The alert "poll ready != events" can never be logged.                   *)
THEOREM AllFoundCorrect == LoopSpec => AllFound
<1>1. LoopIInv /\ WalkIInv /\ [LoopNext]_allVars =>
        (pc = "dispatch" /\ pc' = "accept" => ready = 0)
  <2> SUFFICES ASSUME LoopIInv, WalkIInv, [LoopNext]_allVars,
                      pc = "dispatch", pc' = "accept"
               PROVE  ready = 0
    OBVIOUS
  <2>1. IInv /\ LoopTypeOK
    BY DEF LoopIInv
  <2>2. ~AtSlot
    BY <2>1, WalkLeaves DEF PollDone
  <2> QED BY <2>1, <2>2, WalkEnds
<1> QED BY <1>1, WalkInvariant, PTL DEF LoopSpec, AllFound

(* The branches for a disabled slot and for the slot of a closed           *)
(* connection ("unexpected event") are never taken.                        *)
THEOREM NothingUnexpected ==
  LoopSpec => [][~SkipDisabledSlot /\ ~DisableClosedSlot]_allVars
<1>1. LoopIInv => ~SkipDisabledSlot /\ ~DisableClosedSlot
  BY SlotIsOpen DEF LoopIInv, SkipDisabledSlot, DisableClosedSlot
<1> QED BY <1>1, LoopInvariant, PTL DEF LoopSpec

-----------------------------------------------------------------------------
(* The table when connections may be closed too early.  A slot may belong  *)
(* to nobody, or to a descriptor that has been closed and used again, so   *)
(* SlotInv is lost; what is left is that the index of an event of an open  *)
(* connection leads to a slot with its descriptor and bit, and that a slot *)
(* that is not disabled leads to some connection.                          *)
BitsInv ==
  \A c \in Conn, d \in Dir : IsOpen(c) /\ Set(c, d) =>
    d \in Events[index[c][d]].events

KnownInv ==
  \A s \in Live : Events[s].fd # NoFd => files[Events[s].fd] \in Conn

EarlyTable == TypeOK /\ FilesInv /\ IndexInv /\ BitsInv /\ KnownInv

(* A descriptor is that of one open connection, and so is a slot that one  *)
(* of its indices names.                                                   *)
LEMMA EarlyBasics ==
  ASSUME EarlyTable
  PROVE  /\ nEvents \in Nat /\ nEvents <= connection_n /\ Live \subseteq Slot
         /\ INVALID_INDEX \notin Live
         /\ \A x, y \in Conn : IsOpen(x) /\ fd[x] = fd[y] => x = y
         /\ \A x, y \in Conn : \A e, g \in Dir :
              /\ IsOpen(x) /\ Set(x, e) /\ IsOpen(y) /\ Set(y, g)
              /\ index[x][e] = index[y][g]
              => x = y
<1>1. nEvents \in Nat /\ nEvents <= connection_n /\ Live \subseteq Slot
      /\ INVALID_INDEX \notin Live
  BY Basics DEF EarlyTable, TypeOK, Live, Slot
<1>2. \A x, y \in Conn : IsOpen(x) /\ fd[x] = fd[y] => x = y
  BY DEF EarlyTable, FilesInv, IsOpen
<1>3. \A x, y \in Conn : \A e, g \in Dir :
              /\ IsOpen(x) /\ Set(x, e) /\ IsOpen(y) /\ Set(y, g)
              /\ index[x][e] = index[y][g]
              => x = y
  BY <1>2 DEF EarlyTable, IndexInv
<1> QED
  BY <1>1, <1>2, <1>3

(* What has changed of the table and of the connections in the step, so    *)
(* that the invariant is kept: TypeOK, and the other parts one by one.     *)
LEMMA EarlyGetConnection ==
  ASSUME EarlyTable, NEW c \in Conn, NEW f \in Fd, GetConnection(c, f)
  PROVE  EarlyTable'
<1> USE DEF GetConnection
<1>1. TypeOK'
  BY DEF EarlyTable, TypeOK, INVALID_INDEX, NoFd
<1>2. FilesInv'
  BY DEF EarlyTable, TypeOK, FilesInv, IsOpen
<1>3. IndexInv'
  BY DEF EarlyTable, TypeOK, IndexInv, IsOpen, Set, Live
<1>4. BitsInv'
  BY DEF EarlyTable, TypeOK, BitsInv, IsOpen, Set
<1>5. KnownInv'
  <2> SUFFICES ASSUME NEW s \in Live, Events[s].fd # NoFd
               PROVE  files'[Events[s].fd] \in Conn
    BY DEF KnownInv, Live
  <2>1. files[Events[s].fd] \in Conn /\ Events[s].fd \in Fd
    BY EarlyBasics DEF EarlyTable, KnownInv, TypeOK
  <2> QED
    BY <2>1 DEF EarlyTable, TypeOK
<1> QED
  BY <1>1, <1>2, <1>3, <1>4, <1>5 DEF EarlyTable

(* A connection that is closed, with or without active events, leaves its  *)
(* slot as it is.                                                          *)
LEMMA EarlyClose ==
  ASSUME EarlyTable, NEW c \in Conn, fd' = [fd EXCEPT ![c] = NoFd],
         UNCHANGED <<files, tableVars>>
  PROVE  EarlyTable'
<1> USE DEF tableVars
<1>1. \A x \in Conn : IsOpen(x)' => IsOpen(x) /\ fd'[x] = fd[x]
  BY DEF EarlyTable, TypeOK, IsOpen
<1>2. TypeOK'
  BY DEF EarlyTable, TypeOK
<1>3. FilesInv'
  BY <1>1 DEF EarlyTable, FilesInv
<1>4. IndexInv' /\ BitsInv'
  BY <1>1 DEF EarlyTable, IndexInv, BitsInv, Set, Live
<1>5. KnownInv'
  BY DEF EarlyTable, KnownInv, Live
<1> QED
  BY <1>2, <1>3, <1>4, <1>5 DEF EarlyTable

LEMMA EarlyStutter ==
  ASSUME EarlyTable, UNCHANGED pollVars
  PROVE  EarlyTable'
BY DEF EarlyTable, pollVars, TypeOK, FilesInv, IndexInv, BitsInv, KnownInv,
       IsOpen, Set, Live

(* Poll_add_event: a new slot is inside the array because there is room.   *)
LEMMA EarlyAdd ==
  ASSUME EarlyTable, NEW c \in Conn, NEW d \in Dir, RoomToAdd(c), Poll_add_event(c, d)
  PROVE  EarlyTable'
<1>1. /\ IsOpen(c) /\ fd[c] \in Fd /\ files[fd[c]] = c
      /\ active' = [active EXCEPT ![c][d] = TRUE]
      /\ UNCHANGED <<fd, files>>
  BY DEF Poll_add_event, connVars, EarlyTable, TypeOK, IsOpen, FilesInv
<1>2. \A x \in Conn, e \in Dir :
        active'[x][e] = IF x = c /\ e = d THEN TRUE ELSE active[x][e]
  BY <1>1 DEF EarlyTable, TypeOK
<1>3. active' \in [Conn -> [Dir -> BOOLEAN]]
  BY <1>1 DEF EarlyTable, TypeOK
<1>4. FilesInv' /\ fd' \in [Conn -> Fd \cup {NoFd}] /\ files' \in [Fd -> Conn \cup {NoConn}]
  BY <1>1 DEF EarlyTable, TypeOK, FilesInv, IsOpen
<1>5. CASE AddAlreadySet(c, d)
  <2>1. active[c][d] = TRUE
    BY <1>1, <1>5 DEF AddAlreadySet, EarlyTable, IndexInv, TypeOK
  <2>2. active' = active
    BY <1>1, <2>1 DEF EarlyTable, TypeOK
  <2> QED
    BY <1>1, <1>5, <2>2, EarlyStutter DEF AddAlreadySet, pollVars
<1>6. CASE AddNewSlot(c, d)
  <2>1. \A e \in Dir : ~Set(c, e)
    BY <1>6, Basics DEF AddNewSlot
  <2>2. nEvents < connection_n
    BY <2>1 DEF RoomToAdd
  <2>3. nEvents \in Slot /\ nEvents \in Nat /\ nEvents # INVALID_INDEX
    BY <2>2, Basics, EarlyBasics DEF Slot
  <2>4. /\ Events' = [Events EXCEPT ![nEvents] = [fd |-> fd[c], events |-> {d}]]
        /\ index' = [index EXCEPT ![c][d] = nEvents]
        /\ nEvents' = nEvents + 1
    BY <1>6 DEF AddNewSlot
  <2>5. Live' = Live \cup {nEvents} /\ nEvents \notin Live /\ Live \subseteq Slot
    BY <2>3, <2>4, EarlyBasics DEF Live
  <2>6. /\ \A s \in Live : Events'[s] = Events[s]
        /\ Events'[nEvents] = [fd |-> fd[c], events |-> {d}]
    BY <2>3, <2>4, <2>5 DEF EarlyTable, TypeOK
  <2>7. \A x \in Conn, e \in Dir :
          index'[x][e] = IF x = c /\ e = d THEN nEvents ELSE index[x][e]
    BY <2>4 DEF EarlyTable, TypeOK
  <2>8. TypeOK'
    <3>1. nEvents' \in 0 .. connection_n
      BY <2>2, <2>3, <2>4, Basics
    <3>2. Events' \in [Slot -> [fd : Fd \cup {NoFd}, events : SUBSET Dir]]
      BY <1>1, <2>3, <2>4 DEF EarlyTable, TypeOK
    <3>3. index' \in [Conn -> [Dir -> Slot \cup {0, INVALID_INDEX}]]
      BY <2>3, <2>4 DEF EarlyTable, TypeOK
    <3> QED
      BY <1>3, <1>4, <3>1, <3>2, <3>3 DEF TypeOK
  <2>9. ASSUME NEW x \in Conn, NEW e \in Dir, IsOpen(x)
        PROVE  /\ active'[x][e] <=> Set(x, e)'
               /\ Set(x, e)' => /\ index'[x][e] \in Live'
                                /\ Events'[index'[x][e]].fd = fd[x]
                                /\ e \in Events'[index'[x][e]].events
    <3>1. CASE x = c /\ e = d
      <4>1. index'[x][e] = nEvents /\ active'[x][e] = TRUE
        BY <1>2, <2>7, <3>1
      <4>2. Set(x, e)'
        BY <2>3, <4>1 DEF Set
      <4>3. /\ nEvents \in Live' /\ Events'[nEvents].fd = fd[c]
            /\ Events'[nEvents].events = {d}
        BY <2>5, <2>6
      <4> QED
        BY <3>1, <4>1, <4>2, <4>3
    <3>2. CASE ~(x = c /\ e = d)
      <4>1. index'[x][e] = index[x][e] /\ active'[x][e] = active[x][e]
        BY <1>2, <2>7, <3>2
      <4>2. /\ active[x][e] <=> Set(x, e)
            /\ Set(x, e) => /\ index[x][e] \in Live
                            /\ Events[index[x][e]].fd = fd[x]
                            /\ e \in Events[index[x][e]].events
        BY <2>9 DEF EarlyTable, IndexInv, BitsInv
      <4> QED
        BY <2>5, <2>6, <4>1, <4>2 DEF Set
    <3> QED
      BY <3>1, <3>2
  <2>10. IndexInv' /\ BitsInv'
    BY <1>1, <2>9 DEF IndexInv, BitsInv, IsOpen
  <2>11. KnownInv'
    BY <1>1, <2>5, <2>6 DEF EarlyTable, KnownInv
  <2> QED
    BY <1>4, <2>8, <2>10, <2>11 DEF EarlyTable
<1>7. CASE AddToPeerSlot(c, d)
  <2> DEFINE s == index[c][Peer(d)]
  <2>1. /\ Peer(d) \in Dir /\ Peer(d) # d /\ ~Set(c, d) /\ Set(c, Peer(d))
        /\ Events' = [Events EXCEPT ![s].events = @ \cup {d}]
        /\ index' = [index EXCEPT ![c][d] = s]
        /\ nEvents' = nEvents
    BY <1>7, Basics DEF AddToPeerSlot
  <2>2. s \in Live /\ s \in Slot /\ Events[s].fd = fd[c] /\ s # INVALID_INDEX /\ Live \subseteq Slot
    BY <1>1, <2>1, EarlyBasics DEF EarlyTable, IndexInv
  <2> HIDE DEF s
  <2>3. \A j \in Live :
          /\ Events'[j].fd = Events[j].fd
          /\ Events'[j].events = IF j = s THEN Events[j].events \cup {d} ELSE Events[j].events
    BY <2>1, <2>2 DEF EarlyTable, TypeOK
  <2>4. \A x \in Conn, e \in Dir :
          index'[x][e] = IF x = c /\ e = d THEN s ELSE index[x][e]
    BY <2>1 DEF EarlyTable, TypeOK
  <2>5. Live' = Live
    BY <2>1 DEF Live
  <2>6. TypeOK'
    <3>1. Events' \in [Slot -> [fd : Fd \cup {NoFd}, events : SUBSET Dir]]
      BY <2>1, <2>2 DEF EarlyTable, TypeOK
    <3>2. index' \in [Conn -> [Dir -> Slot \cup {0, INVALID_INDEX}]]
      BY <2>1, <2>2 DEF EarlyTable, TypeOK
    <3> QED
      BY <1>3, <1>4, <2>1, <3>1, <3>2 DEF EarlyTable, TypeOK
  <2>7. ASSUME NEW x \in Conn, NEW e \in Dir, IsOpen(x)
        PROVE  /\ active'[x][e] <=> Set(x, e)'
               /\ Set(x, e)' => /\ index'[x][e] \in Live
                                /\ Events'[index'[x][e]].fd = fd[x]
                                /\ e \in Events'[index'[x][e]].events
    <3>1. CASE x = c /\ e = d
      BY <1>2, <2>2, <2>3, <2>4, <3>1 DEF Set
    <3>2. CASE ~(x = c /\ e = d)
      <4>1. index'[x][e] = index[x][e] /\ active'[x][e] = active[x][e]
        BY <1>2, <2>4, <3>2
      <4>2. /\ active[x][e] <=> Set(x, e)
            /\ Set(x, e) => /\ index[x][e] \in Live
                            /\ Events[index[x][e]].fd = fd[x]
                            /\ e \in Events[index[x][e]].events
        BY <2>7 DEF EarlyTable, IndexInv, BitsInv
      <4> QED
        BY <2>3, <4>1, <4>2 DEF Set
    <3> QED
      BY <3>1, <3>2
  <2>8. IndexInv' /\ BitsInv'
    BY <1>1, <2>5, <2>7 DEF IndexInv, BitsInv, IsOpen
  <2>9. KnownInv'
    BY <1>1, <2>3, <2>5 DEF EarlyTable, KnownInv
  <2> QED
    BY <1>4, <2>6, <2>8, <2>9 DEF EarlyTable
<1> QED
  BY <1>5, <1>6, <1>7 DEF Poll_add_event

(* Poll_del_event, unless the slot that would be moved is a disabled one:  *)
(* the owner of that slot, if it is open, has its indices put right, and a *)
(* stale slot has no owner.                                                *)
LEMMA EarlyDel ==
  ASSUME EarlyTable, NEW c \in Conn, NEW d \in Dir, MovesEnabled(c, d), Poll_del_event(c, d)
  PROVE  EarlyTable'
<1>1. /\ IsOpen(c) /\ fd[c] \in Fd /\ files[fd[c]] = c
      /\ active' = [active EXCEPT ![c][d] = FALSE]
      /\ UNCHANGED <<fd, files>>
  BY DEF Poll_del_event, connVars, EarlyTable, TypeOK, IsOpen, FilesInv
<1>2. \A x \in Conn, e \in Dir :
        active'[x][e] = IF x = c /\ e = d THEN FALSE ELSE active[x][e]
  BY <1>1 DEF EarlyTable, TypeOK
<1>3. active' \in [Conn -> [Dir -> BOOLEAN]]
  BY <1>1 DEF EarlyTable, TypeOK
<1>4. FilesInv' /\ fd' \in [Conn -> Fd \cup {NoFd}] /\ files' \in [Fd -> Conn \cup {NoConn}]
  BY <1>1 DEF EarlyTable, TypeOK, FilesInv, IsOpen
<1>5. \A x \in Conn, e \in Dir : IsOpen(x) =>
        /\ active[x][e] <=> Set(x, e)
        /\ Set(x, e) => /\ index[x][e] \in Live
                        /\ Events[index[x][e]].fd = fd[x]
                        /\ e \in Events[index[x][e]].events
  BY DEF EarlyTable, IndexInv, BitsInv
<1>6. CASE DelAlreadyDeleted(c, d)
  <2>1. active[c][d] = FALSE
    BY <1>1, <1>5, <1>6 DEF DelAlreadyDeleted, EarlyTable, TypeOK
  <2>2. active' = active
    BY <1>1, <2>1 DEF EarlyTable, TypeOK
  <2> QED
    BY <1>1, <1>6, <2>2, EarlyStutter DEF DelAlreadyDeleted, pollVars
<1>7. CASE DelFromPeerSlot(c, d)
  <2> DEFINE s == index[c][Peer(d)]
  <2>1. /\ Peer(d) \in Dir /\ Peer(d) # d /\ Set(c, d) /\ Set(c, Peer(d))
        /\ Events' = [Events EXCEPT ![s].events = @ \ {d}]
        /\ index' = [index EXCEPT ![c][d] = INVALID_INDEX]
        /\ nEvents' = nEvents
    BY <1>7, Basics DEF DelFromPeerSlot
  <2>2. s \in Live /\ s \in Slot /\ Live \subseteq Slot
    BY <1>1, <1>5, <2>1, EarlyBasics
  <2>3. \A x \in Conn, e \in Dir : IsOpen(x) /\ Set(x, e) /\ index[x][e] = s => x = c
    BY <1>1, <2>1, EarlyBasics
  <2> HIDE DEF s
  <2>4. \A j \in Live :
          /\ Events'[j].fd = Events[j].fd
          /\ Events'[j].events = IF j = s THEN Events[j].events \ {d} ELSE Events[j].events
    BY <2>1, <2>2 DEF EarlyTable, TypeOK
  <2>5. \A x \in Conn, e \in Dir :
          index'[x][e] = IF x = c /\ e = d THEN INVALID_INDEX ELSE index[x][e]
    BY <2>1 DEF EarlyTable, TypeOK
  <2>6. Live' = Live
    BY <2>1 DEF Live
  <2>7. TypeOK'
    <3>1. Events' \in [Slot -> [fd : Fd \cup {NoFd}, events : SUBSET Dir]]
      BY <2>1, <2>2 DEF EarlyTable, TypeOK
    <3>2. index' \in [Conn -> [Dir -> Slot \cup {0, INVALID_INDEX}]]
      BY <2>1 DEF EarlyTable, TypeOK
    <3> QED
      BY <1>3, <1>4, <2>1, <3>1, <3>2 DEF EarlyTable, TypeOK
  <2>8. ASSUME NEW x \in Conn, NEW e \in Dir, IsOpen(x)
        PROVE  /\ active'[x][e] <=> Set(x, e)'
               /\ Set(x, e)' => /\ index'[x][e] \in Live
                                /\ Events'[index'[x][e]].fd = fd[x]
                                /\ e \in Events'[index'[x][e]].events
    <3>1. CASE x = c /\ e = d
      BY <1>2, <2>5, <3>1 DEF Set
    <3>2. CASE ~(x = c /\ e = d)
      <4>1. index'[x][e] = index[x][e] /\ active'[x][e] = active[x][e]
        BY <1>2, <2>5, <3>2
      <4>2. /\ active[x][e] <=> Set(x, e)
            /\ Set(x, e) => /\ index[x][e] \in Live
                            /\ Events[index[x][e]].fd = fd[x]
                            /\ e \in Events[index[x][e]].events
        BY <1>5, <2>8
      <4>3. Set(x, e) /\ index[x][e] = s => e # d
        BY <2>3, <2>8, <3>2
      <4> QED
        BY <2>4, <4>1, <4>2, <4>3 DEF Set
    <3> QED
      BY <3>1, <3>2
  <2>9. IndexInv' /\ BitsInv'
    BY <1>1, <2>6, <2>8 DEF IndexInv, BitsInv, IsOpen
  <2>10. KnownInv'
    BY <1>1, <2>4, <2>6 DEF EarlyTable, KnownInv
  <2> QED
    BY <1>4, <2>7, <2>9, <2>10 DEF EarlyTable
<1>8. CASE DelSlot(c, d)
  <2> DEFINE s    == index[c][d]
             last == nEvents - 1
             m    == files[Events[last].fd]
  <2>1. /\ Set(c, d) /\ ~Set(c, Peer(d)) /\ nEvents' = last
        /\ s < last => /\ Events' = [Events EXCEPT ![s] = Events[last]]
                       /\ index' = [Retarget(m, last, s) EXCEPT ![c][d] = INVALID_INDEX]
        /\ ~(s < last) => /\ index' = [index EXCEPT ![c][d] = INVALID_INDEX]
                          /\ Events' = Events
    BY <1>8 DEF DelSlot
  <2>2. /\ s \in Live /\ Live \subseteq Slot /\ nEvents \in Nat /\ INVALID_INDEX \notin Live
        /\ nEvents <= connection_n
    BY <1>1, <1>5, <2>1, EarlyBasics
  <2> HIDE DEF s
  <2>3. /\ last \in Live /\ Live' = Live \ {last} /\ nEvents > 0 /\ s <= last /\ s \in Nat
        /\ nEvents' \in 0 .. connection_n
    BY <2>1, <2>2, Basics DEF Live
  <2>4. s < last => m \in Conn /\ Events[last].fd # NoFd
    BY <2>1, <2>3 DEF MovesEnabled, EarlyTable, KnownInv, s
  <2>5. s < last => \A x \in Conn, e \in Dir :
          IsOpen(x) /\ Set(x, e) /\ index[x][e] = last => x = m
    BY <1>5, <2>4 DEF EarlyTable, FilesInv
  <2>6. \A x \in Conn, e \in Dir : IsOpen(x) /\ Set(x, e) /\ index[x][e] = s => x = c /\ e = d
    <3>1. \A x \in Conn, e \in Dir : IsOpen(x) /\ Set(x, e) /\ index[x][e] = s => x = c
      BY <1>1, <2>1, EarlyBasics DEF s
    <3> QED
      BY <2>1, <3>1, Basics
  <2> HIDE DEF last, m
  <2>7. \A j \in Live \ {last} : Events'[j] = IF j = s THEN Events[last] ELSE Events[j]
    <3>1. CASE s < last
      BY <2>1, <2>2, <3>1 DEF EarlyTable, TypeOK
    <3>2. CASE ~(s < last)
      <4>1. s = last
        BY <2>2, <2>3, <3>2 DEF Live
      <4> QED
        BY <2>1, <3>2, <4>1
    <3> QED
      BY <3>1, <3>2
  <2>types. /\ index \in [Conn -> [Dir -> Slot \cup {0, INVALID_INDEX}]]
            /\ s < last =>
                 Retarget(m, last, s) \in [Conn -> [Dir -> Slot \cup {0, INVALID_INDEX}]]
    <3>1. index \in [Conn -> [Dir -> Slot \cup {0, INVALID_INDEX}]]
      BY DEF EarlyTable, TypeOK
    <3> QED
      BY <2>2, <2>4, <3>1 DEF Retarget
  <2> DEFINE t == IF s < last THEN Retarget(m, last, s) ELSE index
  <2>target. /\ t \in [Conn -> [Dir -> Slot \cup {0, INVALID_INDEX}]]
             /\ index' = [t EXCEPT ![c][d] = INVALID_INDEX]
             /\ s < last => t = Retarget(m, last, s)
             /\ ~(s < last) => t = index
    <3>1. CASE s < last
      <4>1. t = Retarget(m, last, s)
        BY <3>1
      <4>2. index' = [Retarget(m, last, s) EXCEPT ![c][d] = INVALID_INDEX]
        BY <2>1, <3>1
      <4> HIDE DEF t
      <4> QED
        BY <2>types, <3>1, <4>1, <4>2
    <3>2. CASE ~(s < last)
      <4>1. t = index
        BY <3>2
      <4> HIDE DEF t
      <4> QED
        BY <2>1, <2>types, <3>2, <4>1
    <3> QED
      BY <3>1, <3>2
  <2> HIDE DEF t
  <2>8. ASSUME NEW x \in Conn, NEW e \in Dir, IsOpen(x), ~(x = c /\ e = d)
        PROVE  /\ index[x][e] = last /\ s < last => index'[x][e] = s
               /\ ~(index[x][e] = last /\ s < last) => index'[x][e] = index[x][e]
    <3>0. index'[x][e] = t[x][e]
      BY <2>target, <2>8
    <3>1. CASE s < last
      <4>1. IsOpen(m) => \A y \in Conn, g \in Dir :
              Retarget(m, last, s)[y][g] = IF y = m /\ index[y][g] = last THEN s ELSE index[y][g]
        BY <2>4, <3>1 DEF Retarget, EarlyTable, TypeOK
      <4>2. ~IsOpen(m) => Retarget(m, last, s) = index
        BY DEF Retarget
      <4>3. index'[x][e] = Retarget(m, last, s)[x][e]
        BY <2>target, <3>0, <3>1
      <4>4. index[x][e] = last => x = m
        BY <2>2, <2>3, <2>5, <2>8, <3>1 DEF Set
      <4> QED
        BY <2>8, <3>1, <4>1, <4>2, <4>3, <4>4
    <3>2. CASE ~(s < last)
      BY <2>target, <3>0, <3>2
    <3> QED
      BY <3>1, <3>2
  <2>9. TypeOK'
    <3>1. Events' \in [Slot -> [fd : Fd \cup {NoFd}, events : SUBSET Dir]]
      BY <2>1, <2>2, <2>3 DEF EarlyTable, TypeOK
    <3>2. index' \in [Conn -> [Dir -> Slot \cup {0, INVALID_INDEX}]]
      BY <2>target, UpdateType
    <3> QED
      BY <1>3, <1>4, <2>3, <3>1, <3>2 DEF TypeOK
  <2>10. index'[c][d] = INVALID_INDEX
    BY <2>target
  <2>11. ASSUME NEW x \in Conn, NEW e \in Dir, IsOpen(x)
        PROVE  /\ active'[x][e] <=> Set(x, e)'
               /\ Set(x, e)' => /\ index'[x][e] \in Live'
                                /\ Events'[index'[x][e]].fd = fd[x]
                                /\ e \in Events'[index'[x][e]].events
    <3>1. CASE x = c /\ e = d
      BY <1>2, <2>10, <3>1 DEF Set
    <3>2. CASE ~(x = c /\ e = d)
      <4>1. active'[x][e] = active[x][e]
        BY <1>2, <3>2
      <4>2. /\ active[x][e] <=> Set(x, e)
            /\ Set(x, e) => /\ index[x][e] \in Live
                            /\ Events[index[x][e]].fd = fd[x]
                            /\ e \in Events[index[x][e]].events
                            /\ index[x][e] # s
        BY <1>5, <2>6, <2>11, <3>2
      <4>3. CASE index[x][e] = last /\ s < last
        <5>1. index'[x][e] = s /\ Set(x, e) /\ Set(x, e)'
          BY <2>2, <2>3, <2>8, <2>11, <3>2, <4>3 DEF Set
        <5>2. s \in Live \ {last} /\ Events'[s] = Events[last]
          BY <2>2, <2>3, <2>7, <4>3
        <5> QED
          BY <2>3, <4>1, <4>2, <4>3, <5>1, <5>2
      <4>4. CASE ~(index[x][e] = last /\ s < last)
        <5>1. index'[x][e] = index[x][e]
          BY <2>8, <2>11, <3>2, <4>4
        <5>2. Set(x, e) => index[x][e] # last
          BY <2>2, <2>3, <4>2, <4>4
        <5> QED
          BY <2>3, <2>7, <4>1, <4>2, <5>1, <5>2 DEF Set
      <4> QED
        BY <4>3, <4>4
    <3> QED
      BY <3>1, <3>2
  <2>12. IndexInv' /\ BitsInv'
    BY <1>1, <2>11 DEF IndexInv, BitsInv, IsOpen
  <2>13. KnownInv'
    <3> SUFFICES ASSUME NEW j \in Live \ {last}, Events'[j].fd # NoFd
                 PROVE  files[Events'[j].fd] \in Conn
      BY <1>1, <2>3 DEF KnownInv
    <3> QED
      BY <2>3, <2>7 DEF EarlyTable, KnownInv
  <2> QED
    BY <1>4, <2>9, <2>12, <2>13 DEF EarlyTable
<1> QED
  BY <1>6, <1>7, <1>8 DEF Poll_del_event

(* The workaround disables the slot of a connection that is closed: no     *)
(* index of an open one names it.                                          *)
LEMMA EarlyDisable ==
  ASSUME EarlyTable, i \in Nat, DisableClosedSlot
  PROVE  EarlyTable'
<1>1. /\ i \in Live /\ Events[i].fd # NoFd /\ ~IsOpen(files[Events[i].fd])
      /\ \/ i = nEvents - 1 /\ nEvents' = nEvents - 1 /\ Events' = Events
         \/ Events' = [Events EXCEPT ![i].fd = NoFd] /\ nEvents' = nEvents
      /\ UNCHANGED <<index, active, fd, files>>
  BY EarlyBasics DEF DisableClosedSlot, AtSlot, Disable, connVars, Live
<1>2. Live \subseteq Slot /\ Live' \subseteq Live /\ nEvents' \in 0 .. connection_n
      /\ \A s \in Live : s # i => s \in Live'
  BY <1>1, EarlyBasics, Basics DEF Live
<1>3. \A s \in Live' :
        /\ s # i => Events'[s] = Events[s]
        /\ s = i => Events'[s].fd = NoFd
  BY <1>1, <1>2, EarlyBasics DEF EarlyTable, TypeOK, Live
<1>4. \A x \in Conn, e \in Dir : IsOpen(x) /\ Set(x, e) => index[x][e] # i
  BY <1>1 DEF EarlyTable, IndexInv, FilesInv
<1>5. TypeOK'
  <2>1. Events' \in [Slot -> [fd : Fd \cup {NoFd}, events : SUBSET Dir]]
    BY <1>1, <1>2 DEF EarlyTable, TypeOK
  <2> QED
    BY <1>1, <1>2, <2>1 DEF EarlyTable, TypeOK
<1>6. FilesInv'
  BY <1>1 DEF EarlyTable, FilesInv, IsOpen
<1>7. IndexInv' /\ BitsInv'
  <2> SUFFICES ASSUME NEW x \in Conn, NEW e \in Dir, IsOpen(x)
               PROVE  /\ active[x][e] <=> Set(x, e)
                      /\ Set(x, e) => /\ index[x][e] \in Live'
                                      /\ Events'[index[x][e]].fd = fd[x]
                                      /\ e \in Events'[index[x][e]].events
    BY <1>1 DEF IndexInv, BitsInv, IsOpen, Set
  <2>1. /\ active[x][e] <=> Set(x, e)
        /\ Set(x, e) => /\ index[x][e] \in Live
                        /\ Events[index[x][e]].fd = fd[x]
                        /\ e \in Events[index[x][e]].events
    BY DEF EarlyTable, IndexInv, BitsInv
  <2> QED
    BY <1>2, <1>3, <1>4, <2>1
<1>8. KnownInv'
  BY <1>1, <1>2, <1>3 DEF EarlyTable, KnownInv
<1> QED
  BY <1>5, <1>6, <1>7, <1>8 DEF EarlyTable

(* The walk: never more slots are left to be come across than are counted, *)
(* and a reported slot behind it asks for the events of nobody, or of an   *)
(* open connection.                                                        *)
EarlyWalk ==
  pc = "dispatch" =>
    /\ ready \in Nat
    /\ Cardinality(Waiting) <= ready
    /\ \A s \in Live : s < i /\ revents[s] # {} =>
         \/ Events[s].fd = NoFd
         \/ IsOpen(files[Events[s].fd])

EarlyIInv == EarlyTable /\ i \in Nat /\ ret # "dispatch" /\ EarlyWalk

LEMMA EarlyTableStep ==
  ASSUME EarlyIInv, [EarlyNext]_allVars
  PROVE  EarlyTable'
<1>0. EarlyTable /\ i \in Nat
  BY DEF EarlyIInv
<1>1. CASE UNCHANGED pollVars
  BY <1>0, <1>1, EarlyStutter
<1>2. CASE DisableClosedSlot
  BY <1>0, <1>2, EarlyDisable
<1>3. CASE CloseTooEarly
  BY <1>0, <1>3, EarlyClose DEF CloseTooEarly
<1>4. CASE DefinedEvent
  BY <1>0, <1>4, EarlyAdd, EarlyDel DEF DefinedEvent
<1>5. CASE HandlerOpen
  BY <1>0, <1>5, EarlyGetConnection DEF HandlerOpen
<1>6. CASE HandlerClose
  BY <1>0, <1>6, EarlyClose DEF HandlerClose, CloseConnection
<1>7. CASE PollNothing \/ PollReady \/ SkipDisabledSlot \/ PostSlot \/ PollDone
  BY <1>1, <1>7 DEF PollNothing, PollReady, SkipDisabledSlot, PostSlot, PollDone
<1>8. CASE RunAccept \/ AcceptDone \/ RunTimer \/ ExpireDone
  BY <1>1, <1>8 DEF RunAccept, AcceptDone, RunTimer, ExpireDone
<1>9. CASE RunPosted \/ PostedDone \/ HandlerReturn
  BY <1>1, <1>9 DEF RunPosted, PostedDone, HandlerReturn
<1>10. CASE UNCHANGED allVars
  BY <1>1, <1>10 DEF allVars
<1> QED
  BY <1>2, <1>3, <1>4, <1>5, <1>6, <1>7, <1>8, <1>9, <1>10 DEF EarlyNext, LoopStep

(* Outside the walk nothing is said of it.                                 *)
LEMMA EarlyElsewhere ==
  ASSUME i \in Nat, pc # "dispatch", ~PollReady, [EarlyNext]_allVars, ret # "dispatch"
  PROVE  pc' # "dispatch" /\ i' \in Nat
<1> USE DEF pollPhaseVars
<1>1. CASE PollNothing \/ SkipDisabledSlot \/ DisableClosedSlot \/ PostSlot \/ PollDone
  BY <1>1 DEF PollNothing, SkipDisabledSlot, DisableClosedSlot, PostSlot, PollDone, AtSlot
<1>2. CASE RunAccept \/ RunTimer \/ RunPosted
  BY <1>2 DEF RunAccept, RunTimer, RunPosted, Call
<1>3. CASE AcceptDone \/ ExpireDone \/ PostedDone \/ HandlerReturn
  BY <1>3 DEF AcceptDone, ExpireDone, PostedDone, HandlerReturn
<1>4. CASE CloseTooEarly \/ DefinedEvent \/ HandlerOpen \/ HandlerClose
  BY <1>4 DEF CloseTooEarly, DefinedEvent, HandlerOpen, HandlerClose, Operation
<1>5. CASE UNCHANGED allVars
  BY <1>5 DEF allVars, loopVars
<1> QED
  BY <1>1, <1>2, <1>3, <1>4, <1>5 DEF EarlyNext, LoopStep

LEMMA EarlyWaiting ==
  ASSUME EarlyTable
  PROVE  IsFiniteSet(Live) /\ Cardinality(Live) = nEvents /\ IsFiniteSet(Waiting)
<1>1. nEvents \in Nat
  BY EarlyBasics
<1>2. IsFiniteSet(Live) /\ Cardinality(Live) = nEvents
  BY <1>1, FS_Interval DEF Live
<1> QED
  BY <1>2, FS_Subset DEF Waiting

LEMMA EarlyWalkStep ==
  ASSUME EarlyIInv, [EarlyNext]_allVars
  PROVE  i' \in Nat /\ EarlyWalk'
<1>0. /\ EarlyTable /\ i \in Nat /\ ret # "dispatch" /\ nEvents \in Nat
      /\ IsFiniteSet(Live) /\ IsFiniteSet(Waiting) /\ Cardinality(Waiting) \in Nat
  BY EarlyBasics, EarlyWaiting, FS_CardinalityType DEF EarlyIInv
<1>1. CASE pc # "dispatch" /\ ~PollReady
  BY <1>0, <1>1, EarlyElsewhere DEF EarlyWalk
<1>2. CASE PollReady
  <2>1. PICK r \in [Slot -> (SUBSET Dir) \cup {{"err"}}] :
          /\ revents' = r
          /\ ready' = Cardinality({s \in Live : r[s] # {}})
    BY <1>2 DEF PollReady
  <2>2. i' = 0 /\ UNCHANGED pollVars
    BY <1>2 DEF PollReady
  <2>3. Waiting' = {s \in Live : r[s] # {}} /\ Live' = Live
    BY <2>1, <2>2, <1>0 DEF Waiting, Live, pollVars
  <2>4. ready' \in Nat
    BY <1>0, <2>1, FS_Subset, FS_CardinalityType
  <2>5. \A s \in Live : ~(s < i')
    BY <1>0, <2>2 DEF Live
  <2> QED
    BY <2>1, <2>2, <2>3, <2>4, <2>5 DEF EarlyWalk
<1>3. CASE AtSlot /\ (SkipDisabledSlot \/ DisableClosedSlot)
  <2>1. /\ pc = "dispatch" /\ i \in Live /\ i' = i + 1
        /\ UNCHANGED <<fd, files, ready, revents>>
    BY <1>0, <1>3 DEF AtSlot, SkipDisabledSlot, DisableClosedSlot, Live, pollVars, connVars
  <2>2. /\ Live' \subseteq Live
        /\ \A s \in Live' : s # i => Events'[s] = Events[s]
        /\ i \in Live' => Events'[i].fd = NoFd
    <3>1. CASE SkipDisabledSlot
      BY <3>1 DEF SkipDisabledSlot, pollVars, Live
    <3>2. CASE DisableClosedSlot
      <4>1. \/ i = nEvents - 1 /\ nEvents' = nEvents - 1 /\ Events' = Events
            \/ Events' = [Events EXCEPT ![i].fd = NoFd] /\ nEvents' = nEvents
        BY <3>2 DEF DisableClosedSlot, Disable
      <4>2. i \in Slot /\ Live \subseteq Slot /\ Events \in [Slot -> [fd : Fd \cup {NoFd}, events : SUBSET Dir]]
        BY <1>0, <2>1, EarlyBasics DEF EarlyTable, TypeOK
      <4> QED
        BY <1>0, <4>1, <4>2 DEF Live
    <3> QED
      BY <1>3, <3>1, <3>2
  <2>3. \A s \in Live : s \in Int
    BY <1>0 DEF Live
  <2>4. Waiting' \subseteq Waiting
    <3>1. \A s \in Live : i' <= s => i <= s
      BY <1>0, <2>1, <2>3
    <3> QED
      BY <2>1, <2>2, <3>1 DEF Waiting
  <2>5. Cardinality(Waiting') <= ready /\ ready \in Nat
    <3>1. Cardinality(Waiting') <= Cardinality(Waiting) /\ IsFiniteSet(Waiting')
      BY <1>0, <2>4, FS_Subset
    <3>2. Cardinality(Waiting') \in Nat
      BY <3>1, FS_CardinalityType
    <3>3. Cardinality(Waiting) <= ready /\ ready \in Nat
      BY <2>1 DEF EarlyIInv, EarlyWalk
    <3> QED
      BY <1>0, <3>1, <3>2, <3>3
  <2>6. ASSUME NEW s \in Live', s < i', revents'[s] # {}
        PROVE  Events'[s].fd = NoFd \/ fd'[files'[Events'[s].fd]] # NoFd
    <3>1. CASE s = i
      BY <2>2, <2>6, <3>1
    <3>2. CASE s # i
      <4>1. s \in Live /\ s < i /\ revents[s] # {} /\ Events'[s] = Events[s]
        BY <1>0, <2>1, <2>2, <2>3, <2>6, <3>2
      <4> QED
        BY <2>1, <4>1 DEF EarlyIInv, EarlyWalk, IsOpen
    <3> QED
      BY <3>1, <3>2
  <2> QED
    BY <1>0, <2>1, <2>5, <2>6 DEF EarlyWalk, IsOpen
<1>4. CASE PostSlot
  <2> DEFINE hit == Reported(i, files[Events[i].fd])
  <2>1. /\ pc = "dispatch" /\ i \in Live /\ i' = i + 1 /\ ready # 0
        /\ ready' = ready - Found(hit) /\ IsOpen(files[Events[i].fd])
        /\ UNCHANGED <<Events, nEvents, fd, files, revents>>
    BY <1>0, <1>4 DEF PostSlot, AtSlot, Live, pollVars
  <2>2. Live' = Live /\ \A s \in Live : s \in Int
    BY <1>0, <2>1 DEF Live
  <2>3. Waiting' = Waiting \ {i}
    <3>1. \A s \in Live : i' <= s <=> i <= s /\ s # i
      BY <1>0, <2>1, <2>2
    <3> QED
      BY <2>1, <2>2, <3>1 DEF Waiting
  <2>4. Found(hit) = 1 => i \in Waiting
    BY <1>0, <2>1 DEF Found, Reported, Waiting
  <2>5. Found(hit) \in {0, 1}
    BY DEF Found
  <2>6. Cardinality(Waiting) <= ready /\ ready \in Nat
    BY <2>1 DEF EarlyIInv, EarlyWalk
  <2>7. ready' \in Nat /\ Cardinality(Waiting') <= ready'
    <3>1. CASE i \in Waiting
      <4>1. Cardinality(Waiting') = Cardinality(Waiting) - 1
        BY <1>0, <2>3, <3>1, FS_RemoveElement
      <4> HIDE DEF hit
      <4> QED
        BY <1>0, <2>1, <2>5, <2>6, <4>1
    <3>2. CASE i \notin Waiting
      <4>1. Waiting' = Waiting /\ Found(hit) = 0
        BY <2>3, <2>4, <2>5, <3>2
      <4> HIDE DEF hit
      <4> QED
        BY <2>1, <2>6, <4>1
    <3> QED
      BY <3>1, <3>2
  <2>8. ASSUME NEW s \in Live, s < i', revents'[s] # {}
        PROVE  Events'[s].fd = NoFd \/ fd'[files'[Events'[s].fd]] # NoFd
    <3>1. CASE s = i
      BY <2>1, <3>1 DEF IsOpen
    <3>2. CASE s # i
      <4>1. s < i /\ revents[s] # {}
        BY <1>0, <2>1, <2>2, <2>8, <3>2
      <4> QED
        BY <2>1, <4>1 DEF EarlyIInv, EarlyWalk, IsOpen
    <3> QED
      BY <3>1, <3>2
  <2> QED
    BY <1>0, <2>1, <2>2, <2>7, <2>8 DEF EarlyWalk, IsOpen
<1>5. CASE PollDone
  BY <1>5 DEF PollDone, EarlyWalk
<1>6. CASE UNCHANGED allVars
  BY <1>0, <1>6 DEF allVars, loopVars, pollVars, EarlyIInv, EarlyWalk, Waiting, Live, IsOpen
<1>7. CASE pc = "dispatch"
  BY <1>3, <1>4, <1>5, <1>6, <1>7
     DEF EarlyNext, LoopStep, PollNothing, PollReady, SkipDisabledSlot, DisableClosedSlot,
         RunAccept, AcceptDone, RunTimer, ExpireDone, RunPosted, PostedDone, HandlerReturn,
         CloseTooEarly, DefinedEvent, HandlerOpen, HandlerClose, Operation
<1> QED
  BY <1>1, <1>2, <1>7

LEMMA EarlyRetStep ==
  ASSUME ret # "dispatch", [EarlyNext]_allVars
  PROVE  ret' # "dispatch"
<1> USE DEF callVars, Call
<1>1. CASE PollNothing \/ PollReady \/ SkipDisabledSlot \/ DisableClosedSlot \/ PostSlot \/ PollDone
  BY <1>1 DEF PollNothing, PollReady, SkipDisabledSlot, DisableClosedSlot, PostSlot, PollDone
<1>2. CASE RunAccept \/ RunTimer \/ RunPosted
  BY <1>2 DEF RunAccept, RunTimer, RunPosted
<1>3. CASE AcceptDone \/ ExpireDone \/ PostedDone \/ HandlerReturn
  BY <1>3 DEF AcceptDone, ExpireDone, PostedDone, HandlerReturn
<1>4. CASE CloseTooEarly \/ DefinedEvent \/ HandlerOpen \/ HandlerClose
  BY <1>4 DEF CloseTooEarly, DefinedEvent, HandlerOpen, HandlerClose, Operation
<1>5. CASE UNCHANGED allVars
  BY <1>5 DEF allVars, loopVars
<1> QED
  BY <1>1, <1>2, <1>3, <1>4, <1>5 DEF EarlyNext, LoopStep

LEMMA EarlyInitIInv == LoopInit => EarlyIInv
<1> SUFFICES ASSUME LoopInit PROVE EarlyIInv
  OBVIOUS
<1>1. IInv
  BY InitIInv DEF LoopInit
<1>2. nEvents = 0 /\ \A c \in Conn : ~IsOpen(c)
  BY DEF LoopInit, Init, IsOpen
<1>3. BitsInv /\ KnownInv
  BY <1>2 DEF BitsInv, KnownInv, Live
<1>4. i \in Nat /\ ret # "dispatch" /\ EarlyWalk
  BY DEF LoopInit, EarlyWalk
<1> QED
  BY <1>1, <1>3, <1>4 DEF EarlyIInv, EarlyTable, IInv

(* Whatever is closed too early, the table of the open connections, the    *)
(* walk's count and what it leaves behind it are as the invariant says.    *)
THEOREM EarlyInvariant == EarlySpec => []EarlyIInv
<1>1. EarlyIInv /\ [EarlyNext]_allVars => EarlyIInv'
  BY EarlyTableStep, EarlyWalkStep, EarlyRetStep DEF EarlyIInv
<1> QED
  BY <1>1, EarlyInitIInv, PTL DEF EarlySpec

(* Disabling the slots of closed connections, and moving the last slot     *)
(* into the one of a deleted event, costs no open connection its slot: an  *)
(* active event is watched in the slot its index names.                    *)
THEOREM WatchedCorrect == EarlySpec => []OpenKeepWatched
<1>1. EarlyIInv => OpenKeepWatched
  BY DEF EarlyIInv, EarlyTable, IndexInv, BitsInv, OpenKeepWatched
<1> QED
  BY <1>1, EarlyInvariant, PTL

LEMMA EarlyWalkLeaves ==
  ASSUME EarlyIInv, [EarlyNext]_allVars, pc = "dispatch", pc' = "accept"
  PROVE  PollDone
BY DEF EarlyNext, LoopStep, allVars, loopVars, PollNothing, PollReady,
       SkipDisabledSlot, DisableClosedSlot, PostSlot, RunAccept, AcceptDone,
       RunTimer, ExpireDone, RunPosted, PostedDone, HandlerReturn,
       CloseTooEarly, DefinedEvent, HandlerOpen, HandlerClose, Operation

(* The workaround reaches every slot of a closed connection that poll()    *)
(* reported: the walk is not over before, because such a slot is counted   *)
(* and never taken off the count.                                          *)
THEOREM SilencedCorrect == EarlySpec => ClosedIsSilenced
<1> DEFINE Silenced ==
      pc = "dispatch" /\ pc' = "accept" =>
        \A s \in Live : revents[s] # {} =>
          \/ Events[s].fd = NoFd
          \/ IsOpen(files[Events[s].fd])
<1>1. EarlyIInv /\ [EarlyNext]_allVars => Silenced
  <2> SUFFICES ASSUME EarlyIInv, [EarlyNext]_allVars,
                      pc = "dispatch", pc' = "accept", NEW s \in Live, revents[s] # {}
               PROVE  Events[s].fd = NoFd \/ IsOpen(files[Events[s].fd])
    OBVIOUS
  <2>1. ~(i < nEvents) \/ ready = 0
    BY EarlyWalkLeaves DEF PollDone, AtSlot
  <2>2. EarlyTable /\ i \in Nat /\ nEvents \in Nat /\ IsFiniteSet(Waiting) /\ s \in Int
    BY EarlyBasics, EarlyWaiting DEF EarlyIInv, Live
  <2>3. s < i
    <3>1. CASE ~(i < nEvents)
      BY <2>2, <3>1 DEF Live
    <3>2. CASE ready = 0
      <4>1. Cardinality(Waiting) <= 0 /\ Cardinality(Waiting) \in Nat
        BY <2>2, <3>2, FS_CardinalityType DEF EarlyIInv, EarlyWalk
      <4>2. Cardinality(Waiting) = 0
        BY <4>1
      <4>3. Waiting = {}
        BY <2>2, <4>2, FS_EmptySet
      <4>4. ~(i <= s)
        BY <4>3 DEF Waiting
      <4> QED
        BY <2>2, <4>4
    <3> QED
      BY <2>1, <3>1, <3>2
  <2> QED
    BY <2>3 DEF EarlyIInv, EarlyWalk
<1> QED
  BY <1>1, EarlyInvariant, PTL DEF EarlySpec, ClosedIsSilenced
=============================================================================
