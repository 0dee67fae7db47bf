----------------------------- MODULE EventLoop -----------------------------
(***************************************************************************)
(* One process's event loop (src/src/lingx/core/event.cc,                   *)
(* event_poll_module.cc, event_posted.cc): Process_events_and_timers()     *)
(* calls poll(), walks the array and posts the events of every reported    *)
(* slot, then runs the handlers of the accept queue, of the timers that    *)
(* are due and of the posted queue.                                        *)
(*                                                                         *)
(* The process is single-threaded, and the difficulty is re-entrancy: any  *)
(* handler may add and delete events of any connection, open and close     *)
(* connections and so change the array, the flags and the queues the loop  *)
(* is in the middle of.  The handlers are external: a handler is a bounded *)
(* sequence of the operations of PollSet, and so is the start-up code that *)
(* opens the first connections before the loop is entered.  Which timers   *)
(* are due is EventTimers' business; here any set of events may be.        *)
(***************************************************************************)
EXTENDS PollSet, Sequences

CONSTANTS Listening,   \* the connections whose read event has Event::accept
          MaxOps,      \* bound: operations of one handler
          MaxDue       \* bound: timers due in one iteration

ASSUME LoopAssumption == /\ Listening \subseteq Conn
                         /\ MaxOps \in Nat
                         /\ MaxDue \in Nat

VARIABLES
  pc,                    \* where Process_events_and_timers() is
  i,                     \* the slot Poll_process_events_ looks at
  ready,                 \* its count of reported slots still to be found
  revents,               \* pollfd::revents of each slot, as poll() left it
  posted,                \* Event::posted
  Posted_accept_events,  \* the two queues, of <<connection, direction>>
  Posted_events,
  due,                   \* the events whose timer is due in this iteration
  ret,                   \* where the running handler returns to
  ops                    \* operations the running handler has done

loopVars == <<pc, i, ready, revents, posted, Posted_accept_events,
              Posted_events, due, ret, ops>>
allVars  == <<pollVars, loopVars>>
pollPhaseVars == <<i, ready, revents>>
queueVars     == <<posted, Posted_accept_events, Posted_events>>
callVars      == <<ret, ops>>

Event == Conn \X Dir
NoReport == [s \in Slot |-> {}]

(* Event_core_process_init_: two empty queues, no event posted; then the   *)
(* start-up code runs, like a handler that returns into the loop.          *)
LoopInit ==
  /\ Init
  /\ pc = "handler" /\ ret = "poll" /\ ops = 0
  /\ i = 0 /\ ready = 0 /\ revents = NoReport
  /\ posted = [c \in Conn |-> [d \in Dir |-> FALSE]]
  /\ Posted_accept_events = <<>> /\ Posted_events = <<>>
  /\ due = {}

-----------------------------------------------------------------------------
(* poll() fails, is interrupted, times out, or reports at least one slot.  *)
(* The caller ignores what Poll_process_events_ returns.                   *)
PollNothing ==
  /\ pc = "poll"
  /\ pc' = "accept"
  /\ UNCHANGED <<pollVars, pollPhaseVars, queueVars, due, callVars>>

(* What the kernel may report of a slot: nothing of a disabled one,        *)
(* POLLNVAL of a descriptor that is closed, else any of the events asked   *)
(* for, or an error or hangup ("err", whatever comes with it).             *)
MayReport(s) ==
  IF Events[s].fd = NoFd THEN {{}}
  ELSE IF \A c \in Conn : fd[c] # Events[s].fd THEN {{"err"}}
  ELSE (SUBSET Events[s].events) \cup {{"err"}}

PollReady ==
  /\ pc = "poll"
  /\ \E r \in [Slot -> (SUBSET Dir) \cup {{"err"}}] :
       /\ \A s \in Slot : r[s] \in IF s \in Live THEN MayReport(s) ELSE {{}}
       /\ r # NoReport
       /\ revents' = r
       /\ ready' = Cardinality({s \in Live : r[s] # {}})
  /\ i' = 0
  /\ pc' = "dispatch"
  /\ UNCHANGED <<pollVars, queueVars, due, callVars>>

(* The loop of Poll_process_events_ over the slots, one step each.         *)
AtSlot == pc = "dispatch" /\ i < nEvents /\ ready # 0

SkipDisabledSlot ==
  /\ AtSlot
  /\ Events[i].fd = NoFd
  /\ i' = i + 1
  /\ UNCHANGED <<pollVars, pc, ready, revents, queueVars, due, callVars>>

(* "unexpected event": the connection files_ leads to is closed.           *)
DropLast_Always(s) == nEvents' = nEvents - 1 /\ UNCHANGED Events   \* mutant

Disable(s) ==
  IF s = nEvents - 1
  THEN nEvents' = nEvents - 1 /\ UNCHANGED Events
  ELSE Events' = [Events EXCEPT ![s].fd = NoFd] /\ UNCHANGED nEvents

DisableClosedSlot ==
  /\ AtSlot
  /\ Events[i].fd # NoFd
  /\ ~IsOpen(files[Events[i].fd])
  /\ Disable(i)
  /\ i' = i + 1
  /\ UNCHANGED <<index, active, connVars, pc, ready, revents, queueVars,
                 due, callVars>>

(* An error adds POLLIN|POLLOUT; every direction that is reported and      *)
(* active is posted, unless it is already.                                 *)
Reported_NoError(s, c) ==                         \* mutant: HUP alone is lost
  {d \in Dir : d \in revents[s] /\ active[c][d]}

Reported(s, c) ==
  {d \in Dir : (d \in revents[s] \/ "err" \in revents[s]) /\ active[c][d]}

Found_PerEvent(hit) == Cardinality(hit)     \* mutant: counts events, not slots

Found(hit) == IF hit # {} THEN 1 ELSE 0

One(cond, e) == IF cond THEN <<e>> ELSE <<>>

(* Post_event for the read and the write event of one connection.          *)
Post_Unchecked(c, hit) ==                        \* mutant: posted is not read
  LET toAccept == "read" \in hit /\ c \in Listening IN
  /\ posted' = [posted EXCEPT ![c] = [d \in Dir |-> @[d] \/ d \in hit]]
  /\ Posted_accept_events' =
       Posted_accept_events \o One(toAccept, <<c, "read">>)
  /\ Posted_events' = Posted_events
       \o One("read" \in hit /\ ~toAccept, <<c, "read">>)
       \o One("write" \in hit, <<c, "write">>)

Post(c, hit) ==
  LET new      == {d \in hit : ~posted[c][d]}
      toAccept == "read" \in new /\ c \in Listening
  IN
  /\ posted' = [posted EXCEPT ![c] = [d \in Dir |-> @[d] \/ d \in new]]
  /\ Posted_accept_events' =
       Posted_accept_events \o One(toAccept, <<c, "read">>)
  /\ Posted_events' = Posted_events
       \o One("read" \in new /\ ~toAccept, <<c, "read">>)
       \o One("write" \in new, <<c, "write">>)

PostSlot ==
  LET c   == files[Events[i].fd]
      hit == Reported(i, c)
  IN
  /\ AtSlot
  /\ Events[i].fd # NoFd
  /\ IsOpen(c)
  /\ Post(c, hit)
  /\ ready' = ready - Found(hit)
  /\ i' = i + 1
  /\ UNCHANGED <<pollVars, pc, revents, due, callVars>>

(* revents is not read again before poll() overwrites it.                  *)
PollDone ==
  /\ pc = "dispatch" /\ ~AtSlot
  /\ pc' = "accept"
  /\ i' = 0 /\ ready' = 0 /\ revents' = NoReport
  /\ UNCHANGED <<pollVars, queueVars, due, callVars>>

-----------------------------------------------------------------------------
Call(from) == pc' = "handler" /\ ret' = from /\ ops' = 0

(* Delete_posted_event of the head of a queue, then its handler.           *)
Unpost_KeepFlag(e) == UNCHANGED posted                               \* mutant

Unpost(e) == posted' = [posted EXCEPT ![e[1]][e[2]] = FALSE]

RunAccept ==
  /\ pc = "accept" /\ Posted_accept_events # <<>>
  /\ Unpost(Head(Posted_accept_events))
  /\ Posted_accept_events' = Tail(Posted_accept_events)
  /\ Call("accept")
  /\ UNCHANGED <<pollVars, pollPhaseVars, Posted_events, due>>

RunPosted ==
  /\ pc = "posted" /\ Posted_events # <<>>
  /\ Unpost(Head(Posted_events))
  /\ Posted_events' = Tail(Posted_events)
  /\ Call("posted")
  /\ UNCHANGED <<pollVars, pollPhaseVars, Posted_accept_events, due>>

(* When Event_process_posted returns: its while loop, and not an if.       *)
Drained_Once(q) == TRUE                                              \* mutant

Drained(q) == q = <<>>

(* Event_expire_timers() is called only when the time has changed.         *)
AcceptDone ==
  /\ pc = "accept" /\ Drained(Posted_accept_events)
  /\ \/ pc' = "posted" /\ UNCHANGED due
     \/ /\ pc' = "expire"
        /\ \E T \in SUBSET {e \in Event : IsOpen(e[1])} :
             Cardinality(T) <= MaxDue /\ due' = T
  /\ UNCHANGED <<pollVars, pollPhaseVars, queueVars, callVars>>

RunTimer ==
  /\ pc = "expire"
  /\ \E e \in due : due' = due \ {e}
  /\ Call("expire")
  /\ UNCHANGED <<pollVars, pollPhaseVars, queueVars>>

ExpireDone ==
  /\ pc = "expire" /\ due = {}
  /\ pc' = "posted"
  /\ UNCHANGED <<pollVars, pollPhaseVars, queueVars, due, callVars>>

PostedDone ==
  /\ pc = "posted" /\ Drained(Posted_events)
  /\ pc' = "poll"
  /\ UNCHANGED <<pollVars, pollPhaseVars, queueVars, due, callVars>>

-----------------------------------------------------------------------------
(* External: what a handler may do before it returns.                      *)
Operation == /\ pc = "handler" /\ ops < MaxOps
             /\ ops' = ops + 1
             /\ UNCHANGED <<pc, ret, pollPhaseVars>>

HandlerEvent ==
  /\ Operation
  /\ \E c \in Conn, d \in Dir : Poll_add_event(c, d) \/ Poll_del_event(c, d)
  /\ UNCHANGED <<queueVars, due>>

(* Post_event by a handler, not by the start-up code: never of an accept    *)
(* event, and always to the posted queue.                                  *)
HandlerPost ==
  /\ Operation /\ ret # "poll"
  /\ \E c \in Conn, d \in Dir :
       /\ IsOpen(c) /\ ~(c \in Listening /\ d = "read")
       /\ Post(c, {d})
  /\ UNCHANGED <<pollVars, due>>

HandlerOpen ==
  /\ Operation
  /\ \E c \in Conn, f \in Fd : GetConnection(c, f)
  /\ UNCHANGED <<queueVars, due>>

(* Whoever closes a connection takes its two events out of the queue they  *)
(* are in (Delete_posted_event) and out of the timers.                     *)
Linked(q) == {q[k] : k \in 1 .. Len(q)}

Unlink(q, e) ==
  IF e \notin Linked(q) THEN q
  ELSE LET k == CHOOSE k \in 1 .. Len(q) : q[k] = e
       IN  SubSeq(q, 1, k - 1) \o SubSeq(q, k + 1, Len(q))

Without(q, c) == Unlink(Unlink(q, <<c, "read">>), <<c, "write">>)

Forget(c) ==
  /\ posted' = [posted EXCEPT ![c] = [d \in Dir |-> FALSE]]
  /\ Posted_accept_events' = Without(Posted_accept_events, c)
  /\ Posted_events' = Without(Posted_events, c)
  /\ due' = {e \in due : e[1] # c}

HandlerClose ==
  /\ Operation
  /\ \E c \in Conn : CloseConnection(c) /\ Forget(c)

HandlerReturn ==
  /\ pc = "handler"
  /\ pc' = ret
  /\ ops' = 0
  /\ UNCHANGED <<pollVars, pollPhaseVars, queueVars, due, ret>>

Handler == HandlerEvent \/ HandlerPost \/ HandlerOpen \/ HandlerClose

(* Everything the loop does by itself once poll() has returned.            *)
LoopStep ==
  \/ SkipDisabledSlot \/ DisableClosedSlot \/ PostSlot \/ PollDone
  \/ RunAccept \/ AcceptDone \/ RunTimer \/ ExpireDone
  \/ RunPosted \/ PostedDone \/ HandlerReturn

LoopNext == PollNothing \/ PollReady \/ LoopStep \/ Handler

LoopSpec == LoopInit /\ [][LoopNext]_allVars

(* The process runs and its handlers return; nothing is asked of poll().   *)
FairLoopSpec == LoopSpec /\ WF_allVars(LoopStep)

-----------------------------------------------------------------------------
(* Every variable of the loop has its type.                                *)
LoopTypeOK ==
  /\ pc \in {"poll", "dispatch", "accept", "expire", "posted", "handler"}
  /\ i \in 0 .. connection_n
  /\ ready \in 0 .. connection_n
  /\ revents \in [Slot -> (SUBSET Dir) \cup {{"err"}}]
  /\ posted \in [Conn -> [Dir -> BOOLEAN]]
  /\ Posted_accept_events \in Seq(Event)
  /\ Posted_events \in Seq(Event)
  /\ due \subseteq Event
  /\ ret \in {"poll", "accept", "expire", "posted"}
  /\ ops \in 0 .. MaxOps

AcceptEvent == Listening \X {"read"}
Distinct(q) == \A j, k \in 1 .. Len(q) : q[j] = q[k] => j = k

(* An event is flagged posted exactly when it is linked into exactly one   *)
(* of the queues, once: a flag without a link is never posted again, two   *)
(* links corrupt the list.  Accept events are in the accept queue and no   *)
(* others are, and only events of open connections are in either.          *)
QueueInv ==
  LET flagged == {e \in Event : posted[e[1]][e[2]]} IN
  /\ Distinct(Posted_accept_events) /\ Distinct(Posted_events)
  /\ Linked(Posted_accept_events) = flagged \cap AcceptEvent
  /\ Linked(Posted_events) = flagged \ AcceptEvent
  /\ \A e \in flagged : IsOpen(e[1])

(* When poll() may block nothing is left in a queue, and no timer or       *)
(* posted event is handled while a new connection waits to be accepted.    *)
DrainOrder ==
  /\ pc = "poll" => Posted_accept_events = <<>> /\ Posted_events = <<>>
  /\ pc \in {"expire", "posted"} => Posted_accept_events = <<>>

(* When the walk over the slots ends, early or not, every event that       *)
(* poll() reported and that is active has been posted: the count of found  *)
(* slots never runs out before the last of them.                           *)
NoReportLost ==
  [][pc = "dispatch" /\ pc' = "accept" =>
       \A s \in Live : Events[s].fd # NoFd =>
         LET c == files[Events[s].fd] IN
         IsOpen(c) => \A d \in Dir :
           /\ active[c][d]
           /\ d \in revents[s] \/ "err" \in revents[s]
           => posted'[c][d]]_allVars

(* poll() is answered in full: the "poll ready != events" alert is dead.   *)
AllFound == [][pc = "dispatch" /\ pc' = "accept" => ready = 0]_allVars

(* A posted event is handled, or its connection closed, without poll()     *)
(* having to return again.                                                 *)
PostedIsHandled ==
  \A c \in Conn, d \in Dir : posted[c][d] ~> ~posted[c][d]
=============================================================================
