---------------------------- MODULE EventTimers ----------------------------
(***************************************************************************)
(* The timers of the event loop (src/src/lingx/core/event_timer.cc) and    *)
(* how Process_events_and_timers() times poll() by them.                   *)
(*                                                                         *)
(* The tree is a std::set of nodes compared by their keys, so it has the   *)
(* nodes in the order they are due and never two with one key.  Nothing in *)
(* the repository arms a timer yet: Arm and Disarm are external and say    *)
(* what find and expire rely on (a key nobody else has, a delay of at      *)
(* least one millisecond).                                                 *)
(*                                                                         *)
(* Keys and times are of type msec_t, Word values; poll() takes an int,    *)
(* IntWord values, the upper half of which are negative: no timeout.       *)
(***************************************************************************)
EXTENDS Integers, FiniteSets

CONSTANTS Timer,      \* the events that have a timer
          Delay,      \* the delays timers are armed with
          Word,       \* 2^64 in the code
          IntWord,    \* 2^32 in the code
          MaxClock,   \* bound: the clock
          MaxLag      \* bound: milliseconds handlers run between two updates

ASSUME DelayAssumption ==
  /\ Word \in Nat \ {0} /\ IntWord \in Nat \ {0} /\ Word % IntWord = 0
  /\ MaxClock \in Nat /\ MaxLag \in Nat
  /\ Delay \subseteq 1 .. (IntWord \div 2 - 1)
  /\ \A d \in Delay \cup {0} : MaxClock + d < Word \div 2

TIMER_INFINITE == Word - 1           \* (msec_t) -1
Never == -1                          \* the deadline of a poll() without timeout

VARIABLES
  clock,         \* the time gettimeofday() would return
  Current_msec,
  tree,          \* the events in Event_timer_rbtree_
  key,           \* Event::timer.key
  timer_set,     \* Event::timer_set
  timedout,      \* Event::timedout
  pc,            \* where Process_events_and_timers() is
  delta,         \* its delta
  deadline       \* when the current poll() times out

timerVars == <<tree, key, timer_set, timedout>>
vars == <<clock, Current_msec, timerVars, pc, delta, deadline>>

Init ==
  /\ clock = 0 /\ Current_msec = 0
  /\ tree = {} /\ key = [e \in Timer |-> 0]
  /\ timer_set = [e \in Timer |-> FALSE]
  /\ timedout = [e \in Timer |-> FALSE]
  /\ pc = "loop" /\ delta = 0 /\ deadline = Never

Signed(x, w) == IF x < w \div 2 THEN x ELSE x - w

(* *cbegin(): the node with the smallest key.                              *)
First_Last(S) == CHOOSE e \in S : \A x \in S : key[x] <= key[e]      \* mutant

First(S) == CHOOSE e \in S : \A x \in S : key[e] <= key[x]

Event_find_timer ==
  IF tree = {} THEN TIMER_INFINITE
  ELSE LET timer == Signed((key[First(tree)] - Current_msec) % Word, Word)
       IN  IF timer > 0 THEN timer ELSE 0

(* poll() is called with the timeout (int) timer.                          *)
CallPoll ==
  /\ pc = "loop"
  /\ LET timeout == Signed(Event_find_timer % IntWord, IntWord)
     IN  deadline' = IF timeout < 0 THEN Never ELSE clock + timeout
  /\ delta' = Current_msec
  /\ pc' = "poll"
  /\ UNCHANGED <<clock, Current_msec, timerVars>>

(* poll() returns for an event or a signal at any time, or on its timeout; *)
(* Time_update() follows at once.                                          *)
Return ==
  /\ Current_msec' = clock
  /\ delta' = (clock - delta) % Word
  /\ pc' = "accept"
  /\ UNCHANGED <<clock, timerVars, deadline>>

PollEvent   == pc = "poll" /\ Return
PollTimeout == pc = "poll" /\ deadline # Never /\ deadline <= clock /\ Return

(* Timers are looked at only when the millisecond has changed.             *)
MustExpire_Never == FALSE                                            \* mutant

MustExpire == delta # 0

AcceptDone ==
  /\ pc = "accept"
  /\ pc' = IF MustExpire THEN "expire" ELSE "posted"
  /\ UNCHANGED <<clock, Current_msec, timerVars, delta, deadline>>

Later_OrNow(k) == k >= Current_msec        \* mutant: due now is not yet due

Later(k) == k > Current_msec

Unlink(e) == /\ tree' = tree \ {e}
             /\ timer_set' = [timer_set EXCEPT ![e] = FALSE]

(* One turn of Event_expire_timers; the handler runs in the states after.  *)
Expire(e) ==
  /\ pc = "expire" /\ tree # {}
  /\ e = First(tree) /\ ~Later(key[e])
  /\ Unlink(e)
  /\ timedout' = [timedout EXCEPT ![e] = TRUE]
  /\ UNCHANGED <<clock, Current_msec, key, pc, delta, deadline>>

ExpireDone ==
  /\ pc = "expire"
  /\ tree # {} => Later(key[First(tree)])
  /\ pc' = "posted"
  /\ UNCHANGED <<clock, Current_msec, timerVars, delta, deadline>>

PostedDone ==
  /\ pc = "posted"
  /\ pc' = "loop"
  /\ UNCHANGED <<clock, Current_msec, timerVars, delta, deadline>>

(* External: handlers arm and disarm timers, and take time.                *)
InHandler == pc \in {"accept", "expire", "posted"}

Arm(e, d) ==
  /\ InHandler /\ ~timer_set[e]
  /\ LET k == (Current_msec + d) % Word IN
     /\ \A x \in tree : key[x] # k
     /\ key' = [key EXCEPT ![e] = k]
  /\ tree' = tree \cup {e}
  /\ timer_set' = [timer_set EXCEPT ![e] = TRUE]
  /\ timedout' = [timedout EXCEPT ![e] = FALSE]
  /\ UNCHANGED <<clock, Current_msec, pc, delta, deadline>>

Disarm(e) ==
  /\ InHandler /\ timer_set[e]
  /\ Unlink(e)
  /\ UNCHANGED <<clock, Current_msec, key, timedout, pc, delta, deadline>>

Tick ==
  /\ clock < MaxClock
  /\ pc = "poll" \/ clock - Current_msec < MaxLag
  /\ clock' = clock + 1
  /\ UNCHANGED <<Current_msec, timerVars, pc, delta, deadline>>

LoopStep == CallPoll \/ PollTimeout \/ AcceptDone \/ ExpireDone \/ PostedDone
            \/ \E e \in Timer : Expire(e)

Next ==
  \/ LoopStep \/ PollEvent \/ Tick
  \/ \E e \in Timer : Disarm(e) \/ \E d \in Delay : Arm(e, d)

(* The loop runs whenever it can, poll() returns on its timeout, and time  *)
(* passes.  No event is promised to come.                                  *)
Spec == Init /\ [][Next]_vars /\ WF_vars(LoopStep) /\ WF_vars(Tick)

-----------------------------------------------------------------------------
(* A timer is flagged set exactly when it is in the tree; none is reported *)
(* as timed out before its time; and when the loop is about to sleep none  *)
(* is left that was due at its last look at the clock, although it looks   *)
(* at the timers only when the millisecond has changed (event.cc:105,      *)
(* event_timer.cc:24-45).                                                  *)
TimersOnTime ==
  /\ timer_set = [e \in Timer |-> e \in tree]
  /\ \A e \in Timer : timedout[e] => key[e] <= Current_msec
  /\ pc = "loop" => \A e \in tree : key[e] > Current_msec

(* While a timer is armed poll() is never called without a timeout, and it *)
(* sleeps past no timer by more than Current_msec was behind the clock.    *)
WakesInTime ==
  pc = "poll" => \A e \in tree : deadline # Never /\ deadline <= key[e] + MaxLag

(* An armed timer expires, or is disarmed by a handler, as soon as the     *)
(* clock goes on for long enough, even if no other event ever comes.       *)
TimerFires ==
  \A e \in Timer : (e \in tree /\ key[e] + MaxLag <= MaxClock) ~> (e \notin tree)
=============================================================================
