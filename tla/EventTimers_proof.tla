------------------------- MODULE EventTimers_proof --------------------------
(***************************************************************************)
(* However many timers there are and whatever they are armed with, none is *)
(* early, none is left overdue, and poll() sleeps past none: although      *)
(* timers are only looked at when the millisecond has changed, and the     *)
(* timeout is cut to an int.                                               *)
(***************************************************************************)
EXTENDS EventTimers, WellFoundedInduction, TLAPS

TypeInv ==
  /\ clock \in 0 .. MaxClock /\ Current_msec \in 0 .. clock
  /\ pc \in {"loop", "poll", "accept", "expire", "posted"}
  /\ pc # "poll" => clock - Current_msec <= MaxLag
  /\ tree \subseteq Timer /\ key \in [Timer -> Nat]
  /\ timedout \in [Timer -> BOOLEAN]
  /\ delta \in Nat
  /\ deadline \in Nat \cup {Never}

(* No key is farther away than the longest delay, nor in the upper half of *)
(* the word.                                                               *)
KeysAreNear ==
  \A e \in tree : /\ key[e] - Current_msec < IntWord \div 2
                  /\ key[e] < Word \div 2

(* What is due is still in the tree only from the return of poll() to the  *)
(* end of Event_expire_timers, and only if the millisecond has changed.    *)
NoneOverdue ==
  /\ pc = "poll" => delta = Current_msec
  /\ pc \in {"loop", "poll", "posted"} \/ (pc = "accept" /\ ~MustExpire)
       => \A e \in tree : key[e] > Current_msec

FlagsMatch ==
  /\ timer_set \in [Timer -> BOOLEAN] /\ \A e \in Timer : timer_set[e] <=> e \in tree
  /\ \A e \in Timer : timedout[e] => key[e] <= Current_msec

IInv == TypeInv /\ KeysAreNear /\ NoneOverdue /\ FlagsMatch /\ WakesInTime

-----------------------------------------------------------------------------
(* Arithmetic modulo the word changes nothing that fits in it.             *)
LEMMA ModSmall ==
  ASSUME NEW w \in Nat, NEW x \in Nat, x < w PROVE x % w = x
OBVIOUS

LEMMA LeastNatural ==
  ASSUME NEW T \in SUBSET Nat, T # {}
  PROVE  \E x \in T : \A y \in T : x <= y
<1>1. \A x, y \in Nat : <<y, x>> \notin OpToRel(<, Nat) <=> x <= y
  BY DEF OpToRel
<1>2. PICK x \in T : \A y \in T : <<y, x>> \notin OpToRel(<, Nat)
  BY NatLessThanWellFounded, WFMin
<1> QED
  BY <1>1, <1>2

(* *cbegin() of a tree that is not empty is a node due before any other.   *)
LEMMA FirstIsFirst ==
  ASSUME NEW S \in SUBSET Timer, S # {}, key \in [Timer -> Nat]
  PROVE  First(S) \in S /\ \A x \in S : key[First(S)] <= key[x]
<1> DEFINE K == {key[e] : e \in S}
<1>1. K \in SUBSET Nat /\ K # {}
  OBVIOUS
<1>2. PICK e \in S : \A x \in S : key[e] <= key[x]
  <2> HIDE DEF K
  <2>1. PICK k \in K : \A y \in K : k <= y
    BY <1>1, LeastNatural
  <2> QED
    BY <2>1 DEF K
<1> QED
  BY <1>2 DEF First

(* The timeout of poll() is the time to the first timer, or none.          *)
LEMMA TimeoutIsRight ==
  ASSUME TypeInv, KeysAreNear, tree # {}, \A e \in tree : key[e] > Current_msec
  PROVE  /\ Signed(Event_find_timer % IntWord, IntWord) \in Nat
         /\ \A e \in tree :
              Signed(Event_find_timer % IntWord, IntWord) <= key[e] - Current_msec
<1> DEFINE f == First(tree)
           x == key[f] - Current_msec
<1>1. f \in tree /\ \A e \in tree : key[f] <= key[e]
  BY FirstIsFirst DEF TypeInv
<1>2. /\ key[f] \in Nat /\ Current_msec \in Nat /\ \A e \in tree : key[e] \in Nat
      /\ Word \in Nat /\ IntWord \in Nat
  BY <1>1, DelayAssumption DEF TypeInv
<1>3. x \in Nat /\ 0 < x /\ x < IntWord \div 2 /\ x < Word \div 2
  BY <1>1, <1>2 DEF KeysAreNear
<1>4. x < Word /\ x < IntWord
  BY <1>2, <1>3
<1>5. x % Word = x /\ x % IntWord = x
  BY <1>2, <1>3, <1>4, ModSmall
<1>6. Signed(x, Word) = x /\ Signed(x, IntWord) = x
  BY <1>3 DEF Signed
<1>7. Event_find_timer = x
  BY <1>3, <1>5, <1>6 DEF Event_find_timer
<1>8. \A e \in tree : x <= key[e] - Current_msec
  BY <1>1, <1>2
<1> QED
  BY <1>3, <1>5, <1>6, <1>7, <1>8

-----------------------------------------------------------------------------
(* A function is what it is at each of its points, Boolean ones too.       *)
LEMMA FlagsAsFunction ==
  ASSUME NEW flag \in [Timer -> BOOLEAN], NEW S,
         \A e \in Timer : flag[e] <=> e \in S
  PROVE  flag = [e \in Timer |-> e \in S]
<1>1. flag = [e \in Timer |-> flag[e]]
  OBVIOUS
<1>2. \A e \in Timer : flag[e] = (e \in S)
  OBVIOUS
<1> QED
  BY <1>1, <1>2, Zenon

LEMMA InitOK == Init => IInv
<1> SUFFICES ASSUME Init PROVE IInv
  OBVIOUS
<1>1. TypeInv
  BY DelayAssumption DEF Init, TypeInv, Never
<1>2. KeysAreNear /\ NoneOverdue /\ WakesInTime
  BY DEF Init, KeysAreNear, NoneOverdue, WakesInTime, MustExpire
<1>3. timer_set \in [Timer -> BOOLEAN] /\ \A e \in Timer : timer_set[e] <=> e \in tree
  BY DEF Init
<1>4. \A e \in Timer : ~timedout[e]
  BY DEF Init
<1> QED
  BY <1>1, <1>2, <1>3, <1>4 DEF IInv, FlagsMatch

LEMMA CallPollKeeps == ASSUME IInv, CallPoll PROVE IInv'
<1> DEFINE timeout == Signed(Event_find_timer % IntWord, IntWord)
<1>1. /\ clock \in Nat /\ Current_msec \in Nat /\ clock - Current_msec <= MaxLag
      /\ MaxLag \in Nat /\ \A e \in tree : key[e] \in Nat /\ key[e] > Current_msec
  BY DelayAssumption DEF IInv, TypeInv, NoneOverdue, CallPoll
<1>2. /\ deadline' = (IF timeout < 0 THEN Never ELSE clock + timeout)
      /\ delta' = Current_msec /\ pc' = "poll"
      /\ UNCHANGED <<clock, Current_msec, timerVars>>
  BY DEF CallPoll
<1>3. CASE tree = {}
  <2>1. TIMER_INFINITE % IntWord \in 0 .. IntWord - 1
    BY DelayAssumption DEF TIMER_INFINITE
  <2>2. timeout \in Int
    BY <1>3, <2>1, DelayAssumption DEF Event_find_timer, Signed
  <2>3. deadline' \in Nat \cup {Never}
    BY <1>1, <1>2, <2>2
  <2>4. TypeInv'
    BY <1>1, <1>2, <2>3 DEF IInv, TypeInv, timerVars
  <2>5. FlagsMatch'
    BY <1>2 DEF IInv, FlagsMatch, timerVars
  <2> QED
    BY <1>2, <1>3, <2>4, <2>5
       DEF IInv, KeysAreNear, NoneOverdue, WakesInTime, timerVars
<1>4. CASE tree # {}
  <2>1. timeout \in Nat /\ \A e \in tree : timeout <= key[e] - Current_msec
    BY <1>1, <1>4, TimeoutIsRight DEF IInv
  <2> HIDE DEF timeout
  <2>2. deadline' = clock + timeout
    BY <1>2, <2>1
  <2>3. deadline' \in Nat /\ \A e \in tree : deadline' <= key[e] + MaxLag
    BY <1>1, <2>1, <2>2
  <2>4. TypeInv'
    BY <1>1, <1>2, <2>3 DEF IInv, TypeInv, timerVars
  <2>5. KeysAreNear' /\ FlagsMatch'
    BY <1>2 DEF IInv, KeysAreNear, FlagsMatch, timerVars
  <2>6. NoneOverdue' /\ WakesInTime'
    BY <1>1, <1>2, <2>3 DEF NoneOverdue, WakesInTime, timerVars, Never
  <2> QED
    BY <2>4, <2>5, <2>6 DEF IInv
<1> QED
  BY <1>3, <1>4

(* If the millisecond has not changed across poll(), nothing is due.       *)
LEMMA ReturnKeeps == ASSUME IInv, pc = "poll", Return PROVE IInv'
<1>1. /\ clock \in Nat /\ delta = Current_msec /\ Current_msec \in 0 .. clock
      /\ clock < Word /\ Word \in Nat
      /\ \A e \in tree : key[e] \in Nat /\ key[e] > Current_msec
  BY DelayAssumption DEF IInv, TypeInv, NoneOverdue
<1>2. delta' = clock - Current_msec
  <2>1. clock - delta \in Nat /\ clock - delta < Word
    BY <1>1
  <2> QED
    BY <1>1, <2>1, ModSmall DEF Return
<1>3. /\ Current_msec' = clock /\ pc' = "accept"
      /\ UNCHANGED <<clock, timerVars, deadline>>
  BY DEF Return
<1>4. TypeInv'
  BY <1>1, <1>2, <1>3, DelayAssumption DEF IInv, TypeInv, timerVars
<1>5. KeysAreNear'
  BY <1>1, <1>3, DelayAssumption DEF IInv, KeysAreNear, timerVars
<1>6. NoneOverdue'
  BY <1>1, <1>2, <1>3 DEF NoneOverdue, MustExpire, timerVars
<1>7. FlagsMatch' /\ WakesInTime'
  BY <1>1, <1>3 DEF IInv, TypeInv, FlagsMatch, WakesInTime, timerVars
<1> QED
  BY <1>4, <1>5, <1>6, <1>7 DEF IInv

LEMMA ArmKeeps == ASSUME IInv, NEW e \in Timer, NEW d \in Delay, Arm(e, d) PROVE IInv'
<1>1. /\ Current_msec \in Nat /\ d \in Nat /\ d > 0 /\ d < IntWord \div 2
      /\ Current_msec + d < Word \div 2 /\ Word \in Nat /\ IntWord \in Nat
  BY DelayAssumption DEF IInv, TypeInv
<1>2. (Current_msec + d) % Word = Current_msec + d
  BY <1>1, ModSmall
<1>3. /\ key' = [key EXCEPT ![e] = Current_msec + d]
      /\ tree' = tree \cup {e} /\ e \notin tree
      /\ timer_set' = [timer_set EXCEPT ![e] = TRUE]
      /\ timedout' = [timedout EXCEPT ![e] = FALSE]
      /\ UNCHANGED <<clock, Current_msec, pc, delta, deadline>>
      /\ pc # "poll"
  BY <1>2 DEF Arm, IInv, FlagsMatch, InHandler
<1>4. TypeInv'
  BY <1>1, <1>3 DEF IInv, TypeInv
<1>5. KeysAreNear' /\ NoneOverdue'
  BY <1>1, <1>3 DEF IInv, TypeInv, KeysAreNear, NoneOverdue, MustExpire
<1>6. FlagsMatch'
  <2>1. /\ timer_set' \in [Timer -> BOOLEAN]
        /\ \A x \in Timer : timer_set'[x] <=> x \in tree'
    BY <1>3 DEF IInv, FlagsMatch
  <2>2. \A x \in Timer : timedout'[x] => key'[x] <= Current_msec'
    BY <1>1, <1>3 DEF IInv, TypeInv, FlagsMatch
  <2> QED
    BY <2>1, <2>2 DEF FlagsMatch
<1>7. WakesInTime'
  BY <1>3 DEF WakesInTime
<1> QED
  BY <1>4, <1>5, <1>6, <1>7 DEF IInv

(* Expiry and disarming take a timer out.                                  *)
LEMMA UnlinkKeeps ==
  ASSUME IInv, NEW e \in Timer, Expire(e) \/ Disarm(e) PROVE IInv'
<1>1. /\ Unlink(e) /\ UNCHANGED <<clock, Current_msec, key, pc, delta, deadline>>
      /\ timedout' \in [Timer -> BOOLEAN] /\ pc # "poll"
      /\ \A x \in Timer : timedout'[x] => timedout[x] \/ key[x] <= Current_msec
  <2>1. key[e] \in Nat /\ Current_msec \in Nat /\ timedout \in [Timer -> BOOLEAN]
    BY DEF IInv, TypeInv
  <2>2. CASE Expire(e)
    BY <2>1, <2>2 DEF Expire, Later
  <2>3. CASE Disarm(e)
    BY <2>1, <2>3 DEF Disarm, InHandler
  <2> QED
    BY <2>2, <2>3
<1>2. tree' \subseteq tree /\ pc' = pc /\ pc # "poll" /\ key' = key
  BY <1>1 DEF Unlink
<1>3. TypeInv'
  BY <1>1, <1>2 DEF IInv, TypeInv
<1>4. KeysAreNear' /\ NoneOverdue' /\ WakesInTime'
  BY <1>1, <1>2 DEF IInv, KeysAreNear, NoneOverdue, WakesInTime, MustExpire
<1>5. /\ timer_set' \in [Timer -> BOOLEAN]
      /\ \A x \in Timer : timer_set'[x] <=> x \in tree'
  BY <1>1 DEF Unlink, IInv, FlagsMatch
<1>6. \A x \in Timer : timedout'[x] => key'[x] <= Current_msec'
  BY <1>1 DEF IInv, FlagsMatch
<1> QED
  BY <1>3, <1>4, <1>5, <1>6 DEF IInv, FlagsMatch

LEMMA LoopKeeps ==
  ASSUME IInv, AcceptDone \/ ExpireDone \/ PostedDone \/ Tick PROVE IInv'
<1>1. CASE AcceptDone
  BY <1>1 DEF AcceptDone, IInv, TypeInv, KeysAreNear, NoneOverdue, FlagsMatch,
              WakesInTime, timerVars, MustExpire
<1>2. CASE ExpireDone
  <2>1. \A e \in tree : key[e] > Current_msec
    <3>1. /\ tree \subseteq Timer /\ key \in [Timer -> Nat] /\ Current_msec \in Nat
          /\ \A e \in tree : key[e] \in Nat
      BY DEF IInv, TypeInv
    <3>2. CASE tree # {}
      BY <1>2, <3>1, <3>2, FirstIsFirst DEF ExpireDone, Later
    <3> QED
      BY <3>2
  <2> QED
    BY <1>2, <2>1 DEF ExpireDone, IInv, TypeInv, KeysAreNear, NoneOverdue, FlagsMatch,
              WakesInTime, timerVars, MustExpire
<1>3. CASE PostedDone
  BY <1>3 DEF PostedDone, IInv, TypeInv, KeysAreNear, NoneOverdue, FlagsMatch,
              WakesInTime, timerVars, MustExpire
<1>4. CASE Tick
  BY <1>4, DelayAssumption DEF Tick, IInv, TypeInv, KeysAreNear, NoneOverdue,
              FlagsMatch, WakesInTime, timerVars, MustExpire
<1> QED
  BY <1>1, <1>2, <1>3, <1>4

LEMMA Invariant == Spec => []IInv
<1>1. IInv /\ [Next]_vars => IInv'
  <2> SUFFICES ASSUME IInv, [Next]_vars PROVE IInv'
    OBVIOUS
  <2>1. CASE UNCHANGED vars
    BY <2>1 DEF vars, timerVars, IInv, TypeInv, KeysAreNear, NoneOverdue,
                FlagsMatch, WakesInTime, MustExpire
  <2>2. CASE PollTimeout \/ PollEvent
    BY <2>2, ReturnKeeps DEF PollTimeout, PollEvent
  <2> QED
    BY <2>1, <2>2, CallPollKeeps, ArmKeeps, UnlinkKeeps, LoopKeeps
       DEF Next, LoopStep
<1> QED
  BY <1>1, InitOK, PTL DEF Spec

(* TimersOnTime: flags and tree agree, no timer is reported early, and     *)
(* none that was due at the last look at the clock is left when the loop   *)
(* is about to sleep, for any delays and numbers of timers.                *)
THEOREM OnTimeCorrect == Spec => []TimersOnTime
<1>1. ASSUME IInv PROVE TimersOnTime
  <2>1. /\ timer_set \in [Timer -> BOOLEAN]
        /\ \A e \in Timer : timer_set[e] <=> e \in tree
        /\ \A e \in Timer : timedout[e] => key[e] <= Current_msec
    BY <1>1, Zenon DEF IInv, FlagsMatch
  <2>2. timer_set = [e \in Timer |-> e \in tree]
    BY <2>1, FlagsAsFunction
  <2>3. pc = "loop" => \A e \in tree : key[e] > Current_msec
    BY <1>1 DEF IInv, NoneOverdue
  <2> QED
    BY <2>1, <2>2, <2>3, Zenon DEF TimersOnTime
<1> QED
  BY <1>1, Invariant, PTL

(* WakesInTime: the timeout poll() is called with, computed modulo 2^64    *)
(* and cut to a signed int, is never infinite while a timer is armed and   *)
(* never longer than the first of them allows.                             *)
THEOREM WakesCorrect == Spec => []WakesInTime
BY Invariant, PTL DEF IInv
=============================================================================
