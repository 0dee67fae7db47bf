----------------------------- MODULE TimeCache -----------------------------
(***************************************************************************)
(* The cached time (src/src/lingx/core/times.cc).  Time_update() runs in   *)
(* the main flow, Time_sigsafe_update() in signal handlers, and a handler  *)
(* may interrupt the main flow or another handler between any two steps:   *)
(* Init_signals leaves sa_mask empty, so only the signal being handled is  *)
(* blocked.  Both write a ring of TIME_SLOTS_ slots under a mutex that is  *)
(* only ever tried, publish the slot when it is complete, and leave it     *)
(* alone until the ring comes round, because whoever reads the published   *)
(* time (every log line does) holds no lock.                               *)
(*                                                                         *)
(* The flows of control are a stack of frames: the main flow at the        *)
(* bottom, one frame per handler that is running above it; the top frame   *)
(* takes the steps.  Time zones are left out: a string of the log time is  *)
(* the second it was formatted from.                                       *)
(***************************************************************************)
EXTENDS Integers, Sequences

CONSTANTS TIME_SLOTS,   \* TIME_SLOTS_, 64 in the code
          Signal,       \* the signals Init_signals installs the handler for
          MaxClock,     \* bound: the clock, in half seconds
          MaxSignals    \* bound: signals delivered

ASSUME TimeAssumption == /\ TIME_SLOTS \in Nat \ {0, 1}
                         /\ MaxClock \in Nat
                         /\ MaxSignals \in Nat
                         /\ "main" \notin Signal

Slots == 0 .. TIME_SLOTS - 1
Torn  == -1                         \* a string sprintf() is in the middle of
Sec(t)  == t \div 2                 \* tv.tv_sec
Msec(t) == t % 2                    \* tv.tv_usec, in units of 500 ms

VARIABLES
  clock,                 \* what gettimeofday() returns
  locked,                \* Mutex_
  Slot_,
  Cached_time_,          \* the ring of [sec, msec]
  Cached_err_log_time_,  \* the ring of formatted strings
  Cached_time,           \* the published slots
  Cached_err_log_time,
  stack,                 \* the frames, the running one last
  phase,                 \* how far main() is: "init", "forced" or "running"
  signals,               \* signals delivered so far
  advances,              \* history: how often Slot_ has moved
  updated                \* history: advances when Time_update() last returned

ringVars    == <<Slot_, Cached_time_, Cached_err_log_time_>>
publishVars == <<Cached_time, Cached_err_log_time>>
envVars     == <<clock, phase, signals>>
historyVars == <<advances, updated>>
vars == <<envVars, locked, ringVars, publishVars, stack, historyVars>>

Top    == stack[Len(stack)]
IsMain == Len(stack) = 1

Frame(t, at) == [task |-> t,          \* "main" or the signal
                 pc   |-> at,
                 now  |-> 0,          \* what gettimeofday() returned
                 ptr  |-> 0,          \* the slot a log line is copied from
                 str  |-> 0,          \* the first part of the copy
                 mark |-> 0]          \* advances when the copy began

At(at)   == Top.pc = at
Goto(at) == stack' = [stack EXCEPT ![Len(stack)].pc = at]

(* Time_init() calls Time_update() with Cached_time at slot 0.             *)
Init ==
  /\ clock \in {2, 3} /\ phase = "init" /\ signals = 0
  /\ locked = FALSE
  /\ Slot_ = 0
  /\ Cached_time_ = [s \in Slots |-> [sec |-> 0, msec |-> 0]]
  /\ Cached_err_log_time_ = [s \in Slots |-> 0]
  /\ Cached_time = 0 /\ Cached_err_log_time = 0
  /\ stack = <<Frame("main", "lock")>>
  /\ advances = 0 /\ updated = 0

-----------------------------------------------------------------------------
(* The environment: time passes, a signal is delivered.                    *)
Tick ==
  /\ clock < MaxClock
  /\ clock' = clock + 1
  /\ UNCHANGED <<phase, signals, locked, ringVars, publishVars, stack, historyVars>>

Deliver(s) ==
  /\ phase = "running"
  /\ signals < MaxSignals
  /\ \A k \in 1 .. Len(stack) : stack[k].task # s
  /\ signals' = signals + 1
  /\ stack' = Append(stack, Frame(s, "lock"))
  /\ UNCHANGED <<clock, phase, locked, ringVars, publishVars, historyVars>>

(* The main flow between its calls: Init_new_cycle() forgets the cached    *)
(* second to force a new slot, and Init_signals() follows; then poll()     *)
(* returns (Time_update) or a line is logged.                              *)
ForceUpdate ==
  /\ IsMain /\ At("idle") /\ phase = "init"
  /\ phase' = "forced"
  /\ Cached_time_' = [Cached_time_ EXCEPT ![Cached_time].sec = 0]
  /\ Goto("lock")
  /\ UNCHANGED <<clock, signals, locked, Slot_, Cached_err_log_time_,
                 publishVars, historyVars>>

InstallSignals ==
  /\ IsMain /\ At("idle") /\ phase = "forced"
  /\ phase' = "running"
  /\ UNCHANGED <<clock, signals, locked, ringVars, publishVars, stack, historyVars>>

MainCalls ==
  /\ IsMain /\ At("idle") /\ phase = "running"
  /\ Goto("lock") \/ Goto("read")
  /\ UNCHANGED <<envVars, locked, ringVars, publishVars, historyVars>>

-----------------------------------------------------------------------------
(* Where a call returns to: the main flow goes on, and the handler, whose  *)
(* next statement is a log line, reads the time.                           *)
Return ==
  /\ Goto(IF IsMain THEN "idle" ELSE "read")
  /\ updated' = IF IsMain THEN advances ELSE updated

TryLock_Ignored ==                          \* mutant: goes on without the lock
  /\ At("lock")
  /\ Goto("clock") /\ locked' = TRUE
  /\ UNCHANGED <<envVars, ringVars, publishVars, historyVars>>

(* try_lock(), and the early return when it fails.                         *)
TryLock ==
  /\ At("lock")
  /\ IF locked THEN Return /\ UNCHANGED locked
               ELSE Goto("clock") /\ locked' = TRUE /\ UNCHANGED updated
  /\ UNCHANGED <<envVars, ringVars, publishVars, advances>>

Gettimeofday ==
  /\ At("clock")
  /\ stack' = [stack EXCEPT ![Len(stack)].now = clock, ![Len(stack)].pc = "check"]
  /\ UNCHANGED <<envVars, locked, ringVars, publishVars, historyVars>>

(* The second has not changed: the slot is kept.                           *)
SameSecond ==
  /\ At("check")
  /\ Cached_time_[Slot_].sec = Sec(Top.now)
  /\ Cached_time_' = IF IsMain
                     THEN [Cached_time_ EXCEPT ![Slot_].msec = Msec(Top.now)]
                     ELSE Cached_time_
  /\ locked' = FALSE
  /\ Return
  /\ UNCHANGED <<envVars, Slot_, Cached_err_log_time_, publishVars, advances>>

NextSlot_Same == Slot_                                    \* mutant: no ring

NextSlot_Short == (Slot_ + 1) % (TIME_SLOTS - 1)          \* mutant: off by one

NextSlot == (Slot_ + 1) % TIME_SLOTS

(* A new slot.  Time_sigsafe_update() cannot call localtime_r(): it leaves *)
(* sec 0 in the slot, which no Time_update() takes for the current second. *)
NewTime_SafeSec(t) == [sec |-> Sec(t), msec |-> Msec(t)]             \* mutant

NewTime(t) ==
  IF IsMain THEN [sec |-> Sec(t), msec |-> Msec(t)]
            ELSE [sec |-> 0, msec |-> Cached_time_[NextSlot].msec]

NewSecond ==
  /\ At("check")
  /\ Cached_time_[Slot_].sec # Sec(Top.now)
  /\ Slot_' = NextSlot
  /\ Cached_time_' = [Cached_time_ EXCEPT ![Slot_'] = NewTime(Top.now)]
  /\ advances' = advances + 1
  /\ Goto("format")
  /\ UNCHANGED <<envVars, locked, Cached_err_log_time_, publishVars, updated>>

(* sprintf() into the slot, in two steps.                                  *)
Format ==
  /\ \/ /\ At("format")
        /\ Cached_err_log_time_' = [Cached_err_log_time_ EXCEPT ![Slot_] = Torn]
        /\ Goto("formatting")
     \/ /\ At("formatting")
        /\ Cached_err_log_time_' =
             [Cached_err_log_time_ EXCEPT ![Slot_] = Sec(Top.now)]
        /\ Goto("publish")
  /\ UNCHANGED <<envVars, locked, Slot_, Cached_time_, publishVars, historyVars>>

(* Only Time_update() publishes the Time; the lock is released on return.  *)
PublishTime ==
  /\ At("publish") /\ IsMain
  /\ Cached_time' = Slot_
  /\ Goto("publish string")
  /\ UNCHANGED <<envVars, locked, ringVars, Cached_err_log_time, historyVars>>

PublishString ==
  /\ \/ At("publish") /\ ~IsMain
     \/ At("publish string")
  /\ Cached_err_log_time' = Slot_
  /\ locked' = FALSE
  /\ Return
  /\ UNCHANGED <<envVars, ringVars, Cached_time, advances>>

(* Log::log copies the published string, and is interrupted half-way.      *)
StartCopy ==
  /\ At("read")
  /\ stack' = [stack EXCEPT ![Len(stack)] =
       [@ EXCEPT !.ptr  = Cached_err_log_time,
                 !.str  = Cached_err_log_time_[Cached_err_log_time],
                 !.mark = advances,
                 !.pc   = "copy"]]
  /\ UNCHANGED <<envVars, locked, ringVars, publishVars, historyVars>>

EndCopy ==
  /\ At("copy")
  /\ IF IsMain THEN Goto("idle")
               ELSE stack' = SubSeq(stack, 1, Len(stack) - 1)
  /\ UNCHANGED <<envVars, locked, ringVars, publishVars, historyVars>>

Next ==
  \/ Tick \/ \E s \in Signal : Deliver(s)
  \/ ForceUpdate \/ InstallSignals \/ MainCalls
  \/ TryLock \/ Gettimeofday \/ SameSecond \/ NewSecond
  \/ Format \/ PublishTime \/ PublishString
  \/ StartCopy \/ EndCopy

Spec == Init /\ [][Next]_vars

-----------------------------------------------------------------------------
(* What anybody may read at any moment, a handler that interrupts the      *)
(* update included, is a complete string, in the ring.                     *)
PublishedIsComplete ==
  /\ Cached_err_log_time \in Slots
  /\ Cached_err_log_time_[Cached_err_log_time] # Torn

(* A log line's time is read in two parts and its slot is left alone in    *)
(* between, while fewer than TIME_SLOTS new slots are taken meanwhile.     *)
CopyIsIntact ==
  \A k \in 1 .. Len(stack) :
    stack[k].pc = "copy" /\ advances - stack[k].mark < TIME_SLOTS
      => Cached_err_log_time_[stack[k].ptr] = stack[k].str

(* The time in the log never goes backwards, although handlers and the     *)
(* main flow read the clock and publish in turns.                          *)
NeverBackward ==
  [][Cached_err_log_time_'[Cached_err_log_time']
       >= Cached_err_log_time_[Cached_err_log_time]]_vars

(* Outside Time_update() the published Time is what the last Time_update() *)
(* read from the clock, whatever handlers have run since, while they took  *)
(* fewer than TIME_SLOTS slots: no Time_update() of the main flow finds    *)
(* the lock taken, or mistakes a handler's slot for its own.               *)
CachedTimeIsCurrent ==
  /\ IsMain /\ At("lock") => ~locked
  /\ phase = "running" /\ stack[1].pc \in {"idle", "read", "copy"}
       /\ advances - updated < TIME_SLOTS
     => Cached_time_[Cached_time] = [sec  |-> Sec(stack[1].now),
                                     msec |-> Msec(stack[1].now)]
=============================================================================
