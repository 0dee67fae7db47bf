-------------------------- MODULE TimeCache_proof ---------------------------
(***************************************************************************)
(* However deep signal handlers are nested and wherever they interrupt     *)
(* each other, and however large the ring is, a reader without a lock gets *)
(* a complete time, and times in the log do not go back.                   *)
(***************************************************************************)
EXTENDS TimeCache, TLAPS

(* Where a frame is that has the lock, and where one that has taken a new  *)
(* slot and not published its string yet.                                  *)
Writing  == {"format", "formatting", "publish", "publish string"}
Critical == {"clock", "check"} \cup Writing
Place    == {"lock", "idle", "read", "copy"} \cup Critical

FrameSet == [task : Signal \cup {"main"}, pc : Place, now : Nat,
             ptr : Slots, str : Int, mark : Nat]

Frames    == 1 .. Len(stack)
Writes(k) == stack[k].pc \in Writing

TypeInv ==
  /\ clock \in Nat /\ clock >= 2
  /\ locked \in BOOLEAN
  /\ Slot_ \in Slots /\ Cached_time \in Slots /\ Cached_err_log_time \in Slots
  /\ Cached_time_ \in [Slots -> [sec : Nat, msec : Nat]]
  /\ Cached_err_log_time_ \in [Slots -> Int]
  /\ stack \in Seq(FrameSet) /\ Len(stack) > 0
  /\ advances \in Nat /\ updated \in Nat /\ updated <= advances

(* The lock is had by one frame or none.                                   *)
LockInv ==
  /\ \A k \in Frames : stack[k].pc \in Critical => locked
  /\ locked => \E k \in Frames : stack[k].pc \in Critical
  /\ \A j, k \in Frames :
       stack[j].pc \in Critical /\ stack[k].pc \in Critical => j = k

(* Strings are written to a slot that is not published, and none is        *)
(* older than the published one.                                           *)
Published == Cached_err_log_time_[Cached_err_log_time]

StringInv ==
  /\ (\A k \in Frames : ~Writes(k)) => Cached_err_log_time = Slot_
  /\ (\E k \in Frames : Writes(k)) => Cached_err_log_time # Slot_
  /\ Published \in 0 .. Sec(clock)
  /\ \A k \in Frames :
       /\ stack[k].pc \in Critical \ {"clock"} =>
            stack[k].now \in 2 .. clock /\ Published <= Sec(stack[k].now)
       /\ stack[k].pc \in {"publish", "publish string"} =>
            Cached_err_log_time_[Slot_] = Sec(stack[k].now)

(* How far Slot_ is ahead of a slot that was taken d advances ago.         *)
Ahead(slot, d) == d < TIME_SLOTS => Slot_ - slot \in {d, d - TIME_SLOTS}

(* What is being copied was the newest slot when the copy began, or is the *)
(* one before while a frame below is in the middle of writing: that frame  *)
(* does not go on before the copy is done.                                 *)
CopyInv ==
  \A k \in Frames : stack[k].pc = "copy" =>
    LET d == advances - stack[k].mark IN
    /\ d \in Nat
    /\ \A j \in Frames : j > k /\ Writes(j) => d > 0
    /\ \/ Ahead(stack[k].ptr, d) /\ \A j \in 1 .. k - 1 : ~Writes(j)
       \/ d = 0 /\ Slot_ # stack[k].ptr /\ \E j \in 1 .. k - 1 : Writes(j)

(* The slot of a handler has sec 0; any other is main's own, which main    *)
(* publishes before its string.                                            *)
TimeOf(t) == [sec |-> Sec(t), msec |-> Msec(t)]

TimeInv ==
  /\ stack[1].pc \notin {"format", "formatting", "publish"} =>
       (Cached_time_[Slot_].sec # 0 => Slot_ = Cached_time)
  /\ Writes(1) => Cached_time_[Slot_] = TimeOf(stack[1].now)
  /\ stack[1].pc = "publish string" => Slot_ = Cached_time
  /\ stack[1].pc \in {"idle", "read", "copy"} =>
       /\ Ahead(Cached_time, advances - updated)
       /\ advances - updated < TIME_SLOTS =>
            Cached_time_[Cached_time] = TimeOf(stack[1].now)

IInv == TypeInv /\ LockInv /\ StringInv /\ CopyInv /\ CopyIsIntact /\ TimeInv

-----------------------------------------------------------------------------
(* The next slot is another one, one further on.                           *)
LEMMA NextSlotIs ==
  ASSUME Slot_ \in Slots
  PROVE  /\ NextSlot \in Slots /\ NextSlot # Slot_
         /\ NextSlot = IF Slot_ = TIME_SLOTS - 1 THEN 0 ELSE Slot_ + 1
<1>1. TIME_SLOTS \in Nat /\ TIME_SLOTS > 1 /\ Slot_ \in 0 .. TIME_SLOTS - 1
  BY TimeAssumption DEF Slots
<1>2. CASE Slot_ = TIME_SLOTS - 1
  <2>1. TIME_SLOTS % TIME_SLOTS = 0
    BY <1>1
  <2> QED
    BY <1>1, <1>2, <2>1 DEF NextSlot, Slots
<1>3. CASE Slot_ # TIME_SLOTS - 1
  <2>1. (Slot_ + 1) % TIME_SLOTS = Slot_ + 1
    BY <1>1, <1>3
  <2> QED
    BY <1>1, <1>3, <2>1 DEF NextSlot, Slots
<1> QED
  BY <1>2, <1>3

(* A move of the running frame changes its place and no other frame.       *)
LEMMA GotoMoves ==
  ASSUME TypeInv, NEW at \in Place, Goto(at)
  PROVE  /\ stack' \in Seq(FrameSet) /\ Len(stack') = Len(stack)
         /\ \A k \in 1 .. Len(stack) - 1 : stack'[k] = stack[k]
         /\ stack'[Len(stack)] = [Top EXCEPT !.pc = at]
         /\ stack'[Len(stack)].pc = at
         /\ \A k \in Frames : /\ stack'[k].now = stack[k].now
                              /\ stack'[k].ptr = stack[k].ptr
                              /\ stack'[k].str = stack[k].str
                              /\ stack'[k].mark = stack[k].mark
<1>1. stack \in Seq(FrameSet) /\ Len(stack) \in Nat /\ Len(stack) > 0 /\ Top \in FrameSet
  BY DEF TypeInv, Top
<1>2. [Top EXCEPT !.pc = at] \in FrameSet
  BY <1>1 DEF FrameSet
<1>3. stack' = [stack EXCEPT ![Len(stack)] = [Top EXCEPT !.pc = at]]
  BY DEF Goto, Top
<1>4. /\ stack' \in Seq(FrameSet) /\ Len(stack') = Len(stack)
      /\ \A k \in 1 .. Len(stack) - 1 : stack'[k] = stack[k]
      /\ stack'[Len(stack)] = [Top EXCEPT !.pc = at]
  BY <1>1, <1>2, <1>3
<1>5. [Top EXCEPT !.pc = at].pc = at
  BY <1>1 DEF FrameSet
<1>6. ASSUME NEW k \in Frames
      PROVE  /\ stack'[k].now = stack[k].now /\ stack'[k].ptr = stack[k].ptr
             /\ stack'[k].str = stack[k].str /\ stack'[k].mark = stack[k].mark
  <2>1. CASE k = Len(stack)
    BY <1>1, <1>4, <2>1 DEF FrameSet, Top
  <2>2. CASE k # Len(stack)
    BY <1>1, <1>4, <2>2 DEF Frames
  <2> QED
    BY <2>1, <2>2
<1> QED
  BY <1>4, <1>5, <1>6

(* What most actions do to the stack.                                      *)
Moves(at) ==
  /\ stack' \in Seq(FrameSet) /\ Len(stack') = Len(stack)
  /\ \A k \in 1 .. Len(stack) - 1 : stack'[k] = stack[k]
  /\ stack'[Len(stack)].pc = at

SameTime ==
  \A k \in Frames : stack'[k].now = stack[k].now

LEMMA GotoIsMove ==
  ASSUME TypeInv, NEW at \in Place, Goto(at)
  PROVE  Moves(at) /\ SameTime
BY GotoMoves DEF Moves, SameTime

LEMMA FramesOf ==
  ASSUME TypeInv
  PROVE  /\ Len(stack) \in Nat /\ Len(stack) \in Frames /\ 1 \in Frames
         /\ \A k \in Frames : stack[k] \in FrameSet /\ k \in Nat /\ k <= Len(stack)
         /\ Top = stack[Len(stack)]
         /\ \A k \in Frames : k \in 1 .. Len(stack) - 1 \/ k = Len(stack)
BY DEF TypeInv, Frames, Top

(* The lock is kept, taken or given back.                                  *)
LEMMA LockKeeps ==
  ASSUME TypeInv, LockInv, NEW at \in Place, Moves(at),
         \/ UNCHANGED locked /\ (at \in Critical <=> Top.pc \in Critical)
         \/ ~locked /\ locked' = TRUE /\ at \in Critical
         \/ Top.pc \in Critical /\ locked' = FALSE /\ at \notin Critical
  PROVE  LockInv'
<1>1. Frames' = Frames
  BY DEF Moves, Frames
<1>2. \A k \in Frames : stack'[k].pc = IF k = Len(stack) THEN at ELSE stack[k].pc
  BY FramesOf DEF Moves
<1>3. locked \in BOOLEAN /\ Len(stack) \in Frames /\ Top = stack[Len(stack)]
  BY FramesOf DEF TypeInv
<1>4. CASE UNCHANGED locked /\ (at \in Critical <=> Top.pc \in Critical)
  <2>1. \A k \in Frames : stack'[k].pc \in Critical <=> stack[k].pc \in Critical
    BY <1>2, <1>3, <1>4
  <2> QED
    BY <1>1, <1>4, <2>1 DEF LockInv
<1>5. CASE ~locked /\ locked' = TRUE /\ at \in Critical
  <2>1. \A k \in Frames : stack[k].pc \notin Critical
    BY <1>5 DEF LockInv
  <2>2. \A k \in Frames : stack'[k].pc \in Critical <=> k = Len(stack)
    BY <1>2, <1>5, <2>1
  <2> QED
    BY <1>1, <1>3, <1>5, <2>2 DEF LockInv
<1>6. CASE Top.pc \in Critical /\ locked' = FALSE /\ at \notin Critical
  <2>1. \A k \in Frames : stack'[k].pc \notin Critical
    BY <1>2, <1>3, <1>6 DEF LockInv
  <2> QED
    BY <1>1, <1>6, <2>1 DEF LockInv
<1> QED
  BY <1>4, <1>5, <1>6

(* A move that neither takes a slot nor begins a copy disturbs no copy.    *)
LEMMA CopyKeeps ==
  ASSUME TypeInv, CopyInv, NEW at \in Place \ {"copy"}, Moves(at),
         at \in Writing => Top.pc \in Writing,
         UNCHANGED <<Slot_, advances>>
  PROVE  CopyInv'
<1> SUFFICES ASSUME NEW k \in Frames', stack'[k].pc = "copy"
             PROVE  LET d == advances - stack'[k].mark IN
                    /\ d \in Nat
                    /\ \A j \in Frames' : j > k /\ Writes(j)' => d > 0
                    /\ \/ Ahead(stack'[k].ptr, d) /\ \A j \in 1 .. k - 1 : ~Writes(j)'
                       \/ d = 0 /\ Slot_ # stack'[k].ptr /\ \E j \in 1 .. k - 1 : Writes(j)'
  BY DEF CopyInv, Ahead
<1>1. /\ Frames' = Frames /\ k \in Frames /\ k \in 1 .. Len(stack) - 1
      /\ stack'[k] = stack[k] /\ stack[k].pc = "copy"
  <2>1. Frames' = Frames
    BY DEF Moves, Frames
  <2>2. k # Len(stack)
    BY DEF Moves
  <2> QED
    BY <2>1, <2>2, FramesOf DEF Moves
<1>2. \A j \in Frames : Writes(j)' => Writes(j)
  BY FramesOf DEF Moves, Writes
<1>3. \A j \in 1 .. k - 1 : j \in 1 .. Len(stack) - 1 /\ (Writes(j)' <=> Writes(j))
  BY <1>1, FramesOf DEF Moves, Writes
<1> QED
  BY <1>1, <1>2, <1>3 DEF CopyInv

LEMMA IntactKeeps ==
  ASSUME TypeInv, CopyIsIntact, NEW at \in Place \ {"copy"}, Moves(at),
         UNCHANGED <<Cached_err_log_time_, advances>>
  PROVE  CopyIsIntact'
BY FramesOf DEF Moves, CopyIsIntact, Frames

(* Where no string and no slot changes.                                    *)
LEMMA StringKeeps ==
  ASSUME TypeInv, StringInv, NEW at \in Place, Moves(at), SameTime,
         at \in Writing <=> Top.pc \in Writing,
         at \in Critical \ {"clock"} => Top.pc \in Critical \ {"clock"},
         at \in {"publish", "publish string"} =>
           Cached_err_log_time_[Slot_] = Sec(Top.now),
         UNCHANGED <<clock, Slot_, Cached_err_log_time_, Cached_err_log_time>>
  PROVE  StringInv'
<1>1. Frames' = Frames
  BY DEF Moves, Frames
<1>2. \A k \in Frames : stack'[k].pc = IF k = Len(stack) THEN at ELSE stack[k].pc
  BY FramesOf DEF Moves
<1>3. \A k \in Frames : Writes(k)' <=> Writes(k)
  BY <1>2, FramesOf DEF Writes
<1>4. Published' = Published
  BY DEF Published
<1>5. ASSUME NEW k \in Frames
      PROVE  /\ stack'[k].pc \in Critical \ {"clock"} =>
                  stack'[k].now \in 2 .. clock /\ Published <= Sec(stack'[k].now)
             /\ stack'[k].pc \in {"publish", "publish string"} =>
                  Cached_err_log_time_[Slot_] = Sec(stack'[k].now)
  <2>1. stack'[k].now = stack[k].now
    BY DEF SameTime
  <2> QED
    BY <1>2, <2>1, FramesOf DEF StringInv
<1> QED
  BY <1>1, <1>3, <1>4, <1>5 DEF StringInv

LEMMA OnlyTop ==
  ASSUME TypeInv, LockInv, Top.pc \in Critical
  PROVE  locked /\ \A k \in 1 .. Len(stack) - 1 : stack[k].pc \notin Critical
BY FramesOf DEF LockInv, Frames

(* The time of the main flow, while handlers run that take no slot, and    *)
(* while it goes from call to call itself.                                 *)
LEMMA TimeKeeps ==
  ASSUME TypeInv, TimeInv,
         UNCHANGED <<Slot_, Cached_time_, Cached_time, advances, updated>>,
         \/ stack'[1] = stack[1]
         \/ /\ stack'[1].now = stack[1].now
            /\ stack'[1].pc \notin Writing /\ stack[1].pc \notin Writing
            /\ stack'[1].pc \in {"idle", "read", "copy"} =>
                 stack[1].pc \in {"idle", "read", "copy"}
  PROVE  TimeInv'
BY DEF TimeInv, Writes, Writing, Ahead

-----------------------------------------------------------------------------
LEMMA InitOK == Init => IInv
<1> SUFFICES ASSUME Init PROVE IInv
  OBVIOUS
<1>1. TIME_SLOTS \in Nat /\ TIME_SLOTS > 1 /\ 0 \in Slots
  BY TimeAssumption DEF Slots
<1>2. /\ Frame("main", "lock") \in FrameSet
      /\ Frame("main", "lock").pc = "lock"
  BY <1>1 DEF Frame, FrameSet, Place
<1>3. /\ stack = <<Frame("main", "lock")>> /\ stack \in Seq(FrameSet)
      /\ Len(stack) = 1 /\ stack[1].pc = "lock" /\ Frames = {1}
  BY <1>2 DEF Init, Frames
<1>4. TypeInv
  <2>1. /\ Cached_time_ \in [Slots -> [sec : Nat, msec : Nat]]
        /\ Cached_err_log_time_ \in [Slots -> Int]
    BY DEF Init
  <2>2. clock \in Nat /\ clock >= 2
    BY DEF Init
  <2>3. locked \in BOOLEAN
    BY DEF Init
  <2>4. /\ Slot_ \in Slots /\ Cached_time \in Slots /\ Cached_err_log_time \in Slots
        /\ advances \in Nat /\ updated \in Nat /\ updated <= advances
    BY <1>1 DEF Init
  <2> QED
    BY <1>3, <2>1, <2>2, <2>3, <2>4 DEF TypeInv
<1>5. LockInv /\ CopyInv /\ CopyIsIntact
  <2>1. stack[1].pc \notin Critical /\ stack[1].pc # "copy"
    BY <1>3 DEF Critical, Writing
  <2>2. \A k \in Frames : k = 1
    BY <1>3
  <2>3. LockInv
    BY <2>1, <2>2 DEF Init, LockInv
  <2>4. CopyInv
    BY <2>1, <2>2 DEF CopyInv
  <2>5. CopyIsIntact
    BY <1>3, <2>1, <2>2 DEF CopyIsIntact, Frames
  <2> QED
    BY <2>3, <2>4, <2>5
<1>6. StringInv
  <2>1. Published = 0 /\ 0 <= Sec(clock) /\ Sec(clock) \in Int
    BY <1>1 DEF Init, Published, Sec
  <2>2. stack[1].pc \notin Critical /\ stack[1].pc \notin {"publish", "publish string"}
    BY <1>3 DEF Critical, Writing
  <2>3. ~Writes(1) /\ \A k \in Frames : k = 1
    BY <1>3 DEF Writes, Writing
  <2>4. Cached_err_log_time = Slot_
    BY DEF Init
  <2>5. Published \in 0 .. Sec(clock)
    BY <2>1
  <2> QED
    BY <2>2, <2>3, <2>4, <2>5 DEF StringInv
<1>7. TimeInv
  BY <1>1, <1>3 DEF Init, TimeInv, Writes, Writing
<1> QED
  BY <1>4, <1>5, <1>6, <1>7 DEF IInv

LEMMA TickKeeps == ASSUME IInv, Tick PROVE IInv'
<1>1. /\ clock \in Nat /\ clock' = clock + 1
      /\ UNCHANGED <<phase, signals, locked, ringVars, publishVars, stack, historyVars>>
  BY DEF Tick, IInv, TypeInv
<1>2. Sec(clock) <= Sec(clock') /\ Sec(clock) \in Int /\ Sec(clock') \in Int
  BY <1>1 DEF Sec
<1>3. TypeInv'
  BY <1>1 DEF IInv, TypeInv, ringVars, publishVars, historyVars
<1>4. LockInv' /\ CopyInv'
  BY <1>1 DEF IInv, LockInv, CopyInv, Frames, Writes, Ahead, ringVars, historyVars
<1>5. CopyIsIntact'
  BY <1>1 DEF IInv, CopyIsIntact, ringVars, historyVars
<1>6. TimeInv'
  BY <1>1, TimeKeeps DEF IInv, ringVars, publishVars, historyVars
<1>7. StringInv'
  <2>1. Frames' = Frames /\ Published' = Published /\ \A k : Writes(k)' <=> Writes(k)
    BY <1>1 DEF Frames, Published, Writes, ringVars, publishVars
  <2>2. Published \in 0 .. Sec(clock')
    <3>1. Published \in 0 .. Sec(clock)
      BY DEF IInv, StringInv
    <3> QED
      BY <1>2, <3>1
  <2>3. \A t \in 2 .. clock : t \in 2 .. clock'
    BY <1>1
  <2> QED
    BY <1>1, <2>1, <2>2, <2>3 DEF IInv, StringInv, ringVars, publishVars
<1> QED
  BY <1>3, <1>4, <1>5, <1>6, <1>7 DEF IInv

(* A handler starts on top of the stack.                                   *)
LEMMA DeliverKeeps == ASSUME IInv, NEW s \in Signal, Deliver(s) PROVE IInv'
<1>1. /\ UNCHANGED <<clock, locked, ringVars, publishVars, historyVars>>
      /\ stack' = Append(stack, Frame(s, "lock"))
  BY DEF Deliver
<1>2. Frame(s, "lock") \in FrameSet /\ Frame(s, "lock").pc = "lock"
  BY TimeAssumption DEF Frame, FrameSet, Place, Slots
<1>3. /\ stack \in Seq(FrameSet) /\ stack' \in Seq(FrameSet)
      /\ Len(stack') = Len(stack) + 1 /\ Len(stack) \in Nat /\ Len(stack) > 0
      /\ \A k \in 1 .. Len(stack) : stack'[k] = stack[k]
      /\ stack'[Len(stack) + 1].pc = "lock"
  BY <1>1, <1>2 DEF IInv, TypeInv
<1>4. /\ Frames' = Frames \cup {Len(stack) + 1} /\ Len(stack) + 1 \notin Frames
      /\ \A k \in Frames : stack'[k] = stack[k] /\ k \in Nat /\ k <= Len(stack)
      /\ 1 \in Frames
  BY <1>3 DEF Frames
<1>5. TypeInv'
  BY <1>1, <1>3 DEF IInv, TypeInv, ringVars, publishVars, historyVars
<1>6. LockInv'
  <2>1. \A k \in Frames' : stack'[k].pc \in Critical <=>
                            k \in Frames /\ stack[k].pc \in Critical
    BY <1>3, <1>4 DEF Critical, Writing
  <2> QED
    BY <1>1, <1>4, <2>1 DEF IInv, LockInv
<1>7. StringInv'
  <2>1. \A k \in Frames' : Writes(k)' <=> k \in Frames /\ Writes(k)
    BY <1>3, <1>4 DEF Writes, Writing
  <2>2. Published' = Published
    BY <1>1 DEF Published, ringVars, publishVars
  <2> QED
    BY <1>1, <1>3, <1>4, <2>1, <2>2
       DEF IInv, StringInv, Critical, Writing, ringVars, publishVars
<1>8. CopyInv'
  <2> SUFFICES ASSUME NEW k \in Frames', stack'[k].pc = "copy"
               PROVE  LET d == advances - stack'[k].mark IN
                    /\ d \in Nat
                    /\ \A j \in Frames' : j > k /\ Writes(j)' => d > 0
                    /\ \/ Ahead(stack'[k].ptr, d) /\ \A j \in 1 .. k - 1 : ~Writes(j)'
                       \/ d = 0 /\ Slot_ # stack'[k].ptr /\ \E j \in 1 .. k - 1 : Writes(j)'
    BY <1>1 DEF CopyInv, Ahead, ringVars, historyVars
  <2>1. k \in Frames /\ stack'[k] = stack[k]
    BY <1>3, <1>4
  <2>2. \A j \in Frames' : Writes(j)' <=> j \in Frames /\ Writes(j)
    BY <1>3, <1>4 DEF Writes, Writing
  <2>3. \A j \in 1 .. k - 1 : Writes(j)' <=> Writes(j)
    BY <1>3, <2>1 DEF Writes, Frames
  <2> QED
    BY <2>1, <2>2, <2>3 DEF IInv, CopyInv
<1>9. CopyIsIntact'
  BY <1>1, <1>3 DEF IInv, CopyIsIntact, ringVars, historyVars
<1>10. TimeInv'
  BY <1>1, <1>4, TimeKeeps DEF IInv, ringVars, publishVars, historyVars
<1> QED
  BY <1>5, <1>6, <1>7, <1>8, <1>9, <1>10 DEF IInv

(* A move outside the lock that writes nothing.                            *)
LEMMA PlainMove ==
  ASSUME IInv, NEW at \in {"lock", "idle", "read"}, Top.pc \notin Critical,
         Moves(at), SameTime,
         UNCHANGED <<clock, locked, ringVars, publishVars, historyVars>>,
         IsMain /\ at # "lock" => Top.pc \in {"idle", "read", "copy"}
  PROVE  IInv'
<1>1. at \in Place \ {"copy"} /\ at \notin Critical /\ Writing \subseteq Critical
  BY DEF Place, Critical, Writing
<1>2. TypeInv'
  BY DEF Moves, IInv, TypeInv, ringVars, publishVars, historyVars
<1>3. LockInv'
  BY <1>1, LockKeeps DEF IInv
<1>4. CopyInv' /\ CopyIsIntact'
  BY <1>1, CopyKeeps, IntactKeeps DEF IInv, ringVars, historyVars
<1>5. StringInv'
  BY <1>1, StringKeeps DEF IInv, ringVars, publishVars, Writing, Critical
<1>6. TimeInv'
  <2>1. CASE IsMain
    <3>1. /\ stack'[1].now = stack[1].now /\ stack'[1].pc = at /\ Top = stack[1]
      BY <2>1, FramesOf DEF IInv, Moves, SameTime, IsMain
    <3> QED
      BY <2>1, <1>1, <3>1, TimeKeeps DEF IInv, ringVars, publishVars, historyVars
  <2>2. CASE ~IsMain
    <3>1. stack'[1] = stack[1]
      BY <2>2, FramesOf DEF IInv, Moves, IsMain, Frames
    <3> QED
      BY <3>1, TimeKeeps DEF IInv, ringVars, publishVars, historyVars
  <2> QED
    BY <2>1, <2>2
<1> QED
  BY <1>2, <1>3, <1>4, <1>5, <1>6 DEF IInv

LEMMA MainKeeps == ASSUME IInv, MainCalls \/ InstallSignals PROVE IInv'
<1>1. CASE MainCalls
  <2>1. PICK at \in {"lock", "read"} : Goto(at)
    BY <1>1 DEF MainCalls
  <2>2. /\ Top.pc = "idle"
        /\ UNCHANGED <<clock, locked, ringVars, publishVars, historyVars>>
    BY <1>1 DEF MainCalls, At, envVars
  <2>3. Top.pc \notin Critical /\ at \in Place
    BY <2>2 DEF Critical, Writing, Place
  <2>4. Moves(at) /\ SameTime
    BY <2>1, <2>3, GotoIsMove DEF IInv
  <2> QED
    BY <2>2, <2>3, <2>4, PlainMove
<1>2. CASE InstallSignals
  <2>1. UNCHANGED <<clock, locked, ringVars, publishVars, stack, historyVars>>
    BY <1>2 DEF InstallSignals
  <2>2. TypeInv' /\ LockInv' /\ CopyInv'
    BY <2>1 DEF IInv, TypeInv, LockInv, CopyInv, Frames, Writes, Ahead, ringVars,
                publishVars, historyVars
  <2>3. StringInv'
    BY <2>1 DEF IInv, StringInv, Published, Frames, Writes, ringVars, publishVars
  <2>4. CopyIsIntact'
    BY <2>1 DEF IInv, CopyIsIntact, ringVars, historyVars
  <2>5. TimeInv'
    BY <2>1, TimeKeeps DEF IInv, ringVars, publishVars, historyVars
  <2> QED
    BY <2>2, <2>3, <2>4, <2>5 DEF IInv
<1> QED
  BY <1>1, <1>2

(* Forgetting the second: the slot is published, and no handler runs yet.  *)
LEMMA ForceKeeps == ASSUME IInv, ForceUpdate PROVE IInv'
<1>1. /\ Top.pc = "idle" /\ IsMain /\ Goto("lock")
      /\ Cached_time_' = [Cached_time_ EXCEPT ![Cached_time].sec = 0]
      /\ UNCHANGED <<clock, locked, Slot_, Cached_err_log_time_, publishVars, historyVars>>
  BY DEF ForceUpdate, At
<1>2. "lock" \in Place \ {"copy"} /\ "lock" \notin Critical /\ Top.pc \notin Critical
  BY <1>1 DEF Place, Critical, Writing
<1>3. Moves("lock") /\ SameTime
  BY <1>1, <1>2, GotoIsMove DEF IInv
<1>4. TypeInv'
  <2>1. Cached_time_' \in [Slots -> [sec : Nat, msec : Nat]]
    BY <1>1 DEF IInv, TypeInv
  <2> QED
    BY <1>1, <1>3, <2>1 DEF Moves, IInv, TypeInv, publishVars, historyVars
<1>5. LockInv'
  BY <1>1, <1>2, <1>3, LockKeeps DEF IInv
<1>6. CopyInv' /\ CopyIsIntact'
  BY <1>1, <1>2, <1>3, CopyKeeps, IntactKeeps DEF IInv, historyVars, Writing
<1>7. StringInv'
  BY <1>1, <1>2, <1>3, StringKeeps DEF IInv, publishVars, Writing, Critical
<1>8. TimeInv'
  <2>1. stack'[1].pc = "lock" /\ stack[1].pc = "idle"
    BY <1>1, <1>3, FramesOf DEF IInv, Moves, IsMain
  <2>2. Slot_ \in Slots /\ Cached_time \in Slots /\ Slot_' = Slot_ /\ Cached_time' = Cached_time
    BY <1>1 DEF IInv, TypeInv, publishVars
  <2>3. Cached_time_'[Slot_].sec # 0 => Slot_ = Cached_time
    <3>1. Cached_time_[Slot_].sec # 0 => Slot_ = Cached_time
      BY <2>1 DEF IInv, TimeInv
    <3>2. Slot_ # Cached_time => Cached_time_'[Slot_] = Cached_time_[Slot_]
      BY <1>1, <2>2 DEF IInv, TypeInv
    <3> QED
      BY <3>1, <3>2
  <2> QED
    BY <2>1, <2>2, <2>3 DEF TimeInv, Writes, Writing
<1> QED
  BY <1>4, <1>5, <1>6, <1>7, <1>8 DEF IInv

(* Only a handler can find the lock taken.                                 *)
LEMMA TryLockKeeps == ASSUME IInv, TryLock PROVE IInv'
<1>1. /\ Top.pc = "lock"
      /\ UNCHANGED <<clock, ringVars, publishVars, advances>>
  BY DEF TryLock, At, envVars
<1>2. Top.pc \notin Critical /\ {"lock", "read", "clock", "idle"} \subseteq Place \ {"copy"}
      /\ "clock" \in Critical /\ "clock" \notin Writing /\ Top.pc \notin Writing
  BY <1>1 DEF Critical, Writing, Place
<1>3. CASE locked
  <2>1. ~IsMain
    BY <1>2, <1>3, FramesOf DEF IInv, LockInv, IsMain, Frames
  <2>2. Goto("read") /\ UNCHANGED <<locked, updated>>
    BY <1>3, <2>1 DEF TryLock, Return
  <2>3. Moves("read") /\ SameTime
    BY <1>2, <2>2, GotoIsMove DEF IInv
  <2> QED
    BY <1>1, <1>2, <2>1, <2>2, <2>3, PlainMove DEF historyVars
<1>4. CASE ~locked
  <2>1. Goto("clock") /\ locked' = TRUE /\ UNCHANGED updated
    BY <1>4 DEF TryLock
  <2>2. Moves("clock") /\ SameTime
    BY <1>2, <2>1, GotoIsMove DEF IInv
  <2>3. TypeInv'
    BY <1>1, <2>1, <2>2 DEF Moves, IInv, TypeInv, ringVars, publishVars
  <2>4. LockInv'
    BY <1>2, <1>4, <2>1, <2>2, LockKeeps DEF IInv
  <2>5. CopyInv' /\ CopyIsIntact'
    BY <1>1, <1>2, <2>2, CopyKeeps, IntactKeeps DEF IInv, ringVars
  <2>6. StringInv'
    BY <1>1, <1>2, <2>2, StringKeeps DEF IInv, ringVars, publishVars
  <2>7. TimeInv'
    <3>1. CASE IsMain
      <4>1. stack'[1].now = stack[1].now /\ stack'[1].pc = "clock" /\ stack[1].pc = "lock"
        BY <1>1, <3>1, <2>2, FramesOf DEF IInv, Moves, SameTime, IsMain
      <4> QED
        BY <1>1, <1>2, <2>1, <4>1, TimeKeeps DEF IInv, ringVars, publishVars, Writing
    <3>2. CASE ~IsMain
      <4>1. stack'[1] = stack[1]
        BY <3>2, <2>2, FramesOf DEF IInv, Moves, IsMain, Frames
      <4> QED
        BY <1>1, <2>1, <4>1, TimeKeeps DEF IInv, ringVars, publishVars
    <3> QED
      BY <3>1, <3>2
  <2> QED
    BY <2>3, <2>4, <2>5, <2>6, <2>7 DEF IInv
<1> QED
  BY <1>3, <1>4

LEMMA GettimeofdayKeeps == ASSUME IInv, Gettimeofday PROVE IInv'
<1>1. /\ Top.pc = "clock" /\ UNCHANGED <<clock, locked, ringVars, publishVars, historyVars>>
      /\ stack' = [stack EXCEPT ![Len(stack)].now = clock, ![Len(stack)].pc = "check"]
  BY DEF Gettimeofday, At, envVars
<1>2. /\ stack \in Seq(FrameSet) /\ Len(stack) \in Nat /\ Len(stack) > 0
      /\ Top \in FrameSet /\ Top = stack[Len(stack)] /\ clock \in Nat /\ clock >= 2
  BY FramesOf DEF IInv, TypeInv
<1>3. "check" \in Place \ {"copy"} /\ "check" \in Critical /\ Top.pc \in Critical
      /\ "check" \notin Writing /\ Top.pc \notin Writing
  BY <1>1 DEF Place, Critical, Writing
<1>4. /\ Moves("check") /\ stack'[Len(stack)].now = clock
      /\ \A k \in 1 .. Len(stack) - 1 : stack'[k] = stack[k]
  <2>1. stack' = [stack EXCEPT ![Len(stack)] = [Top EXCEPT !.now = clock, !.pc = "check"]]
    BY <1>1, <1>2
  <2>2. /\ [Top EXCEPT !.now = clock, !.pc = "check"] \in FrameSet
        /\ [Top EXCEPT !.now = clock, !.pc = "check"].pc = "check"
        /\ [Top EXCEPT !.now = clock, !.pc = "check"].now = clock
    BY <1>2, <1>3 DEF FrameSet
  <2> QED
    BY <1>2, <2>1, <2>2 DEF Moves
<1>5. TypeInv'
  BY <1>1, <1>4 DEF Moves, IInv, TypeInv, ringVars, publishVars, historyVars
<1>6. LockInv'
  BY <1>1, <1>3, <1>4, LockKeeps DEF IInv
<1>7. CopyInv' /\ CopyIsIntact'
  BY <1>1, <1>3, <1>4, CopyKeeps, IntactKeeps DEF IInv, ringVars, historyVars
<1>8. StringInv'
  <2>1. Frames' = Frames /\ Published' = Published /\ Published \in 0 .. Sec(clock)
    BY <1>1, <1>4 DEF Moves, Frames, Published, ringVars, publishVars, IInv, StringInv
  <2>2. Sec(clock) \in Int
    BY <1>2 DEF Sec
  <2>3. \A k \in Frames : Writes(k)' <=> Writes(k)
    BY <1>3, <1>4, FramesOf DEF IInv, Moves, Writes
  <2>4. ASSUME NEW k \in Frames
        PROVE  /\ stack'[k].pc \in Critical \ {"clock"} =>
                    stack'[k].now \in 2 .. clock /\ Published <= Sec(stack'[k].now)
               /\ stack'[k].pc \in {"publish", "publish string"} =>
                    Cached_err_log_time_[Slot_] = Sec(stack'[k].now)
    <3>1. CASE k = Len(stack)
      <4>1. stack'[k].pc = "check" /\ stack'[k].now = clock
        BY <1>4, <3>1 DEF Moves
      <4>2. clock \in 2 .. clock /\ Published <= Sec(clock)
        BY <1>2, <2>1, <2>2
      <4> QED
        BY <4>1, <4>2
    <3>2. CASE k # Len(stack)
      BY <1>4, <3>2, FramesOf DEF IInv, StringInv
    <3> QED
      BY <3>1, <3>2
  <2> QED
    BY <1>1, <2>1, <2>3, <2>4 DEF IInv, StringInv, ringVars, publishVars
<1>9. TimeInv'
  <2>1. CASE IsMain
    <3>1. stack'[1].pc = "check"
      BY <2>1, <1>4 DEF Moves, IsMain
    <3>2. stack[1].pc = "clock"
      BY <2>1, <1>1, <1>2 DEF IsMain
    <3> QED
      BY <1>1, <3>1, <3>2 DEF IInv, TimeInv, Writes, Writing, ringVars, publishVars
  <2>2. CASE ~IsMain
    <3>1. stack'[1] = stack[1]
      <4>1. Len(stack) # 1
        BY <2>2 DEF IsMain
      <4>2. PICK m \in Nat : m = Len(stack) /\ m > 0
        BY <1>2
      <4>3. 1 \in 1 .. m - 1
        BY <4>1, <4>2
      <4> QED
        BY <1>4, <4>2, <4>3
    <3> QED
      BY <1>1, <3>1, TimeKeeps DEF IInv, ringVars, publishVars, historyVars
  <2> QED
    BY <2>1, <2>2
<1> QED
  BY <1>5, <1>6, <1>7, <1>8, <1>9 DEF IInv

(* The second has not changed: the slot is main's own.                     *)
LEMMA SameSecondKeeps == ASSUME IInv, SameSecond PROVE IInv'
<1> DEFINE at == IF IsMain THEN "idle" ELSE "read"
<1>1. /\ Top.pc = "check" /\ Cached_time_[Slot_].sec = Sec(Top.now)
      /\ Cached_time_' = IF IsMain
                     THEN [Cached_time_ EXCEPT ![Slot_].msec = Msec(Top.now)]
                     ELSE Cached_time_
      /\ locked' = FALSE /\ Goto(at)
      /\ updated' = IF IsMain THEN advances ELSE updated
      /\ UNCHANGED <<clock, Slot_, Cached_err_log_time_, publishVars, advances>>
  BY DEF SameSecond, At, Return, envVars
<1>2. /\ Top.pc \in Critical \ {"clock"} /\ Top.pc \notin Writing
      /\ at \in Place \ {"copy"} /\ at \notin Critical /\ at \notin Writing
  BY <1>1 DEF Place, Critical, Writing
<1>3. Moves(at) /\ SameTime
  BY <1>1, <1>2, GotoIsMove DEF IInv
<1>4. Top = stack[Len(stack)] /\ Len(stack) \in Frames /\ Top.now \in 2 .. clock /\ clock \in Nat
  BY <1>2, FramesOf DEF IInv, StringInv, TypeInv
<1>5. Sec(Top.now) \in Nat /\ Sec(Top.now) # 0 /\ Msec(Top.now) \in Nat
  BY <1>4 DEF Sec, Msec
<1>6. TypeInv'
  <2>1. Cached_time_' \in [Slots -> [sec : Nat, msec : Nat]]
    BY <1>1, <1>5 DEF IInv, TypeInv
  <2>2. updated' \in Nat /\ updated' <= advances'
    BY <1>1 DEF IInv, TypeInv
  <2> QED
    BY <1>1, <1>3, <2>1, <2>2 DEF Moves, IInv, TypeInv, publishVars
<1>7. LockInv'
  BY <1>1, <1>2, <1>3, LockKeeps DEF IInv
<1>8. CopyInv' /\ CopyIsIntact'
  BY <1>1, <1>2, <1>3, CopyKeeps, IntactKeeps DEF IInv
<1>9. StringInv'
  <2>1. at \notin {"publish", "publish string"} /\ at \notin Critical \ {"clock"}
    BY <1>2
  <2> QED
    BY <1>1, <1>2, <1>3, <2>1, StringKeeps DEF IInv, publishVars
<1>10. TimeInv'
  <2>1. CASE IsMain
    <3>1. stack'[1].pc = "idle" /\ stack'[1].now = Top.now /\ stack[1].pc = "check"
      BY <1>1, <1>3, <1>4, <2>1, FramesOf DEF IInv, Moves, SameTime, IsMain
    <3>2. Slot_ = Cached_time
      BY <1>1, <1>5, <1>4, <3>1, <2>1 DEF IInv, TimeInv, IsMain
    <3>3. Slot_ \in Slots /\ TIME_SLOTS \in Nat /\ Slot_ \in Int /\ advances \in Nat
      BY TimeAssumption DEF IInv, TypeInv, Slots
    <3>4. Cached_time_'[Slot_] = TimeOf(Top.now)
      <4>1. Cached_time_[Slot_] \in [sec : Nat, msec : Nat]
        BY <3>3 DEF IInv, TypeInv
      <4>2. Cached_time_'[Slot_] = [Cached_time_[Slot_] EXCEPT !.msec = Msec(Top.now)]
        BY <1>1, <2>1, <3>3 DEF IInv, TypeInv
      <4> QED
        BY <1>1, <4>1, <4>2 DEF TimeOf
    <3>5. Ahead(Cached_time, advances - updated)'
      BY <1>1, <2>1, <3>2, <3>3 DEF Ahead, publishVars
    <3>6. Slot_' = Cached_time' /\ Cached_time' = Cached_time /\ Slot_' = Slot_
      BY <1>1, <3>2 DEF publishVars
    <3> QED
      BY <3>1, <3>2, <3>4, <3>5, <3>6 DEF TimeInv, Writes, Writing
  <2>2. CASE ~IsMain
    <3>1. stack'[1] = stack[1]
      BY <1>3, <2>2, FramesOf DEF IInv, Moves, IsMain, Frames
    <3> QED
      BY <1>1, <2>2, <3>1, TimeKeeps DEF IInv, publishVars
  <2> QED
    BY <2>1, <2>2
<1> QED
  BY <1>6, <1>7, <1>8, <1>9, <1>10 DEF IInv

(* A new slot: the one ahead of the published one, and of what is being    *)
(* copied unless the ring has come round.                                  *)
LEMMA NewSecondKeeps == ASSUME IInv, NewSecond PROVE IInv'
<1>1. /\ Top.pc = "check" /\ Goto("format") /\ Slot_' = NextSlot
      /\ Cached_time_' = [Cached_time_ EXCEPT ![NextSlot] = NewTime(Top.now)]
      /\ advances' = advances + 1
      /\ UNCHANGED <<clock, locked, Cached_err_log_time_, publishVars, updated>>
  BY DEF NewSecond, At, envVars
<1>2. /\ Top.pc \in Critical \ {"clock"} /\ Top.pc \notin Writing
      /\ "format" \in Place \ {"copy"} /\ "format" \in Critical \ {"clock"}
      /\ "format" \in Writing /\ Writing \subseteq Critical
  BY <1>1 DEF Place, Critical, Writing
<1>3. Moves("format") /\ SameTime
  BY <1>1, <1>2, GotoIsMove DEF IInv
<1>4. /\ Top = stack[Len(stack)] /\ Len(stack) \in Frames /\ Len(stack) \in Nat
      /\ Top.now \in 2 .. clock /\ clock \in Nat
      /\ \A k \in Frames : k \in 1 .. Len(stack) - 1 \/ k = Len(stack)
      /\ \A k \in 1 .. Len(stack) - 1 : stack[k].pc \notin Critical
      /\ \A k \in Frames : ~Writes(k)
  BY <1>2, FramesOf, OnlyTop DEF IInv, StringInv, TypeInv, Writes
<1>5. /\ NextSlot \in Slots /\ NextSlot # Slot_ /\ Slot_ \in Slots
      /\ NextSlot = IF Slot_ = TIME_SLOTS - 1 THEN 0 ELSE Slot_ + 1
      /\ TIME_SLOTS \in Nat /\ Slots = 0 .. TIME_SLOTS - 1
      /\ advances \in Nat /\ updated \in Nat /\ updated <= advances
  BY NextSlotIs, TimeAssumption DEF IInv, TypeInv, Slots
<1>6. Sec(Top.now) \in Nat /\ Msec(Top.now) \in Nat
  BY <1>4 DEF Sec, Msec
<1>7. TypeInv'
  <2>1. NewTime(Top.now) \in [sec : Nat, msec : Nat]
    BY <1>5, <1>6 DEF NewTime, IInv, TypeInv
  <2>2. Cached_time_' \in [Slots -> [sec : Nat, msec : Nat]]
    BY <1>1, <1>5, <2>1 DEF IInv, TypeInv
  <2>3. advances' \in Nat /\ updated' \in Nat /\ updated' <= advances'
    BY <1>1, <1>5
  <2>4. /\ clock' \in Nat /\ clock' >= 2 /\ locked' \in BOOLEAN
        /\ Slot_' \in Slots /\ Cached_time' \in Slots /\ Cached_err_log_time' \in Slots
        /\ Cached_err_log_time_' \in [Slots -> Int]
    BY <1>1, <1>5 DEF IInv, TypeInv, publishVars
  <2>5. stack' \in Seq(FrameSet) /\ Len(stack') > 0
    BY <1>3 DEF Moves, IInv, TypeInv
  <2> QED
    BY <2>2, <2>3, <2>4, <2>5 DEF TypeInv
<1>8. LockInv'
  BY <1>1, <1>2, <1>3, LockKeeps DEF IInv
<1>9. CopyIsIntact'
  <2> SUFFICES ASSUME NEW k \in 1 .. Len(stack'), stack'[k].pc = "copy",
                      advances' - stack'[k].mark < TIME_SLOTS
               PROVE  Cached_err_log_time_'[stack'[k].ptr] = stack'[k].str
    BY DEF CopyIsIntact
  <2>1. k \in 1 .. Len(stack) - 1 /\ stack'[k] = stack[k] /\ k \in Frames
    BY <1>3, <1>4 DEF Moves, Frames
  <2>2. stack[k].mark \in Nat
    BY <2>1, FramesOf DEF IInv, FrameSet
  <2>3. advances - stack[k].mark < TIME_SLOTS
    BY <1>1, <1>5, <2>1, <2>2
  <2> QED
    BY <1>1, <2>1, <2>3 DEF IInv, CopyIsIntact, Frames
<1>10. StringInv'
  <2>1. Frames' = Frames /\ Published' = Published /\ Cached_err_log_time = Slot_
    BY <1>1, <1>3, <1>4 DEF Moves, Frames, Published, publishVars, IInv, StringInv
  <2>2. \A k \in Frames : stack'[k].pc = IF k = Len(stack) THEN "format" ELSE stack[k].pc
    BY <1>3, <1>4 DEF Moves
  <2>3. \A k \in Frames : Writes(k)' <=> k = Len(stack)
    BY <1>2, <1>4, <2>2 DEF Writes
  <2>4. ASSUME NEW k \in Frames
        PROVE  /\ stack'[k].pc \in Critical \ {"clock"} =>
                    stack'[k].now \in 2 .. clock /\ Published <= Sec(stack'[k].now)
               /\ stack'[k].pc \notin {"publish", "publish string"}
    <3>1. CASE k = Len(stack)
      <4>1. stack'[k].now = Top.now /\ Published <= Sec(Top.now) /\ stack'[k].pc = "format"
        BY <1>2, <1>3, <1>4, <2>2, <3>1 DEF SameTime, IInv, StringInv
      <4> QED
        BY <1>4, <4>1
    <3>2. CASE k # Len(stack)
      BY <1>4, <2>2, <3>2 DEF Critical, Writing
    <3> QED
      BY <3>1, <3>2
  <2>5. Cached_err_log_time' # Slot_' /\ Published' \in 0 .. Sec(clock)'
    BY <1>1, <1>5, <2>1 DEF publishVars, IInv, StringInv
  <2> QED
    BY <1>1, <1>4, <2>1, <2>3, <2>4, <2>5 DEF StringInv
<1>11. CopyInv'
  <2> SUFFICES ASSUME NEW k \in Frames', stack'[k].pc = "copy"
               PROVE  /\ advances' - stack'[k].mark \in Nat
                      /\ advances' - stack'[k].mark > 0
                      /\ advances' - stack'[k].mark < TIME_SLOTS =>
                           Slot_' - stack'[k].ptr \in
                             {advances' - stack'[k].mark,
                              advances' - stack'[k].mark - TIME_SLOTS}
                      /\ \A j \in 1 .. k - 1 : ~Writes(j)'
    BY DEF CopyInv, Ahead
  <2>1. /\ k \in 1 .. Len(stack) - 1 /\ stack'[k] = stack[k] /\ k \in Frames
        /\ stack[k].pc = "copy" /\ stack[k] \in FrameSet
    BY <1>3, <1>4, FramesOf DEF IInv, Moves, Frames
  <2>2. stack[k].mark \in Nat /\ stack[k].ptr \in Slots
    BY <2>1 DEF FrameSet
  <2>3. \A j \in 1 .. k - 1 : ~Writes(j) /\ ~Writes(j)'
    BY <1>2, <1>3, <1>4, <2>1 DEF Moves, Writes
  <2>4. advances - stack[k].mark \in Nat /\ Ahead(stack[k].ptr, advances - stack[k].mark)
    BY <2>1, <2>3 DEF IInv, CopyInv
  <2> DEFINE d == advances - stack[k].mark
  <2>5. advances' - stack[k].mark = d + 1 /\ d \in Nat
    BY <1>1, <1>5, <2>2, <2>4
  <2>6. d + 1 < TIME_SLOTS => Slot_' - stack[k].ptr \in {d + 1, d + 1 - TIME_SLOTS}
    <3>1. d + 1 < TIME_SLOTS => Slot_ - stack[k].ptr \in {d, d - TIME_SLOTS}
      BY <1>5, <2>4, <2>5 DEF Ahead
    <3>2. PICK c \in Nat : c = d
      BY <2>5
    <3>3. PICK at \in 0 .. TIME_SLOTS - 1 : at = stack[k].ptr
      BY <1>5, <2>2
    <3>4. PICK from \in 0 .. TIME_SLOTS - 1 :
            from = Slot_ /\ Slot_' = IF from = TIME_SLOTS - 1 THEN 0 ELSE from + 1
      BY <1>1, <1>5
    <3> HIDE DEF d
    <3>5. c + 1 < TIME_SLOTS => from - at \in {c, c - TIME_SLOTS}
      BY <3>1, <3>2, <3>3, <3>4
    <3>6. CASE from = TIME_SLOTS - 1
      <4>1. Slot_' = 0
        BY <3>4, <3>6
      <4>2. c + 1 < TIME_SLOTS => 0 - at \in {c + 1, c + 1 - TIME_SLOTS}
        BY <1>5, <3>5, <3>6
      <4> QED
        BY <3>2, <3>3, <4>1, <4>2
    <3>7. CASE from # TIME_SLOTS - 1
      <4>1. Slot_' = from + 1
        BY <3>4, <3>7
      <4>2. c + 1 < TIME_SLOTS => from + 1 - at \in {c + 1, c + 1 - TIME_SLOTS}
        BY <1>5, <3>5
      <4> QED
        BY <3>2, <3>3, <4>1, <4>2
    <3> QED
      BY <3>6, <3>7
  <2>7. PICK e \in Nat : e = d + 1 /\ e = advances' - stack[k].mark
    BY <2>5
  <2> HIDE DEF d
  <2>8. e > 0 /\ (e < TIME_SLOTS => Slot_' - stack[k].ptr \in {e, e - TIME_SLOTS})
    BY <1>5, <2>5, <2>6, <2>7
  <2> QED
    BY <1>5, <2>1, <2>3, <2>7, <2>8
<1>12. TimeInv'
  <2>1. CASE IsMain
    <3>1. stack'[1].pc = "format" /\ stack'[1].now = Top.now
      BY <1>3, <1>4, <2>1 DEF Moves, SameTime, IsMain
    <3>2. Cached_time_'[Slot_'] = TimeOf(Top.now)
      BY <1>1, <1>5, <2>1 DEF IInv, TypeInv, NewTime, TimeOf
    <3> QED
      BY <3>1, <3>2 DEF TimeInv
  <2>2. CASE ~IsMain
    <3>1. stack'[1] = stack[1] /\ stack[1].pc \notin Critical /\ stack[1].pc \notin Writing
      BY <1>2, <1>3, <1>4, <2>2, FramesOf DEF IInv, Moves, IsMain, Frames
    <3>2. Cached_time_'[Slot_'].sec = 0 /\ Cached_time' = Cached_time /\ updated' = updated
      BY <1>1, <1>5, <2>2 DEF IInv, TypeInv, NewTime, publishVars
    <3>3. Cached_time \in Slots /\ Cached_time \in Nat /\ Cached_time < TIME_SLOTS
      BY <1>5 DEF IInv, TypeInv
    <3>4. ASSUME stack[1].pc \in {"idle", "read", "copy"}
          PROVE  /\ Ahead(Cached_time, advances - updated)'
                 /\ advances' - updated < TIME_SLOTS =>
                      Cached_time_'[Cached_time] = TimeOf(stack[1].now)
      <4>1. /\ Ahead(Cached_time, advances - updated)
            /\ advances - updated < TIME_SLOTS =>
                 Cached_time_[Cached_time] = TimeOf(stack[1].now)
        BY <3>4 DEF IInv, TimeInv
      <4>2. Ahead(Cached_time, advances - updated)'
        BY <1>1, <1>5, <3>2, <3>3, <4>1 DEF Ahead
      <4>3. advances' - updated < TIME_SLOTS => NextSlot # Cached_time
        BY <1>1, <1>5, <3>3, <4>1 DEF Ahead
      <4>4. advances' - updated < TIME_SLOTS => Cached_time_'[Cached_time] = Cached_time_[Cached_time]
        BY <1>1, <3>3, <4>3 DEF IInv, TypeInv
      <4>5. advances' - updated < TIME_SLOTS => advances - updated < TIME_SLOTS
        BY <1>1, <1>5
      <4> QED
        BY <4>1, <4>2, <4>4, <4>5
    <3> QED
      BY <3>1, <3>2, <3>4 DEF TimeInv, Writes, Critical, Writing
  <2> QED
    BY <2>1, <2>2
<1> QED
  BY <1>7, <1>8, <1>9, <1>10, <1>11, <1>12 DEF IInv

(* sprintf() writes to a slot nobody copies from.                          *)
LEMMA FormatKeeps == ASSUME IInv, Format PROVE IInv'
<1>1. PICK at \in {"formatting", "publish"} :
        /\ Goto(at)
        /\ Top.pc \in {"format", "formatting"}
        /\ \E x \in {Torn, Sec(Top.now)} :
             /\ at = "publish" => x = Sec(Top.now)
             /\ Cached_err_log_time_' = [Cached_err_log_time_ EXCEPT ![Slot_] = x]
        /\ UNCHANGED <<clock, locked, Slot_, Cached_time_, publishVars, historyVars>>
  BY DEF Format, At, envVars
<1>2. /\ Top.pc \in Critical \ {"clock"} /\ Top.pc \in Writing
      /\ at \in Place \ {"copy"} /\ at \in Critical \ {"clock"} /\ at \in Writing
      /\ Writing \subseteq Critical
  BY <1>1 DEF Place, Critical, Writing
<1>3. Moves(at) /\ SameTime
  BY <1>1, <1>2, GotoIsMove DEF IInv
<1>4. /\ Top = stack[Len(stack)] /\ Len(stack) \in Frames /\ Len(stack) \in Nat
      /\ Top.now \in 2 .. clock /\ clock \in Nat
      /\ \A k \in Frames : k \in 1 .. Len(stack) - 1 \/ k = Len(stack)
      /\ \A k \in 1 .. Len(stack) - 1 : stack[k].pc \notin Critical
      /\ Writes(Len(stack))
  BY <1>2, FramesOf, OnlyTop DEF IInv, StringInv, TypeInv, Writes
<1>5. /\ Slot_ \in Slots /\ Cached_err_log_time \in Slots
      /\ Cached_err_log_time # Slot_ /\ Torn \in Int /\ Sec(Top.now) \in Int
  <2>1. Slot_ \in Slots /\ Cached_err_log_time \in Slots
    BY DEF IInv, TypeInv
  <2>2. Cached_err_log_time # Slot_
    BY <1>4 DEF IInv, StringInv
  <2>3. Torn \in Int /\ Sec(Top.now) \in Int
    BY <1>4 DEF Torn, Sec
  <2> QED
    BY <2>1, <2>2, <2>3
<1>6. /\ Cached_err_log_time_' \in [Slots -> Int]
      /\ \A s \in Slots : s # Slot_ => Cached_err_log_time_'[s] = Cached_err_log_time_[s]
      /\ at = "publish" => Cached_err_log_time_'[Slot_] = Sec(Top.now)
  BY <1>1, <1>5 DEF IInv, TypeInv
<1>7. TypeInv'
  BY <1>1, <1>3, <1>6 DEF Moves, IInv, TypeInv, publishVars, historyVars
<1>8. LockInv'
  BY <1>1, <1>2, <1>3, LockKeeps DEF IInv
<1>9. CopyInv'
  BY <1>1, <1>2, <1>3, CopyKeeps DEF IInv, historyVars
<1>10. CopyIsIntact'
  <2> SUFFICES ASSUME NEW k \in 1 .. Len(stack'), stack'[k].pc = "copy",
                      advances' - stack'[k].mark < TIME_SLOTS
               PROVE  Cached_err_log_time_'[stack'[k].ptr] = stack'[k].str
    BY DEF CopyIsIntact
  <2>1. /\ k \in 1 .. Len(stack) - 1 /\ stack'[k] = stack[k] /\ k \in Frames
        /\ stack[k].pc = "copy" /\ stack[k] \in FrameSet /\ advances' = advances
    BY <1>1, <1>3, <1>4, FramesOf DEF IInv, Moves, Frames, historyVars
  <2>2. stack[k].ptr \in Slots /\ stack[k].mark \in Nat
    BY <2>1 DEF FrameSet
  <2>3. \A j \in 1 .. k - 1 : ~Writes(j)
    <3>1. \A j \in 1 .. k - 1 : j \in 1 .. Len(stack) - 1
      BY <1>4, <2>1
    <3> QED
      BY <1>2, <1>4, <3>1 DEF Writes
  <2>4. /\ advances - stack[k].mark \in Nat /\ advances - stack[k].mark > 0
        /\ Ahead(stack[k].ptr, advances - stack[k].mark)
    BY <1>4, <2>1, <2>3 DEF IInv, CopyInv
  <2>5. TIME_SLOTS \in Nat /\ Slots = 0 .. TIME_SLOTS - 1 /\ advances \in Nat
    BY TimeAssumption DEF Slots, IInv, TypeInv
  <2>6. PICK d \in Nat : d = advances - stack[k].mark
    BY <2>4
  <2>7. d > 0 /\ d < TIME_SLOTS /\ Slot_ - stack[k].ptr \in {d, d - TIME_SLOTS}
    BY <2>1, <2>4, <2>5, <2>6 DEF Ahead
  <2>8. Slot_ # stack[k].ptr
    BY <1>5, <2>2, <2>5, <2>7
  <2> QED
    BY <1>6, <2>1, <2>2, <2>6, <2>7, <2>8 DEF IInv, CopyIsIntact, Frames
<1>11. StringInv'
  <2>1. Frames' = Frames /\ Published' = Published
    BY <1>1, <1>3, <1>5, <1>6 DEF Moves, Frames, Published, publishVars
  <2>2. \A k \in Frames : stack'[k].pc = IF k = Len(stack) THEN at ELSE stack[k].pc
    BY <1>3, <1>4 DEF Moves
  <2>3. \E k \in Frames : Writes(k)'
    BY <1>2, <1>4, <2>2 DEF Writes
  <2>4. ASSUME NEW k \in Frames
        PROVE  /\ stack'[k].pc \in Critical \ {"clock"} =>
                    stack'[k].now \in 2 .. clock /\ Published <= Sec(stack'[k].now)
               /\ stack'[k].pc \in {"publish", "publish string"} =>
                    Cached_err_log_time_'[Slot_] = Sec(stack'[k].now)
    <3>1. CASE k = Len(stack)
      <4>1. stack'[k].now = Top.now /\ Published <= Sec(Top.now) /\ stack'[k].pc = at
        BY <1>2, <1>3, <1>4, <2>2, <3>1 DEF SameTime, IInv, StringInv
      <4> QED
        BY <1>1, <1>4, <1>6, <4>1
    <3>2. CASE k # Len(stack)
      BY <1>4, <2>2, <3>2 DEF Critical, Writing
    <3> QED
      BY <3>1, <3>2
  <2>5. Published \in 0 .. Sec(clock)
    BY DEF IInv, StringInv
  <2> QED
    BY <1>1, <1>4, <1>5, <2>1, <2>3, <2>4, <2>5 DEF StringInv, publishVars
<1>12. TimeInv'
  <2>1. UNCHANGED <<Slot_, Cached_time_, Cached_time, advances, updated>>
    BY <1>1 DEF publishVars, historyVars
  <2>2. CASE IsMain
    <3>1. stack'[1].pc = at /\ stack'[1].now = stack[1].now /\ Writes(1)
      BY <1>3, <1>4, <2>2 DEF Moves, SameTime, IsMain
    <3>2. Cached_time_[Slot_] = TimeOf(stack[1].now)
      BY <3>1 DEF IInv, TimeInv
    <3> QED
      BY <1>1, <2>1, <3>1, <3>2 DEF TimeInv
  <2>3. CASE ~IsMain
    <3>1. stack'[1] = stack[1]
      BY <1>3, <2>3, FramesOf DEF IInv, Moves, IsMain, Frames
    <3> QED
      BY <2>1, <3>1, TimeKeeps DEF IInv
  <2> QED
    BY <2>2, <2>3
<1> QED
  BY <1>7, <1>8, <1>9, <1>10, <1>11, <1>12 DEF IInv

LEMMA PublishTimeKeeps == ASSUME IInv, PublishTime PROVE IInv'
<1>1. /\ Top.pc = "publish" /\ IsMain /\ Goto("publish string") /\ Cached_time' = Slot_
      /\ UNCHANGED <<clock, locked, ringVars, Cached_err_log_time, historyVars>>
  BY DEF PublishTime, At, envVars
<1>2. /\ Top.pc \in Critical \ {"clock"} /\ Top.pc \in Writing
      /\ "publish string" \in Place \ {"copy"} /\ "publish string" \in Critical \ {"clock"}
      /\ "publish string" \in Writing
  BY <1>1 DEF Place, Critical, Writing
<1>3. Moves("publish string") /\ SameTime
  BY <1>1, <1>2, GotoIsMove DEF IInv
<1>4. Top = stack[1] /\ Len(stack) = 1 /\ 1 \in Frames
  BY <1>1, FramesOf DEF IInv, IsMain
<1>5. TypeInv'
  BY <1>1, <1>3 DEF Moves, IInv, TypeInv, ringVars, historyVars
<1>6. LockInv'
  BY <1>1, <1>2, <1>3, LockKeeps DEF IInv
<1>7. CopyInv' /\ CopyIsIntact'
  BY <1>1, <1>2, <1>3, CopyKeeps, IntactKeeps DEF IInv, ringVars, historyVars
<1>8. StringInv'
  <2>1. Cached_err_log_time_[Slot_] = Sec(Top.now)
    BY <1>1, <1>4 DEF IInv, StringInv
  <2> QED
    BY <1>1, <1>2, <1>3, <2>1, StringKeeps DEF IInv, ringVars
<1>9. TimeInv'
  <2>1. stack'[1].pc = "publish string" /\ stack'[1].now = stack[1].now /\ Writes(1)
    BY <1>2, <1>3, <1>4 DEF Moves, SameTime, Writes
  <2>2. Cached_time_[Slot_] = TimeOf(stack[1].now)
    BY <2>1 DEF IInv, TimeInv
  <2> QED
    BY <1>1, <2>1, <2>2 DEF TimeInv, ringVars
<1> QED
  BY <1>5, <1>6, <1>7, <1>8, <1>9 DEF IInv

(* The string is published and the lock given back.                        *)
LEMMA PublishStringKeeps == ASSUME IInv, PublishString PROVE IInv'
<1> DEFINE at == IF IsMain THEN "idle" ELSE "read"
<1>1. /\ Top.pc \in {"publish", "publish string"} /\ (IsMain => Top.pc = "publish string")
      /\ Cached_err_log_time' = Slot_ /\ locked' = FALSE /\ Goto(at)
      /\ updated' = IF IsMain THEN advances ELSE updated
      /\ UNCHANGED <<clock, Slot_, Cached_time_, Cached_err_log_time_, Cached_time,
                     advances>>
  BY DEF PublishString, At, Return, envVars, ringVars
<1>2. /\ Top.pc \in Critical \ {"clock"} /\ Top.pc \in Writing
      /\ at \in Place \ {"copy"} /\ at \notin Critical /\ at \notin Writing
      /\ Writing \subseteq Critical
  BY <1>1 DEF Place, Critical, Writing
<1>3. Moves(at) /\ SameTime
  BY <1>1, <1>2, GotoIsMove DEF IInv
<1>4. /\ Top = stack[Len(stack)] /\ Len(stack) \in Frames /\ Len(stack) \in Nat
      /\ Top.now \in 2 .. clock /\ clock \in Nat
      /\ Cached_err_log_time_[Slot_] = Sec(Top.now)
      /\ \A k \in Frames : k \in 1 .. Len(stack) - 1 \/ k = Len(stack)
      /\ \A k \in 1 .. Len(stack) - 1 : stack[k].pc \notin Critical
  BY <1>1, <1>2, FramesOf, OnlyTop DEF IInv, StringInv, TypeInv
<1>5. TypeInv'
  <2>1. advances \in Nat /\ updated \in Nat /\ updated <= advances
    BY DEF IInv, TypeInv
  <2>2. advances' = advances /\ updated' \in {advances, updated}
    BY <1>1
  <2>3. updated' \in Nat /\ updated' <= advances'
    BY <2>1, <2>2
  <2> QED
    BY <1>1, <1>3, <2>3 DEF Moves, IInv, TypeInv
<1>6. LockInv'
  BY <1>1, <1>2, <1>3, LockKeeps DEF IInv
<1>7. CopyInv' /\ CopyIsIntact'
  BY <1>1, <1>2, <1>3, CopyKeeps, IntactKeeps DEF IInv
<1>8. StringInv'
  <2>1. Frames' = Frames
    BY <1>3 DEF Moves, Frames
  <2>2. \A k \in Frames : stack'[k].pc \notin Critical
    BY <1>2, <1>3, <1>4 DEF Moves
  <2>3. \A k \in Frames : ~Writes(k)' /\ stack'[k].pc \notin {"publish", "publish string"}
    BY <1>2, <2>2 DEF Writes, Critical, Writing
  <2>4. Published' = Sec(Top.now) /\ Sec(Top.now) \in 0 .. Sec(clock)
    <3>1. Published' = Cached_err_log_time_[Slot_]
      BY <1>1 DEF Published
    <3>2. \A t \in 2 .. clock : Sec(t) \in 0 .. Sec(clock)
      BY <1>4 DEF Sec
    <3> QED
      BY <1>4, <3>1, <3>2
  <2> QED
    BY <1>1, <2>1, <2>2, <2>3, <2>4 DEF StringInv
<1>9. TimeInv'
  <2>1. CASE IsMain
    <3>1. /\ stack'[1].pc = "idle" /\ stack'[1].now = stack[1].now
          /\ stack[1].pc = "publish string" /\ Writes(1)
      BY <1>1, <1>2, <1>3, <1>4, <2>1 DEF Moves, SameTime, IsMain, Writes
    <3>2. Slot_ = Cached_time /\ Cached_time_[Slot_] = TimeOf(stack[1].now)
      BY <3>1 DEF IInv, TimeInv
    <3>3. TIME_SLOTS \in Nat /\ Slot_ \in Int /\ advances \in Nat
      BY TimeAssumption DEF IInv, TypeInv, Slots
    <3>4. Ahead(Cached_time, advances - updated)'
      <4>1. advances' = advances /\ updated' = advances /\ Slot_' = Slot_ /\ Cached_time' = Slot_
        BY <1>1, <2>1, <3>2
      <4>2. Slot_' - Cached_time' = advances' - updated'
        BY <3>3, <4>1
      <4> QED
        BY <4>2 DEF Ahead
    <3>5. Slot_' = Slot_ /\ Cached_time' = Cached_time /\ Cached_time_' = Cached_time_
      BY <1>1
    <3> QED
      BY <3>1, <3>2, <3>4, <3>5 DEF TimeInv, Writes, Writing
  <2>2. CASE ~IsMain
    <3>1. stack'[1] = stack[1]
      BY <1>3, <2>2, FramesOf DEF IInv, Moves, IsMain, Frames
    <3> QED
      BY <1>1, <2>2, <3>1, TimeKeeps DEF IInv
  <2> QED
    BY <2>1, <2>2
<1> QED
  BY <1>5, <1>6, <1>7, <1>8, <1>9 DEF IInv

(* A copy begins with the published slot.                                  *)
LEMMA StartCopyKeeps == ASSUME IInv, StartCopy PROVE IInv'
<1> DEFINE f == [Top EXCEPT !.ptr  = Cached_err_log_time,
                            !.str  = Cached_err_log_time_[Cached_err_log_time],
                            !.mark = advances,
                            !.pc   = "copy"]
<1>1. /\ Top.pc = "read" /\ UNCHANGED <<clock, locked, ringVars, publishVars, historyVars>>
      /\ stack' = [stack EXCEPT ![Len(stack)] = f]
  BY DEF StartCopy, At, envVars, Top
<1>2. /\ stack \in Seq(FrameSet) /\ Len(stack) \in Nat /\ Len(stack) > 0
      /\ Top \in FrameSet /\ Top = stack[Len(stack)] /\ Len(stack) \in Frames
      /\ Cached_err_log_time \in Slots /\ advances \in Nat
      /\ Cached_err_log_time_[Cached_err_log_time] \in Int
      /\ \A k \in Frames : k \in 1 .. Len(stack) - 1 \/ k = Len(stack)
  BY FramesOf DEF IInv, TypeInv
<1>3. "copy" \in Place /\ "copy" \notin Critical /\ Top.pc \notin Critical
      /\ "copy" \notin Writing /\ Top.pc \notin Writing
  BY <1>1 DEF Place, Critical, Writing
<1>4. /\ f \in FrameSet /\ f.pc = "copy" /\ f.now = Top.now /\ f.mark = advances
      /\ f.ptr = Cached_err_log_time
      /\ f.str = Cached_err_log_time_[Cached_err_log_time]
  BY <1>2, <1>3 DEF FrameSet
<1> HIDE DEF f
<1>5. /\ Moves("copy") /\ SameTime /\ stack'[Len(stack)] = f
      /\ \A k \in 1 .. Len(stack) - 1 : stack'[k] = stack[k]
  BY <1>1, <1>2, <1>4 DEF Moves, SameTime, Frames
<1>6. TypeInv'
  BY <1>1, <1>5 DEF Moves, IInv, TypeInv, ringVars, publishVars, historyVars
<1>7. LockInv'
  BY <1>1, <1>3, <1>5, LockKeeps DEF IInv
<1>8. StringInv'
  BY <1>1, <1>3, <1>5, StringKeeps DEF IInv, ringVars, publishVars, Critical, Writing
<1>9. CopyIsIntact'
  <2> SUFFICES ASSUME NEW k \in 1 .. Len(stack'), stack'[k].pc = "copy",
                      advances' - stack'[k].mark < TIME_SLOTS
               PROVE  Cached_err_log_time_'[stack'[k].ptr] = stack'[k].str
    BY DEF CopyIsIntact
  <2>1. Len(stack') = Len(stack) /\ k \in Frames
    BY <1>5 DEF Moves, Frames
  <2>2. CASE k = Len(stack)
    BY <1>1, <1>4, <1>5, <2>2 DEF ringVars
  <2>3. CASE k # Len(stack)
    BY <1>1, <1>2, <1>5, <2>1, <2>3 DEF IInv, CopyIsIntact, ringVars, historyVars
  <2> QED
    BY <2>2, <2>3
<1>10. CopyInv'
  <2>1. Frames' = Frames /\ Slot_' = Slot_ /\ advances' = advances
    BY <1>1, <1>5 DEF Moves, Frames, ringVars, historyVars
  <2>2. \A j \in Frames : Writes(j)' <=> Writes(j)
    BY <1>2, <1>3, <1>4, <1>5 DEF Writes
  <2>3. \A k \in Frames : \A j \in 1 .. k - 1 : j \in Frames /\ j \in 1 .. Len(stack) - 1
    BY <1>2 DEF Frames
  <2>4. ASSUME NEW k \in Frames', stack'[k].pc = "copy"
        PROVE  LET d == advances - stack'[k].mark IN
               /\ d \in Nat
               /\ \A j \in Frames : j > k /\ Writes(j) => d > 0
               /\ \/ Ahead(stack'[k].ptr, d) /\ \A j \in 1 .. k - 1 : ~Writes(j)
                  \/ d = 0 /\ Slot_ # stack'[k].ptr /\ \E j \in 1 .. k - 1 : Writes(j)
    <3>1. CASE k = Len(stack)
      <4>1. /\ stack'[k].mark = advances /\ stack'[k].ptr = Cached_err_log_time
            /\ advances - stack'[k].mark = 0
        BY <1>2, <1>4, <1>5, <3>1
      <4>2. \A j \in Frames : ~(j > k)
        BY <1>2, <3>1 DEF Frames
      <4>3. \A j \in Frames : Writes(j) => j \in 1 .. k - 1
        BY <1>2, <1>3, <3>1 DEF Writes
      <4>4. CASE \E j \in Frames : Writes(j)
        <5>1. Slot_ # stack'[k].ptr /\ \E j \in 1 .. k - 1 : Writes(j)
          BY <4>1, <4>3, <4>4 DEF IInv, StringInv
        <5> QED
          BY <4>1, <4>2, <5>1
      <4>5. CASE \A j \in Frames : ~Writes(j)
        <5>1. Slot_ = stack'[k].ptr /\ \A j \in 1 .. k - 1 : ~Writes(j)
          BY <2>1, <2>3, <4>1, <4>5 DEF IInv, StringInv
        <5>2. Slot_ \in Int /\ Slot_ - stack'[k].ptr = 0
          BY <5>1 DEF IInv, TypeInv, Slots
        <5> QED
          BY <4>1, <4>2, <5>1, <5>2 DEF Ahead
      <4> QED
        BY <4>4, <4>5
    <3>2. CASE k # Len(stack)
      <4>1. k \in Frames /\ stack'[k] = stack[k] /\ stack[k].pc = "copy"
        BY <1>2, <1>5, <2>1, <2>4, <3>2
      <4> QED
        BY <4>1 DEF IInv, CopyInv
    <3> QED
      BY <3>1, <3>2
  <2> QED
    BY <2>1, <2>2, <2>3, <2>4 DEF CopyInv, Ahead
<1>11. TimeInv'
  <2>1. CASE IsMain
    <3>1. stack'[1].pc = "copy" /\ stack'[1].now = stack[1].now /\ stack[1].pc = "read"
      BY <1>1, <1>2, <1>4, <1>5, <2>1 DEF IsMain
    <3> QED
      BY <1>1, <1>3, <3>1, TimeKeeps DEF IInv, ringVars, publishVars, historyVars, Writing
  <2>2. CASE ~IsMain
    <3>1. stack'[1] = stack[1]
      BY <1>5, <2>2, FramesOf DEF IInv, Moves, IsMain, Frames
    <3> QED
      BY <1>1, <3>1, TimeKeeps DEF IInv, ringVars, publishVars, historyVars
  <2> QED
    BY <2>1, <2>2
<1> QED
  BY <1>6, <1>7, <1>8, <1>9, <1>10, <1>11 DEF IInv

(* The log line is written: main goes on, a handler returns.               *)
LEMMA EndCopyKeeps == ASSUME IInv, EndCopy PROVE IInv'
<1>1. /\ Top.pc = "copy"
      /\ UNCHANGED <<clock, locked, ringVars, publishVars, historyVars>>
  BY DEF EndCopy, At, envVars
<1>2. Top.pc \notin Critical /\ Top.pc \notin Writing /\ "idle" \in Place
  BY <1>1 DEF Critical, Writing, Place
<1>3. CASE IsMain
  <2>1. Goto("idle")
    BY <1>3 DEF EndCopy
  <2>2. Moves("idle") /\ SameTime
    BY <1>2, <2>1, GotoIsMove DEF IInv
  <2> QED
    BY <1>1, <1>2, <2>2, PlainMove
<1>4. CASE ~IsMain
  <2>1. /\ stack \in Seq(FrameSet) /\ Len(stack) \in Nat /\ Len(stack) > 1
        /\ stack' = SubSeq(stack, 1, Len(stack) - 1)
    <3>1. stack \in Seq(FrameSet) /\ Len(stack) \in Nat /\ Len(stack) > 0
      BY DEF IInv, TypeInv
    <3>2. Len(stack) # 1
      BY <1>4 DEF IsMain
    <3>3. stack' = SubSeq(stack, 1, Len(stack) - 1)
      BY <1>4 DEF EndCopy
    <3>4. Len(stack) > 1
      <4>1. \A n \in Nat : n > 0 /\ n # 1 => n > 1
        OBVIOUS
      <4> QED
        BY <3>1, <3>2, <4>1, Zenon
    <3> QED
      BY <3>1, <3>3, <3>4, Zenon
  <2>2. /\ stack' \in Seq(FrameSet) /\ Len(stack') = Len(stack) - 1
        /\ \A k \in 1 .. Len(stack) - 1 : stack'[k] = stack[k]
    BY <2>1
  <2>3. /\ Frames' = 1 .. Len(stack) - 1 /\ Frames' \subseteq Frames /\ 1 \in Frames'
        /\ \A k \in Frames' : stack'[k] = stack[k]
        /\ \A k \in Frames : k \in Frames' \/ k = Len(stack)
        /\ \A k \in Frames' : \A j \in 1 .. k - 1 : j \in Frames'
    BY <2>1, <2>2 DEF Frames
  <2>4. stack[Len(stack)].pc \notin Critical /\ ~Writes(Len(stack)) /\ Top = stack[Len(stack)]
    BY <1>2 DEF Writes, Top
  <2>5. \A k \in Frames' : Writes(k)' <=> Writes(k)
    BY <2>3 DEF Writes
  <2>6. TypeInv'
    BY <1>1, <2>1, <2>2 DEF IInv, TypeInv, ringVars, publishVars, historyVars
  <2>7. LockInv'
    BY <1>1, <2>3, <2>4 DEF IInv, LockInv
  <2>8. StringInv'
    <3>1. Published' = Published
      BY <1>1 DEF Published, ringVars, publishVars
    <3> QED
      BY <1>1, <2>3, <2>4, <2>5, <3>1 DEF IInv, StringInv, ringVars, publishVars
  <2>9. CopyInv'
    <3> SUFFICES ASSUME NEW k \in Frames', stack'[k].pc = "copy"
                 PROVE  LET d == advances - stack'[k].mark IN
                    /\ d \in Nat
                    /\ \A j \in Frames' : j > k /\ Writes(j)' => d > 0
                    /\ \/ Ahead(stack'[k].ptr, d) /\ \A j \in 1 .. k - 1 : ~Writes(j)'
                       \/ d = 0 /\ Slot_ # stack'[k].ptr /\ \E j \in 1 .. k - 1 : Writes(j)'
      BY <1>1 DEF CopyInv, Ahead, ringVars, historyVars
    <3>1. k \in Frames /\ stack'[k] = stack[k]
      BY <2>3
    <3>2. \A j \in 1 .. k - 1 : Writes(j)' <=> Writes(j)
      BY <2>3, <2>5
    <3> QED
      BY <2>3, <2>5, <3>1, <3>2 DEF IInv, CopyInv
  <2>10. CopyIsIntact'
    BY <1>1, <2>1, <2>2 DEF IInv, CopyIsIntact, ringVars, historyVars
  <2>11. TimeInv'
    BY <1>1, <2>3, TimeKeeps DEF IInv, ringVars, publishVars, historyVars
  <2> QED
    BY <2>6, <2>7, <2>8, <2>9, <2>10, <2>11 DEF IInv
<1> QED
  BY <1>3, <1>4

LEMMA StutterKeeps == ASSUME IInv, UNCHANGED vars PROVE IInv'
<1>1. UNCHANGED <<clock, locked, Slot_, Cached_time_, Cached_err_log_time_,
                  Cached_time, Cached_err_log_time, stack, advances, updated>>
  BY DEF vars, envVars, ringVars, publishVars, historyVars
<1>2. TypeInv' /\ LockInv' /\ CopyInv' /\ CopyIsIntact'
  BY <1>1 DEF IInv, TypeInv, LockInv, CopyInv, CopyIsIntact, Frames, Writes, Ahead
<1>3. StringInv'
  BY <1>1 DEF IInv, StringInv, Published, Frames, Writes
<1>4. TimeInv'
  BY <1>1, TimeKeeps DEF IInv
<1> QED
  BY <1>2, <1>3, <1>4 DEF IInv

LEMMA NextKeeps == ASSUME IInv, [Next]_vars PROVE IInv'
BY TickKeeps, DeliverKeeps, ForceKeeps, MainKeeps, TryLockKeeps, GettimeofdayKeeps,
   SameSecondKeeps, NewSecondKeeps, FormatKeeps, PublishTimeKeeps, PublishStringKeeps,
   StartCopyKeeps, EndCopyKeeps, StutterKeeps DEF Next

LEMMA Invariant == Spec => []IInv
BY InitOK, NextKeeps, PTL DEF Spec

-----------------------------------------------------------------------------
(* Whoever reads the published string, at any moment, reads a whole one:   *)
(* Time_sigsafe_update() and Time_update() write to a slot that is not     *)
(* published, the one after it.                                            *)
THEOREM PublishedCorrect == Spec => []PublishedIsComplete
<1>1. ASSUME IInv PROVE PublishedIsComplete
  <2>1. Published >= 0 /\ Cached_err_log_time \in Slots
    <3>1. Published \in 0 .. Sec(clock) /\ Cached_err_log_time \in Slots
      BY <1>1 DEF IInv, TypeInv, StringInv
    <3> QED
      BY <3>1
  <2> QED
    BY <2>1 DEF PublishedIsComplete, Published, Torn
<1> QED
  BY <1>1, Invariant, PTL

(* A log line's time is one string from its first part to its last, as     *)
(* long as the ring does not come round to it in between.                  *)
THEOREM CopyCorrect == Spec => []CopyIsIntact
<1>1. IInv => CopyIsIntact
  BY DEF IInv
<1> QED
  BY <1>1, Invariant, PTL

(* Time_update() always gets the lock in the main flow, and what it        *)
(* publishes stays the published time until it is called again.            *)
THEOREM CachedTimeCorrect == Spec => []CachedTimeIsCurrent
<1>1. ASSUME IInv PROVE CachedTimeIsCurrent
  <2>1. ASSUME IsMain, At("lock") PROVE ~locked
    <3>1. \A k \in Frames : stack[k].pc = "lock"
      BY <2>1 DEF IsMain, At, Top, Frames
    <3> QED
      BY <1>1, <3>1 DEF IInv, LockInv, Critical, Writing
  <2> QED
    BY <1>1, <2>1 DEF IInv, TimeInv, TimeOf, CachedTimeIsCurrent
<1> QED
  BY <1>1, Invariant, PTL

(* The time in the log never goes back: every string that is published was *)
(* made from a clock read after the last one was, under the same lock.     *)
THEOREM NeverBackwardCorrect == Spec => NeverBackward
<1>1. ASSUME IInv, [Next]_vars PROVE Published' >= Published
  <2>1. Published \in Int /\ Published <= Published
    <3>1. Published \in 0 .. Sec(clock)
      BY <1>1 DEF IInv, StringInv
    <3> QED
      BY <3>1
  <2>2. CASE UNCHANGED <<Cached_err_log_time_, Cached_err_log_time>>
    BY <2>1, <2>2 DEF Published
  <2>3. CASE Format
    <3>1. /\ Cached_err_log_time' = Cached_err_log_time
          /\ \E x \in {Torn, Sec(Top.now)} :
               Cached_err_log_time_' = [Cached_err_log_time_ EXCEPT ![Slot_] = x]
      BY <2>3 DEF Format, publishVars
    <3>2. Top.pc \in Writing
      BY <2>3 DEF Format, At, Writing
    <3>3. Cached_err_log_time # Slot_ /\ Cached_err_log_time \in Slots
          /\ Cached_err_log_time_ \in [Slots -> Int]
      BY <1>1, <3>2, FramesOf DEF IInv, TypeInv, StringInv, Writes
    <3>4. Published' = Published
      BY <3>1, <3>3 DEF Published
    <3> QED
      BY <2>1, <3>4
  <2>4. CASE PublishString
    <3>1. /\ Top.pc \in {"publish", "publish string"}
          /\ Cached_err_log_time' = Slot_ /\ Cached_err_log_time_' = Cached_err_log_time_
      BY <2>4 DEF PublishString, At, ringVars
    <3>2. Published <= Sec(Top.now) /\ Cached_err_log_time_[Slot_] = Sec(Top.now)
          /\ Top.now \in 2 .. clock /\ clock \in Nat
      BY <1>1, <3>1, FramesOf DEF IInv, TypeInv, StringInv, Critical, Writing
    <3>3. Published' = Sec(Top.now) /\ Sec(Top.now) \in Int
      <4>1. Published' = Cached_err_log_time_[Slot_]
        BY <3>1 DEF Published
      <4>2. Sec(Top.now) \in Int
        BY <3>2 DEF Sec
      <4> QED
        BY <3>2, <4>1, <4>2
    <3> QED
      BY <2>1, <3>2, <3>3
  <2>5. CASE UNCHANGED vars
    BY <2>2, <2>5 DEF vars, ringVars, publishVars
  <2>6. Next /\ ~Format /\ ~PublishString =>
          UNCHANGED <<Cached_err_log_time_, Cached_err_log_time>>
    BY DEF Next, Tick, Deliver, ForceUpdate, InstallSignals, MainCalls, TryLock,
           Gettimeofday, SameSecond, NewSecond, PublishTime, StartCopy, EndCopy,
           ringVars, publishVars
  <2> QED
    BY <1>1, <2>2, <2>3, <2>4, <2>5, <2>6
<1>2. IInv /\ [Next]_vars =>
        [Cached_err_log_time_'[Cached_err_log_time']
           >= Cached_err_log_time_[Cached_err_log_time]]_vars
  BY <1>1 DEF Published
<1> QED
  BY <1>2, Invariant, PTL DEF Spec, NeverBackward
=============================================================================
