-------------------------- MODULE Lifecycle_proof ---------------------------
(***************************************************************************)
(* However many servers, testers and signallers there are, and however     *)
(* often a server is started: a signal that lingx -s says it has sent is   *)
(* seen.  What the pid file says of a server is right as long as no second *)
(* server shares the file.                                                 *)
(***************************************************************************)
EXTENDS Lifecycle, TLAPS

Process == Server \cup Tester \cup Signaller

ServerPc == {"none", "start"} \cup Up \cup Gone

(* Nobody has a pid of a start that is still to come.                      *)
Known(id) == \A s \in Server, i \in Nat : id = <<s, i>> => i <= start[s]

(* What every variable is, and which pids there may be.                    *)
ProcessInv ==
  /\ pc \in [Process -> ServerPc \cup {"kill"}]
  /\ \A s \in Server : pc[s] \in ServerPc
  /\ \A k \in Signaller : pc[k] \in {"none", "kill", "exited", "failed"}
  /\ start \in [Server -> Nat]
  /\ \A s \in Server : pc[s] # "none" => start[s] > 0
  /\ master \in [Server -> BOOLEAN] /\ stop \in [Server -> BOOLEAN]
  /\ pid \in [Signaller -> (Server \X Nat) \cup {NoPid}]
  /\ pid_file \in (Server \X Nat) \cup {Absent, Empty}
  /\ Known(pid_file) /\ \A k \in Signaller : Known(pid[k])

(* One server: its pid is in the file from the write on.                   *)
PidfileInv ==
  \A s \in Server : pc[s] \in {"written"} \cup Loop => pid_file = Pid(s)

NoSecondServer == \A s, t \in Server : s = t

IInv == ProcessInv /\ SentIsSeen

-----------------------------------------------------------------------------
(* A step that moves one server on, from somewhere it can still run, and   *)
(* sets no flag back.                                                      *)
LEMMA ServerMoves ==
  ASSUME IInv, NEW s \in Server, pc[s] \in {"start"} \cup Up,
         NEW at \in ServerPc \ {"none"}, pc' = [pc EXCEPT ![s] = at],
         stop' \in [Server -> BOOLEAN], \A t \in Server : stop[t] => stop'[t],
         UNCHANGED <<start, master, signallerVars>>,
         pid_file' \in {pid_file, Absent, Empty, Pid(s)}
  PROVE  IInv'
<1>1. /\ pc' \in [Process -> ServerPc \cup {"kill"}] /\ \A t \in Server : pc'[t] \in ServerPc
      /\ \A k \in Signaller : pc'[k] = pc[k]
      /\ \A t \in Server : t # s => pc'[t] = pc[t]
      /\ pc'[s] = at
  <2>1. /\ pc \in [Process -> ServerPc \cup {"kill"}]
       /\ s \in Process /\ at \in ServerPc
    BY DEF IInv, ProcessInv, Process
  <2>2. \A k \in Signaller : k # s /\ k \in Process
    BY LifecycleAssumption DEF Process
  <2>3. \A t \in Server : t \in Process /\ pc[t] \in ServerPc
    BY DEF IInv, ProcessInv, Process
  <2> QED
    BY <2>1, <2>2, <2>3
<1>2. Pid(s) \in Server \X Nat /\ Known(Pid(s)) /\ Known(Absent) /\ Known(Empty)
  <2>1. start[s] \in Nat /\ \A i \in Nat : i >= 0
    BY DEF IInv, ProcessInv
  <2>2. \A t \in Server : start[t] \in Nat
    BY DEF IInv, ProcessInv
  <2> QED
    BY <2>1, <2>2 DEF Pid, Known, Absent, Empty
<1>3. ProcessInv'
  <2>1. start' = start /\ master' = master /\ pid' = pid
    BY DEF signallerVars
  <2>2. \A id : Known(id)' <=> Known(id)
    BY <2>1 DEF Known
  <2>3. Known(pid_file)' /\ pid_file' \in (Server \X Nat) \cup {Absent, Empty}
    BY <1>2, <2>1 DEF IInv, ProcessInv, Known, Absent, Empty
  <2>4. \A t \in Server : pc'[t] # "none" => start'[t] > 0
    BY <1>1, <2>1 DEF IInv, ProcessInv, Up, Loop
  <2> QED
    BY <1>1, <2>1, <2>3, <2>4 DEF IInv, ProcessInv, Known, NoPid, Absent, Empty
<1>4. SentIsSeen'
  <2> SUFFICES ASSUME NEW k \in Signaller, NEW t \in Server,
                      pc'[k] = "exited", pid'[k] = Pid(t)'
               PROVE  stop'[t] \/ pc'[t] \in Gone
    BY DEF SentIsSeen
  <2>1. pc[k] = "exited" /\ pid[k] = Pid(t)
    BY <1>1 DEF signallerVars, Pid
  <2>2. stop[t] \/ pc[t] \in Gone
    BY <2>1 DEF IInv, SentIsSeen
  <2> QED
    BY <2>2, <1>1 DEF Up, Loop, Gone
<1> QED
  BY <1>3, <1>4 DEF IInv

(* What lingx -t and lingx -s do to the processes and the file.            *)
LEMMA OthersKeep ==
  ASSUME IInv, NEW x \in Tester \cup Signaller, NEW at \in ServerPc \cup {"kill"},
         pc' = [pc EXCEPT ![x] = at],
         x \in Signaller => at \in {"kill", "failed"},
         UNCHANGED <<serverVars, name>>,
         pid_file' \in {pid_file, Empty},
         \/ UNCHANGED pid
         \/ /\ x \in Signaller
            /\ \E id \in {pid_file} \ {Absent, Empty} : pid' = [pid EXCEPT ![x] = id]
  PROVE  IInv'
<1>1. /\ pc' \in [Process -> ServerPc \cup {"kill"}]
      /\ \A s \in Server : pc'[s] = pc[s]
      /\ \A k \in Signaller : pc'[k] = IF k = x THEN at ELSE pc[k]
  BY LifecycleAssumption DEF IInv, ProcessInv, Process
<1>2. start' = start /\ master' = master /\ stop' = stop
  BY DEF serverVars
<1>3. \A id : Known(id)' <=> Known(id)
  BY <1>2 DEF Known
<1>4. \A k \in Signaller : k # x => pid'[k] = pid[k]
  BY DEF IInv, ProcessInv
<1>5. pid' \in [Signaller -> (Server \X Nat) \cup {NoPid}]
  BY DEF IInv, ProcessInv
<1>6. \A k \in Signaller : Known(pid'[k])
  BY DEF IInv, ProcessInv
<1>7. pid_file' \in (Server \X Nat) \cup {Absent, Empty} /\ Known(pid_file')
  BY DEF IInv, ProcessInv, Known, Empty
<1>8. ProcessInv'
  BY <1>1, <1>2, <1>3, <1>5, <1>6, <1>7 DEF IInv, ProcessInv
<1>9. SentIsSeen'
  BY <1>1, <1>2, <1>4 DEF IInv, SentIsSeen, Pid
<1> QED
  BY <1>8, <1>9 DEF IInv

(* A new start has a pid that nobody can have read.                        *)
LEMMA StartKeeps ==
  ASSUME IInv, NEW s \in Server, Start(s)
  PROVE  IInv'
<1>1. /\ pc' \in [Process -> ServerPc \cup {"kill"}]
      /\ pc'[s] = "start" /\ \A t \in Server : t # s => pc'[t] = pc[t]
      /\ \A k \in Signaller : pc'[k] = pc[k]
  BY LifecycleAssumption DEF IInv, ProcessInv, Process, Start, Goto, ServerPc
<1>2. /\ start' \in [Server -> Nat] /\ start'[s] = start[s] + 1 /\ start[s] \in Nat
      /\ \A t \in Server : t # s => start'[t] = start[t]
  BY DEF IInv, ProcessInv, Start
<1>3. /\ master' \in [Server -> BOOLEAN] /\ stop' \in [Server -> BOOLEAN]
      /\ \A t \in Server : t # s => stop'[t] = stop[t]
      /\ pid' = pid /\ pid_file' = pid_file
  BY DEF IInv, ProcessInv, Start, signallerVars
<1>4. \A id : Known(id) => Known(id)'
  <2> SUFFICES ASSUME NEW id, Known(id), NEW t \in Server, NEW i \in Nat, id = <<t, i>>
               PROVE  i <= start'[t]
    BY DEF Known
  <2>1. i <= start[t]
    BY DEF Known
  <2> QED
    BY <2>1, <1>2
<1>5. ProcessInv'
  <2>1. \A t \in Server : pc'[t] # "none" => start'[t] > 0
    BY <1>1, <1>2 DEF IInv, ProcessInv
  <2> QED
    BY <1>1, <1>2, <1>3, <1>4, <2>1 DEF IInv, ProcessInv, ServerPc
<1>6. SentIsSeen'
  <2> SUFFICES ASSUME NEW k \in Signaller, NEW t \in Server,
                      pc'[k] = "exited", pid'[k] = Pid(t)'
               PROVE  stop'[t] \/ pc'[t] \in Gone
    BY DEF SentIsSeen
  <2>1. CASE t = s
    <3>1. pid[k] = <<s, start[s] + 1>> /\ Known(pid[k])
      BY <2>1, <1>2, <1>3 DEF Pid, IInv, ProcessInv
    <3>2. start[s] + 1 <= start[s]
      BY <3>1, <1>2 DEF Known
    <3> QED
      BY <3>2, <1>2
  <2>2. CASE t # s
    BY <2>2, <1>1, <1>2, <1>3 DEF IInv, SentIsSeen, Pid
  <2> QED
    BY <2>1, <2>2
<1> QED
  BY <1>5, <1>6 DEF IInv

(* lingx -s exits with success only after its signal was delivered.        *)
LEMMA SignalKeeps ==
  ASSUME IInv, NEW k \in Signaller, Os_signal_process(k)
  PROVE  IInv'
<1>1. UNCHANGED <<start, master, pid_file, signallerVars>>
  BY DEF Os_signal_process
<1>2. CASE Goto(k, "failed") /\ UNCHANGED stop
  BY <1>1, <1>2, OthersKeep DEF Goto, serverVars, signallerVars, ServerPc, Gone
<1>3. CASE \E s \in Server : \E at \in ServerPc \ {"none"} :
             /\ Pid(s) = pid[k] /\ pc[s] \in {"start"} \cup Up
             /\ pc' = [pc EXCEPT ![s] = at, ![k] = "exited"]
             /\ stop' \in [Server -> BOOLEAN]
             /\ \A t \in Server : stop[t] => stop'[t]
             /\ stop'[s] \/ at \in Gone
  <2>1. PICK s \in Server, at \in ServerPc \ {"none"} :
             /\ Pid(s) = pid[k] /\ pc[s] \in {"start"} \cup Up
             /\ pc' = [pc EXCEPT ![s] = at, ![k] = "exited"]
             /\ stop' \in [Server -> BOOLEAN]
             /\ \A t \in Server : stop[t] => stop'[t]
             /\ stop'[s] \/ at \in Gone
    BY <1>3
  <2>2. /\ pc' \in [Process -> ServerPc \cup {"kill"}]
        /\ pc'[s] = at /\ \A t \in Server : t # s => pc'[t] = pc[t]
        /\ pc'[k] = "exited" /\ \A x \in Signaller : x # k => pc'[x] = pc[x]
    <3>1. "exited" \in ServerPc /\ k \notin Server /\ s \notin Signaller
      BY LifecycleAssumption DEF ServerPc, Gone
    <3> QED
      BY <2>1, <3>1 DEF IInv, ProcessInv, Process
  <2>3. start' = start /\ master' = master /\ pid' = pid
    BY <1>1 DEF signallerVars
  <2>4. \A id : Known(id)' <=> Known(id)
    BY <2>3 DEF Known
  <2>5. pc[s] # "none"
    BY <2>1 DEF Up, Loop
  <2>6. ProcessInv'
    BY <1>1, <2>1, <2>2, <2>3, <2>4, <2>5 DEF IInv, ProcessInv
  <2>7. SentIsSeen'
    <3> SUFFICES ASSUME NEW x \in Signaller, NEW t \in Server,
                        pc'[x] = "exited", pid'[x] = Pid(t)'
                 PROVE  stop'[t] \/ pc'[t] \in Gone
      BY DEF SentIsSeen
    <3>1. pid[x] = Pid(t)
      BY <2>3 DEF Pid
    <3>2. CASE t = s
      BY <3>2, <2>1, <2>2
    <3>3. CASE t # s
      <4>1. Pid(t) # Pid(s)
        BY <3>3 DEF Pid
      <4>2. x # k
        BY <4>1, <3>1, <2>1
      <4> QED
        BY <3>1, <3>3, <4>2, <2>1, <2>2 DEF IInv, SentIsSeen
    <3> QED
      BY <3>2, <3>3
  <2> QED
    BY <2>6, <2>7 DEF IInv
<1>4. CASE \E s \in Server :
             /\ Pid(s) = pid[k] /\ pc[s] \in {"start"} \cup Up
             /\ \/ /\ pc[s] = "start"
                   /\ pc' = [pc EXCEPT ![s] = "killed", ![k] = "exited"]
                   /\ UNCHANGED stop
                \/ /\ pc[s] \in Up
                   /\ Signal_handler_(s)
                   /\ pc' = [pc EXCEPT ![s] = IF @ = "poll" THEN "check" ELSE @,
                                       ![k] = "exited"]
  <2>1. PICK s \in Server :
             /\ Pid(s) = pid[k] /\ pc[s] \in {"start"} \cup Up
             /\ \/ /\ pc[s] = "start"
                   /\ pc' = [pc EXCEPT ![s] = "killed", ![k] = "exited"]
                   /\ UNCHANGED stop
                \/ /\ pc[s] \in Up
                   /\ Signal_handler_(s)
                   /\ pc' = [pc EXCEPT ![s] = IF @ = "poll" THEN "check" ELSE @,
                                       ![k] = "exited"]
    BY <1>4
  <2>2. k # s /\ stop \in [Server -> BOOLEAN] /\ s \in DOMAIN pc
    BY LifecycleAssumption DEF IInv, ProcessInv, Process
  <2>3. CASE pc' = [pc EXCEPT ![s] = "killed", ![k] = "exited"] /\ UNCHANGED stop
    <3>1. "killed" \in ServerPc \ {"none"} /\ "killed" \in Gone
      BY DEF ServerPc, Gone
    <3> QED
      BY <1>3, <2>1, <2>2, <2>3, <3>1
  <2>4. CASE /\ pc[s] \in Up /\ Signal_handler_(s)
             /\ pc' = [pc EXCEPT ![s] = IF @ = "poll" THEN "check" ELSE @,
                                 ![k] = "exited"]
    <3> DEFINE at == IF pc[s] = "poll" THEN "check" ELSE pc[s]
    <3>1. at \in ServerPc \ {"none"}
      BY <2>4 DEF ServerPc, Up, Loop
    <3>2. pc' = [pc EXCEPT ![s] = at, ![k] = "exited"]
      BY <2>4
    <3>3. /\ stop' \in [Server -> BOOLEAN] /\ stop'[s]
          /\ \A t \in Server : stop[t] => stop'[t]
      BY <2>2, <2>4 DEF Signal_handler_
    <3> QED
      BY <1>3, <2>1, <3>1, <3>2, <3>3
  <2> QED
    BY <2>1, <2>3, <2>4
<1> QED
  BY <1>2, <1>4 DEF Os_signal_process

LEMMA ServerKeeps ==
  ASSUME IInv, NEW s \in Server,
         ServerStep(s) \/ PollEvent(s) \/ Fail(s) \/ Interrupt(s) \/ Crash(s)
  PROVE  IInv'
<1>1. /\ stop \in [Server -> BOOLEAN]
      /\ pc[s] \in ServerPc /\ s \in Process /\ pc = [pc EXCEPT ![s] = pc[s]]
  BY DEF IInv, ProcessInv, Process
<1>2. /\ {"start", "killed", "failed", "exited"} \subseteq ServerPc \ {"none"}
      /\ Up \subseteq ServerPc \ {"none"}
      /\ {"signals", "truncated", "written", "check", "enter", "poll", "unlink"} = Up
  BY DEF ServerPc, Up, Gone, Loop
<1>3. CASE \E a \in {"start"} \cup Up, b \in ServerPc \ {"none"} :
             /\ pc[s] = a /\ Goto(s, b)
             /\ UNCHANGED <<serverVars, signallerVars>>
             /\ pid_file' \in {pid_file, Absent, Empty, Pid(s)}
  BY <1>1, <1>3, ServerMoves DEF Goto, serverVars
<1>4. CASE ServerStep(s) \/ PollEvent(s)
  <2>1. CASE Init_signals(s)
    BY <2>1, <1>2, <1>3 DEF Init_signals, Step
  <2>2. CASE TruncatePidfile(s)
    BY <2>2, <1>2, <1>3 DEF TruncatePidfile, Step
  <2>3. CASE WritePidfile(s)
    BY <2>3, <1>2, <1>3 DEF WritePidfile, Step, PidText
  <2>4. CASE Run(s)
    BY <2>4, <1>2, <1>3 DEF Run, Step
  <2>5. CASE EnterPoll(s)
    BY <2>5, <1>2, <1>3 DEF EnterPoll, Step
  <2>6. CASE Check(s)
    BY <2>6, <1>2, <1>3 DEF Check, Step
  <2>7. CASE Master_process_exit_(s)
    BY <2>7, <1>2, <1>3 DEF Master_process_exit_, Step, Delete_pidfile
  <2>8. CASE PollEvent(s)
    BY <2>8, <1>2, <1>3 DEF PollEvent, Step
  <2> QED
    BY <1>4, <2>1, <2>2, <2>3, <2>4, <2>5, <2>6, <2>7, <2>8 DEF ServerStep
<1>5. CASE Fail(s) \/ Crash(s)
  BY <1>2, <1>3, <1>5 DEF Fail, Crash
<1>6. CASE Interrupt(s)
  <2>1. UNCHANGED <<start, master, pid_file, signallerVars>> /\ Deliver(s)
    BY <1>6 DEF Interrupt
  <2>2. CASE pc[s] = "start" /\ Goto(s, "killed") /\ UNCHANGED stop
    BY <1>1, <1>2, <2>1, <2>2, ServerMoves DEF Goto
  <2>3. CASE /\ pc[s] \in Up /\ Signal_handler_(s)
             /\ IF pc[s] = "poll" THEN Goto(s, "check") ELSE UNCHANGED pc
    <3>1. stop' \in [Server -> BOOLEAN] /\ \A t \in Server : stop[t] => stop'[t]
      BY <1>1, <2>3 DEF Signal_handler_
    <3>2. \E at \in ServerPc \ {"none"} : pc' = [pc EXCEPT ![s] = at]
      BY <1>1, <1>2, <2>3 DEF Goto
    <3> QED
      BY <2>1, <2>3, <3>1, <3>2, ServerMoves
  <2> QED
    BY <2>1, <2>2, <2>3 DEF Deliver
<1> QED
  BY <1>4, <1>5, <1>6

LEMMA OthersStep ==
  ASSUME IInv, NEW x \in Tester \cup Signaller,
         \/ x \in Tester /\ Test(x)
         \/ x \in Signaller /\ ReadPidfile(x)
  PROVE  IInv'
<1>1. /\ {"exited", "failed", "kill"} \subseteq ServerPc \cup {"kill"}
      /\ pid = [pid EXCEPT ![x] = pid[x]] \/ x \notin Signaller
  BY DEF ServerPc, Gone, IInv, ProcessInv
<1>2. CASE x \in Tester /\ Test(x)
  BY <1>1, <1>2, OthersKeep, LifecycleAssumption
     DEF Test, Step, Goto, TestPidfile, signallerVars
<1>3. CASE x \in Signaller /\ ReadPidfile(x)
  <2>1. UNCHANGED <<serverVars, name>> /\ pid_file' = pid_file
    BY <1>3 DEF ReadPidfile
  <2>2. CASE pid_file \in {Absent, Empty}
    BY <1>1, <1>3, <2>1, <2>2, OthersKeep DEF ReadPidfile, Step, Goto
  <2>3. CASE pid_file \notin {Absent, Empty}
    BY <1>1, <1>3, <2>1, <2>3, OthersKeep DEF ReadPidfile, Step, Goto
  <2> QED
    BY <2>2, <2>3
<1> QED
  BY <1>2, <1>3

LEMMA Invariant == Spec => []IInv
<1>1. Init => IInv
  BY LifecycleAssumption
     DEF Init, IInv, ProcessInv, SentIsSeen, Process, ServerPc, Known, NoPid, Absent, Empty
<1>2. IInv /\ [Next]_vars => IInv'
  <2> SUFFICES ASSUME IInv, [Next]_vars PROVE IInv'
    OBVIOUS
  <2>1. CASE UNCHANGED vars
    BY <2>1 DEF vars, IInv, ProcessInv, SentIsSeen, Known, Pid
  <2>2. CASE \E s \in Server : Start(s)
    BY <2>2, StartKeeps
  <2>3. CASE \E s \in Server : ServerStep(s) \/ PollEvent(s) \/ Fail(s)
                                \/ Interrupt(s) \/ Crash(s)
    BY <2>3, ServerKeeps
  <2>4. CASE \/ \E t \in Tester : Test(t)
             \/ \E k \in Signaller : ReadPidfile(k)
    BY <2>4, OthersStep
  <2>5. CASE \E k \in Signaller : Os_signal_process(k)
    BY <2>5, SignalKeeps
  <2> QED
    BY <2>1, <2>2, <2>3, <2>4, <2>5 DEF Next
<1> QED
  BY <1>1, <1>2, PTL DEF Spec

(* SentIsSeen: when lingx -s reports success the server it found is gone   *)
(* or has the flag set, although the pid was read from a file that other   *)
(* starts of that server, or other servers, may have written meanwhile.    *)
THEOREM SentCorrect == Spec => []SentIsSeen
BY Invariant, PTL DEF IInv

-----------------------------------------------------------------------------
(* PidfileInv, as long as one server uses the file.                        *)
LEMMA PidfileKeeps ==
  ASSUME NoSecondServer, IInv, PidfileInv, [Next]_vars
  PROVE  PidfileInv'
<1> SUFFICES ASSUME NEW s \in Server, pc'[s] \in {"written"} \cup Loop
             PROVE  pid_file' = Pid(s)'
  BY DEF PidfileInv
<1>1. s \in Process /\ DOMAIN pc = Process /\ \A t \in Server : t = s
  BY DEF NoSecondServer, IInv, ProcessInv, Process
<1>2. pc[s] \in {"written"} \cup Loop => pid_file = Pid(s)
  BY DEF PidfileInv
<1>3. pc[s] # "none" => Pid(s) # Absent /\ Pid(s) # Empty
  <2>1. start[s] \in Nat /\ (pc[s] # "none" => start[s] > 0)
    BY DEF IInv, ProcessInv
  <2> QED
    BY <2>1 DEF Pid, Absent, Empty
<1>4. CASE UNCHANGED vars
  BY <1>2, <1>4 DEF vars, Pid
<1>5. CASE \E t \in Server : Start(t)
  <2>1. pc'[s] = "start"
    BY <1>1, <1>5 DEF Start, Goto
  <2> QED
    BY <2>1 DEF Loop
<1>6. CASE \E t \in Server : ServerStep(t)
  <2>1. ServerStep(s) /\ start' = start /\ master' = master /\ Pid(s)' = Pid(s)
    BY <1>1, <1>6 DEF ServerStep, Init_signals, TruncatePidfile, WritePidfile, Run,
       EnterPoll, Check, Master_process_exit_, serverVars, Pid
  <2>2. CASE Init_signals(s) \/ TruncatePidfile(s)
    BY <1>1, <2>2 DEF Init_signals, TruncatePidfile, Step, Goto, Loop
  <2>3. CASE WritePidfile(s)
    BY <1>1, <2>1, <2>3 DEF WritePidfile, Step, Goto, PidText
  <2>4. CASE Run(s) \/ EnterPoll(s) \/ Check(s)
    BY <1>1, <1>2, <2>1, <2>4 DEF Run, EnterPoll, Check, Step, Goto, Loop
  <2>5. CASE Master_process_exit_(s)
    <3>1. pc'[s] = "exited"
      BY <1>1, <2>5 DEF Master_process_exit_, Step, Goto
    <3> QED
      BY <3>1 DEF Loop
  <2> QED
    BY <2>1, <2>2, <2>3, <2>4, <2>5 DEF ServerStep
<1>7. CASE \E t \in Server : PollEvent(t) \/ Fail(t) \/ Interrupt(t) \/ Crash(t)
  <2>1. /\ PollEvent(s) \/ Fail(s) \/ Interrupt(s) \/ Crash(s)
        /\ UNCHANGED <<start, master, pid_file>>
    BY <1>1, <1>7 DEF PollEvent, Fail, Interrupt, Crash, serverVars
  <2>2. pc'[s] = pc[s] \/ pc'[s] \in {"failed", "killed"} \/ (pc[s] = "poll" /\ pc'[s] = "check")
    BY <1>1, <2>1 DEF PollEvent, Fail, Interrupt, Crash, Deliver, Step, Goto
  <2> QED
    BY <1>2, <2>1, <2>2 DEF Pid, Loop
<1>8. CASE \E t \in Tester : Test(t)
  <2>1. pc'[s] = pc[s] /\ start' = start /\ master' = master
    BY <1>1, <1>8, LifecycleAssumption DEF Test, Step, Goto, serverVars
  <2>2. pid_file' = IF pid_file = Absent THEN Empty ELSE pid_file
    BY <1>8 DEF Test, TestPidfile
  <2> QED
    BY <1>2, <1>3, <2>1, <2>2 DEF Pid, Loop
<1>9. CASE \E k \in Signaller : ReadPidfile(k) \/ Os_signal_process(k)
  <2>1. UNCHANGED <<start, master, pid_file>>
    BY <1>9 DEF ReadPidfile, Os_signal_process, serverVars
  <2>2. pc'[s] = pc[s] \/ pc'[s] = "killed" \/ (pc[s] = "poll" /\ pc'[s] = "check")
    <3>1. PICK k \in Signaller : ReadPidfile(k) \/ Os_signal_process(k)
      BY <1>9
    <3>2. k # s
      BY LifecycleAssumption
    <3> QED
      BY <1>1, <3>1, <3>2 DEF ReadPidfile, Os_signal_process, Step, Goto
  <2> QED
    BY <1>2, <2>1, <2>2 DEF Pid, Loop
<1> QED
  BY <1>4, <1>5, <1>6, <1>7, <1>8, <1>9 DEF Next

LEMMA PidfileInvariant == ASSUME NoSecondServer PROVE Spec => []PidfileInv
<1>1. Init => PidfileInv
  BY DEF Init, PidfileInv, Loop
<1>2. IInv /\ PidfileInv /\ [Next]_vars => PidfileInv'
  BY PidfileKeeps
<1> QED
  BY <1>1, <1>2, Invariant, PTL DEF Spec

(* RunningHasPidfile: with one server, its pid is in the file as long as   *)
(* it serves, through any number of crashes, failed unlink()s, restarts    *)
(* and lingx -t.                                                           *)
THEOREM RunningHasPidfileCorrect ==
  ASSUME NoSecondServer PROVE Spec => []RunningHasPidfile
<1>1. PidfileInv => RunningHasPidfile
  BY DEF PidfileInv, RunningHasPidfile
<1> QED
  BY <1>1, PidfileInvariant, PTL
=============================================================================
