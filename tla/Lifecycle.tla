----------------------------- MODULE Lifecycle -----------------------------
(***************************************************************************)
(* The processes around one pid file: lingx itself (main() in lingx.cc,    *)
(* Single_process_cycle), `lingx -t` and `lingx -s signal`.  They share    *)
(* nothing but the pid file and signals, and each may be anywhere in its   *)
(* own code when another one acts.                                         *)
(*                                                                         *)
(* A process is a sequence of program points between the calls the others  *)
(* can notice.  Configuration, logs and what is handled in the event loop  *)
(* are the business of other modules.                                      *)
(***************************************************************************)
EXTENDS Integers

CONSTANTS Server,      \* runs of lingx
          Tester,      \* runs of lingx -t
          Signaller,   \* runs of lingx -s
          SignalName,  \* the -s names tried
          MaxStarts    \* bound: starts of a server

ASSUME LifecycleAssumption ==
  /\ MaxStarts \in Nat
  /\ SignalName \subseteq {"stop", "quit", "reopen", "reload"}
  /\ Server \cap (Tester \cup Signaller) = {} /\ Tester \cap Signaller = {}

VARIABLES
  pc,        \* of each process
  start,     \* starts of each server: its pid is <<server, start>>
  master,    \* the server's configuration says master on (the default)
  stop,      \* Terminate or Quit is set in the server
  pid_file,  \* "absent", "empty", or the pid in it
  name,      \* the signaller's -s argument
  pid        \* the pid it has read, or "none"

vars == <<pc, start, master, stop, pid_file, name, pid>>
serverVars    == <<start, master, stop>>
signallerVars == <<name, pid>>

Absent == <<"absent", 0>>
Empty  == <<"empty", 0>>
NoPid  == <<"none", 0>>
Pid(s) == <<s, start[s]>>

Loop   == {"check", "enter", "poll"}      \* inside Single_process_cycle
Up     == {"signals", "truncated", "written"} \cup Loop \cup {"unlink"}
Gone   == {"exited", "failed", "killed"}

Init ==
  /\ pc = [p \in Server \cup Tester \cup Signaller |-> "none"]
  /\ start = [s \in Server |-> 0]
  /\ master = [s \in Server |-> FALSE]
  /\ stop = [s \in Server |-> FALSE]
  /\ pid_file = Absent
  /\ name \in [Signaller -> SignalName]
  /\ pid = [k \in Signaller |-> NoPid]

Goto(p, at)    == pc' = [pc EXCEPT ![p] = at]
Step(p, a, b)  == pc[p] = a /\ Goto(p, b)

-----------------------------------------------------------------------------
(* main(): a new process, again after an exit.                             *)
Start(s) ==
  /\ pc[s] \in {"none"} \cup Gone /\ start[s] < MaxStarts
  /\ Goto(s, "start")
  /\ start' = [start EXCEPT ![s] = @ + 1]
  /\ \E m \in BOOLEAN : master' = [master EXCEPT ![s] = m]
  /\ stop' = [stop EXCEPT ![s] = FALSE]
  /\ UNCHANGED <<pid_file, signallerVars>>

(* Any of the steps up to the loop may fail, init_process of a module too, *)
(* and the process then exits; what was done before stays done.            *)
Fail(s) ==
  /\ pc[s] \in {"start", "signals", "truncated", "written"}
  /\ Goto(s, "failed")
  /\ UNCHANGED <<pid_file, serverVars, signallerVars>>

Init_signals(s) ==
  /\ Step(s, "start", "signals")
  /\ UNCHANGED <<pid_file, serverVars, signallerVars>>

(* Create_pidfile, after Daemonize() has given the process its last pid.   *)
(* O_TRUNC and the write are two steps for whoever reads the file.         *)
TruncatePidfile(s) ==
  /\ Step(s, "signals", "truncated")
  /\ pid_file' = Empty
  /\ UNCHANGED <<serverVars, signallerVars>>

PidText(s) == Pid(s)

WritePidfile(s) ==
  /\ Step(s, "truncated", "written")
  /\ pid_file' = PidText(s)
  /\ UNCHANGED <<serverVars, signallerVars>>

(* Master_process_cycle() is empty: main() returns, the pid file stays.    *)
Run(s) ==
  /\ Step(s, "written", IF master[s] THEN "exited" ELSE "enter")
  /\ UNCHANGED <<pid_file, serverVars, signallerVars>>

(* Single_process_cycle: Process_events_and_timers() runs from "enter" to  *)
(* "check"; in between it is blocked in poll(), with no timeout as long as *)
(* no timer is set.                                                        *)
EnterPoll(s) ==
  /\ Step(s, "enter", "poll")
  /\ UNCHANGED <<pid_file, serverVars, signallerVars>>

PollEvent(s) ==
  /\ Step(s, "poll", "check")
  /\ UNCHANGED <<pid_file, serverVars, signallerVars>>

Continue_Always(s) == TRUE                     \* mutant: the flags are not read

Continue(s) == ~stop[s]

Check(s) ==
  /\ Step(s, "check", IF Continue(s) THEN "enter" ELSE "unlink")
  /\ UNCHANGED <<pid_file, serverVars, signallerVars>>

(* Master_process_exit_: Delete_pidfile, then exit(0).  When unlink()      *)
(* fails that is only logged, and the pid stays in the file.               *)
Delete_pidfile == pid_file' \in {Absent, pid_file}

Master_process_exit_(s) ==
  /\ Step(s, "unlink", "exited")
  /\ Delete_pidfile
  /\ UNCHANGED <<serverVars, signallerVars>>

-----------------------------------------------------------------------------
(* SIGTERM, SIGQUIT or SIGINT is delivered: before Init_signals it kills,  *)
(* later Signal_handler_ sets a flag, and a blocked poll() returns EINTR.  *)
Handler_Single(s) == stop' = [stop EXCEPT ![s] = @ \/ pc[s] \in Loop] \* mutant

Signal_handler_(s) == stop' = [stop EXCEPT ![s] = TRUE]

Deliver(s) ==
  \/ /\ pc[s] = "start"
     /\ Goto(s, "killed")
     /\ UNCHANGED stop
  \/ /\ pc[s] \in Up
     /\ Signal_handler_(s)
     /\ IF pc[s] = "poll" THEN Goto(s, "check") ELSE UNCHANGED pc

(* From a terminal or another program.                                     *)
Interrupt(s) ==
  /\ Deliver(s)
  /\ UNCHANGED <<start, master, pid_file, signallerVars>>

(* SIGKILL, or the machine goes down with the disk intact.                 *)
Crash(s) ==
  /\ pc[s] \in {"start"} \cup Up
  /\ Goto(s, "killed")
  /\ UNCHANGED <<pid_file, serverVars, signallerVars>>

-----------------------------------------------------------------------------
(* lingx -t opens the pid file, creating it, but does not truncate it.     *)
TestPidfile_Truncates == pid_file' = Empty                           \* mutant

TestPidfile == pid_file' = IF pid_file = Absent THEN Empty ELSE pid_file

Test(t) ==
  /\ Step(t, "none", "exited")
  /\ TestPidfile
  /\ UNCHANGED <<serverVars, signallerVars>>

(* lingx -s: Signal_process reads the pid, Os_signal_process looks the     *)
(* name up in Signals_ and kills the process; only two names are there.    *)
ReadPidfile(k) ==
  /\ Step(k, "none", IF pid_file \in {Absent, Empty} THEN "failed" ELSE "kill")
  /\ pid' = [pid EXCEPT ![k] = IF pid_file \in {Absent, Empty} THEN @ ELSE pid_file]
  /\ UNCHANGED <<pid_file, serverVars, name>>

IsSignal(n) == n \in {"stop", "quit"}

Os_signal_process(k) ==
  /\ pc[k] = "kill"
  /\ \/ /\ IsSignal(name[k])
        /\ \E s \in Server :
             /\ Pid(s) = pid[k] /\ pc[s] \in {"start"} \cup Up
             /\ \/ /\ pc[s] = "start"
                   /\ pc' = [pc EXCEPT ![s] = "killed", ![k] = "exited"]
                   /\ UNCHANGED stop
                \/ /\ pc[s] \in Up
                   /\ Signal_handler_(s)
                   /\ pc' = [pc EXCEPT ![s] = IF @ = "poll" THEN "check" ELSE @,
                                       ![k] = "exited"]
     \/ /\ \/ ~IsSignal(name[k])
           \/ \A s \in Server : Pid(s) # pid[k] \/ pc[s] \notin {"start"} \cup Up
        /\ Goto(k, "failed")
        /\ UNCHANGED stop
  /\ UNCHANGED <<start, master, pid_file, signallerVars>>

-----------------------------------------------------------------------------
ServerStep(s) ==
  \/ Init_signals(s) \/ TruncatePidfile(s) \/ WritePidfile(s) \/ Run(s)
  \/ EnterPoll(s) \/ Check(s) \/ Master_process_exit_(s)

Next ==
  \/ \E s \in Server :
       Start(s) \/ ServerStep(s) \/ PollEvent(s) \/ Fail(s) \/ Interrupt(s) \/ Crash(s)
  \/ \E t \in Tester : Test(t)
  \/ \E k \in Signaller : ReadPidfile(k) \/ Os_signal_process(k)

Spec == Init /\ [][Next]_vars

(* A process that can run does; nothing makes an event come.               *)
FairSpec == Spec /\ \A s \in Server : WF_vars(ServerStep(s))

(* And connections are served: poll() always returns in the end.           *)
BusySpec == FairSpec /\ \A s \in Server : WF_vars(PollEvent(s))

-----------------------------------------------------------------------------
(* One server: as long as it serves, its pid is in the file, whatever      *)
(* lingx -t did meanwhile and whatever an earlier start left behind, be it *)
(* that it crashed or that its unlink() failed.                            *)
RunningHasPidfile ==
  \A s \in Server : pc[s] \in Loop => pid_file = Pid(s)

(* When lingx -s reports success the server it found is gone or knows that *)
(* it has to stop, wherever between Init_signals() and its exit it was.    *)
SentIsSeen ==
  \A k \in Signaller, s \in Server :
    pc[k] = "exited" /\ pid[k] = Pid(s) => stop[s] \/ pc[s] \in Gone

(* A server that has taken a stop signal exits.  It does while events keep *)
(* coming (BusySpec).  The log line of the signal says ", exiting", but a  *)
(* signal between the test of the flags and poll() wakes nobody, and an    *)
(* idle server stays in poll() (FairSpec).                                 *)
StopIsObeyed == \A s \in Server : stop[s] ~> pc[s] \in Gone
=============================================================================
