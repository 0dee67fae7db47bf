------------------------------ MODULE Startup -------------------------------
(***************************************************************************)
(* What main() (src/src/lingx/lingx.cc) does until the server's loop runs  *)
(* or the process ends, and where its messages go meanwhile.  lingx starts *)
(* with a log of its own, the built-in one, and a copy of what matters on  *)
(* stderr; the configuration makes the chain of LogChain; stderr is then   *)
(* redirected, the built-in log closed and the copies end.  All the time   *)
(* any step may fail, and once Init_signals() has run a signal may come.   *)
(* A step that fails logs why, but for an http block in the configuration, *)
(* which as the code is ends the start without a word.                     *)
(*                                                                         *)
(* LogChain's Log_set_log and log_open_default_ are steps of this module.  *)
(* The other directives are ConfCommand's, the pid file is Lifecycle's.    *)
(***************************************************************************)
EXTENDS LogChain

CONSTANT SignalName   \* the words of lingx -s that are used

ASSUME StartAssumption == SignalName \subseteq {"stop", "quit", "reopen", "reload"}

VARIABLES
  at,           \* how far main() is
  test,         \* Opt_test_config
  version,      \* Opt_show_version_
  signal,       \* Opt_signal_, "" if there is none
  http,         \* history: the configuration has come to an http block
  builtin,      \* the built-in log, [level, file]
  closed,       \* its descriptor was closed
  log_,         \* Cycle::log_ of the cycle in use: <<builtin>> or the chain
  Cur_cycle,    \* the log Cur_cycle leads to, likewise
  stderr,       \* where descriptor 2 leads to
  Use_stderr,
  message       \* history: the last message, [level, places]

optVars   == <<test, version, signal, http>>
logVars   == <<builtin, closed, log_, Cur_cycle, stderr, Use_stderr>>
startVars == <<at, optVars, logVars, message>>

Terminal == "terminal"        \* what stderr is when lingx is started
Closed   == "closed"
ALERT    == 2
CRIT     == 3
WARN     == 5
NOTICE   == 6
INFO     == 7

ASSUME NamesAssumption ==                       \* names of files are no others
  {Stderr, Terminal, Closed, NoFile.name} \cap (Name \cup {LNX_ERROR_LOG_PATH}) = {}

StartInit ==
  /\ Init
  /\ at = "options"
  /\ test = FALSE /\ version = FALSE /\ signal = "" /\ http = FALSE
  /\ builtin = [level |-> STDERR, file |-> NoFile] /\ closed = FALSE
  /\ log_ = "builtin" /\ Cur_cycle = "builtin"
  /\ stderr = Terminal /\ Use_stderr = TRUE
  /\ message = [level |-> STDERR, places |-> <<>>]

-----------------------------------------------------------------------------
(* Log_error and Log::log: the logs that admit the level, in their order,  *)
(* and a copy on stderr of what is not there already.                      *)
LogsOf(cycle) == IF cycle = "builtin" THEN <<builtin>> ELSE chain

Place(f) ==
  IF f.fd = STDERR_FILENO THEN stderr
  ELSE IF f = builtin.file /\ closed THEN Closed
  ELSE f.name

Log_error(cycle, lvl) ==
  LET c      == LogsOf(cycle)
      reach  == Written(c, lvl)
      direct == [k \in reach |-> Place(c[k].file)]
      copy   == /\ Use_stderr /\ lvl <= WARN /\ reach # {}
                /\ \A k \in reach : c[k].file.fd # STDERR_FILENO
  IN message' = [level  |-> lvl,
                 places |-> IF copy THEN Append(direct, stderr) ELSE direct]

(* Log::Printf                                                             *)
Printf == message' = [level |-> ERROR, places |-> <<stderr>>]

-----------------------------------------------------------------------------
Goto(a, b) == at = a /\ at' = b

(* Get_options_: one option, or what is none.                              *)
Option ==
  /\ at = "options"
  /\ \/ version' = TRUE /\ UNCHANGED <<test, signal>>            \* -h -v -V
     \/ test' = TRUE /\ UNCHANGED <<version, signal>>            \* -t
     \/ signal' \in SignalName /\ UNCHANGED <<test, version>>    \* -s
  /\ UNCHANGED <<vars, at, http, logVars, message>>

BadOption ==
  /\ Goto("options", "failed")
  /\ Printf
  /\ UNCHANGED <<vars, optVars, logVars>>

OptionsDone ==
  /\ Goto("options", IF version /\ ~test THEN "exited" ELSE "log")
  /\ UNCHANGED <<vars, optVars, logVars, message>>

(* Init_new_log, Process_options_: the built-in log, or stderr for it.     *)
Init_new_log ==
  /\ Goto("log", "conf")
  /\ LET level == IF test THEN INFO ELSE NOTICE
         file  == [name |-> LNX_ERROR_LOG_PATH, fd |-> STDERR_FILENO + 1]
     IN \/ builtin' = [level |-> level, file |-> file] /\ UNCHANGED message
        \/ /\ builtin' = [level |-> level,
                          file  |-> [name |-> Stderr, fd |-> STDERR_FILENO]]
           /\ Printf
  /\ UNCHANGED <<vars, optVars, closed, log_, Cur_cycle, stderr, Use_stderr>>

(* Init_new_cycle: the configuration, of which only the logs are of        *)
(* interest here.                                                          *)
Error_log(name, words) ==
  /\ at = "conf"
  /\ Log_set_log(name, words)
  /\ IF phase' = "failed"
     THEN at' = "failed" /\ Log_error(log_, 1)
     ELSE UNCHANGED <<at, message>>
  /\ UNCHANGED <<optVars, logVars>>

(* Http_core_module creates no main_conf: the block fails, and neither it, *)
(* nor Conf::handle_, nor main() says so.                                  *)
Http_block_ ==
  /\ Goto("conf", "failed")
  /\ http' = TRUE
  /\ UNCHANGED <<vars, test, version, signal, logVars, message>>

ConfDone ==
  /\ Goto("conf", IF signal = "" THEN IF test THEN "test" ELSE "default"
                  ELSE IF test THEN "exited" ELSE "signal")
  /\ UNCHANGED <<vars, optVars, logVars, message>>

(* -t tries whether the pid file can be opened.                            *)
TestPidfile ==
  /\ Goto("test", "default")
  /\ UNCHANGED <<vars, optVars, logVars, message>>

LogDefault ==
  /\ Goto("default", IF test THEN "exited" ELSE "cycle")
  /\ log_open_default_
  /\ log_' = "chain"
  /\ UNCHANGED <<optVars, builtin, closed, Cur_cycle, stderr, Use_stderr, message>>

(* Signal_process: of the four words Os_signal_process knows two, and it  *)
(* fails without a message for the others.                                 *)
IsSignal == signal \in {"stop", "quit"}

SignalProcess ==
  /\ Goto("signal", IF IsSignal THEN "exited" ELSE "failed")
  /\ Log_error(log_, NOTICE)
  /\ UNCHANGED <<vars, optVars, logVars>>

(* main() again: Os_status and Cur_cycle.                                  *)
NewCycle_Late == UNCHANGED Cur_cycle                                 \* mutant

NewCycle == Cur_cycle' = "chain"

SetCycle ==
  /\ Goto("cycle", "signals")
  /\ Log_error(log_, NOTICE)
  /\ NewCycle
  /\ UNCHANGED <<vars, optVars, builtin, closed, log_, stderr, Use_stderr>>

Init_signals ==
  /\ Goto("signals", "daemon")
  /\ UNCHANGED <<vars, optVars, logVars, message>>

(* Daemonize, or a configuration without it: the child goes on.            *)
DaemonStderr_Null == stderr' = "/dev/null"                           \* mutant

DaemonStderr == UNCHANGED stderr

Daemonize ==
  /\ Goto("daemon", "pidfile")
  /\ DaemonStderr
  /\ UNCHANGED <<vars, optVars, builtin, closed, log_, Cur_cycle, Use_stderr, message>>

Create_pidfile ==
  /\ Goto("pidfile", "redirect")
  /\ UNCHANGED <<vars, optVars, logVars, message>>

(* Cycle::log_redirect_stderr                                              *)
KeepStderr_IfFirst == Head(chain).file.fd = STDERR_FILENO            \* mutant

KeepStderr == log_use_stderr \/ Head(chain).file.fd = STDERR_FILENO

log_redirect_stderr ==
  /\ Goto("redirect", "close")
  /\ stderr' = IF KeepStderr THEN stderr ELSE Place(Head(chain).file)
  /\ UNCHANGED <<vars, optVars, builtin, closed, log_, Cur_cycle, Use_stderr, message>>

(* The built-in log is closed, which may fail, and the copies end.         *)
CloseBuiltin ==
  /\ \E end \in {"process", "exited"} : Goto("close", end)  \* master_process
  /\ \/ closed' = (builtin.file.fd # STDERR_FILENO) /\ UNCHANGED message
     \/ /\ builtin.file.fd # STDERR_FILENO
        /\ UNCHANGED closed
        /\ Log_error(log_, ALERT)
  /\ Use_stderr' = FALSE
  /\ UNCHANGED <<vars, optVars, builtin, log_, Cur_cycle, stderr>>

(* Single_process_cycle: init_process of the modules.                      *)
Init_process ==
  /\ Goto("process", "serving")
  /\ UNCHANGED <<vars, optVars, logVars, message>>

-----------------------------------------------------------------------------
(* The step main() is at fails, and with it the start.                     *)
FailureLevels ==
  [conf     |-> {1, ALERT},          \* uname(), parsing, init_conf
   test     |-> {1},                 \* open() of the pid file
   signal   |-> {ALERT, CRIT, ERROR},
   signals  |-> {1},                 \* sigaction()
   daemon   |-> {1},                 \* fork(), setsid(), open(), dup2()
   pidfile  |-> {1, CRIT},           \* open(), write()
   redirect |-> {ALERT},             \* dup2()
   process  |-> {ALERT}]             \* getrlimit()

StepFails ==
  /\ at \in DOMAIN FailureLevels
  /\ at' = "failed"
  /\ \E lvl \in FailureLevels[at] : Log_error(log_, lvl)
  /\ UNCHANGED <<vars, optVars, logVars>>

(* Signal_handler_, and any message of the server once it runs.            *)
HasHandlers == at \in {"daemon", "pidfile", "redirect", "close",
                     "process", "serving"}

SignalMessage ==
  /\ HasHandlers
  /\ Log_error(Cur_cycle, NOTICE)
  /\ UNCHANGED <<vars, at, optVars, logVars>>

ServerMessage ==
  /\ at = "serving"
  /\ \E lvl \in 1 .. DEBUG : Log_error(log_, lvl)
  /\ UNCHANGED <<vars, at, optVars, logVars>>

StartNext ==
  \/ Option \/ BadOption \/ OptionsDone \/ Init_new_log
  \/ \E n \in Name \cup {Stderr}, k \in 0 .. 2 : \E words \in [1 .. k -> Word] :
       Error_log(n, words)
  \/ Http_block_ \/ ConfDone \/ TestPidfile \/ LogDefault \/ SignalProcess
  \/ SetCycle \/ Init_signals \/ Daemonize \/ Create_pidfile
  \/ log_redirect_stderr \/ CloseBuiltin \/ Init_process
  \/ StepFails \/ SignalMessage \/ ServerMessage

StartSpec == StartInit /\ [][StartNext]_<<vars, startVars>>

-----------------------------------------------------------------------------
(* Where the directive of a log says that it writes.                       *)
Named(f) == IF f.name = Stderr THEN Terminal ELSE f.name

(* A start that fails, not as lingx -s, says why.  As long as the copies   *)
(* last that is on the terminal it was started from, unless the level of   *)
(* the configured log admits no such message (lingx.cc:89-143,             *)
(* log.cc:110).  When init_process() fails stderr is redirected and the    *)
(* copies have ended: then every configured log that admits the message    *)
(* has it, where its directive says (process_cycle.cc:30).  An http block  *)
(* is excepted: it fails without a message (http.cc:72).                   *)
FailureIsTold ==
  at = "failed" /\ signal = "" /\ ~http =>
    IF Use_stderr
    THEN \/ Terminal \in ToSet(message.places)
         \/ Head(LogsOf(log_)).level < message.level
    ELSE \A k \in DOMAIN chain :
           chain[k].level >= message.level =>
             Named(chain[k].file) \in ToSet(message.places)

(* No message is written to a descriptor that was closed, and could be     *)
(* another file's by then: what still refers to the built-in log is not    *)
(* used after main() has closed it, by a signal handler neither            *)
(* (lingx.cc:122, 145-150, process.cc:60).                                 *)
WritesLand == Closed \notin ToSet(message.places)

(* In a server every log writes where its directive says, and a server     *)
(* none of whose logs is on stderr has let go of the terminal, so that     *)
(* what writes to stderr without a log finds one (cycle.cc:103-119).       *)
StderrIsRight ==
  at = "serving" =>
    /\ \A k \in DOMAIN chain : Place(chain[k].file) = Named(chain[k].file)
    /\ stderr = Terminal => \E k \in DOMAIN chain : chain[k].file.name = Stderr
    /\ ~Use_stderr
=============================================================================
