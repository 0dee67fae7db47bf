----------------------------- MODULE LogChain ------------------------------
(***************************************************************************)
(* The error logs of a cycle (src/src/lingx/core/log.cc and cycle.cc).     *)
(* Each error_log directive adds a log to the chain that starts at         *)
(* Cycle::new_log_, log_open_default_() adds one when none has a file, and *)
(* the cycle then writes every message to the logs whose level admits it.  *)
(* Log::log stops at the first log whose level does not, so the chain has  *)
(* to be sorted.  Files are opened once per name and shared.               *)
(***************************************************************************)
EXTENDS Integers, SequencesExt

CONSTANTS Name,       \* the names of log files a configuration may have
          Failing,    \* those whose open() may fail
          LNX_ERROR_LOG_PATH,  \* the built-in default
          Word,       \* the level words used: 1 .. 8 and the debug bits
          MaxLogs     \* bound: error_log directives

LevelWord == 1 .. 8 \cup {16, 32, 64, 128, 256, 512, 1024}

ASSUME LogAssumption ==
  /\ Failing \subseteq Name \cup {LNX_ERROR_LOG_PATH}
  /\ Word \subseteq LevelWord
  /\ MaxLogs \in Nat

STDERR        == 0                 \* Log::STDERR: the level of an unused log
ERROR         == 4
DEBUG         == 8
DEBUG_ALL     == 2147483632
Stderr        == "stderr"
STDERR_FILENO == 2
NoFile        == [name |-> "nullptr", fd |-> -1]

VARIABLES
  phase,        \* "conf", "default", "running" or "failed"
  chain,        \* new_log_ and the logs behind it, [level, file]
  open_files,   \* Cycle::open_files_
  log_use_stderr,
  directives    \* error_log directives seen

vars == <<phase, chain, open_files, log_use_stderr, directives>>

Init ==
  /\ phase = "conf"
  /\ chain = <<[level |-> STDERR, file |-> NoFile]>>
  /\ open_files = <<>>
  /\ log_use_stderr = FALSE
  /\ directives = 0

-----------------------------------------------------------------------------
(* Cycle::log_open_file: a file that is open already is shared, found by   *)
(* its name, and stderr, which has none, by its descriptor.  The first     *)
(* descriptor behind stderr is that of the log lingx starts with.          *)
IsOpen_ByFd(n) == n = Stderr /\ \E f \in ToSet(open_files) : f.name = n  \* mutant

IsOpen(n) == \E f \in ToSet(open_files) : f.name = n

OpenFile(n) == CHOOSE f \in ToSet(open_files) : f.name = n

log_open_file(n, result) ==
  \/ IsOpen(n) /\ result = OpenFile(n) /\ UNCHANGED open_files
  \/ /\ ~IsOpen(n)
     /\ result.name = n
     /\ result.fd = IF n = Stderr THEN STDERR_FILENO
                    ELSE STDERR_FILENO + 2 + Len(open_files)
     /\ open_files' = Append(open_files, result)
  \/ ~IsOpen(n) /\ n \in Failing /\ result = NoFile /\ UNCHANGED open_files

File == {NoFile} \cup
        [name : Name \cup {Stderr, LNX_ERROR_LOG_PATH},
         fd   : STDERR_FILENO .. STDERR_FILENO + 2 + MaxLogs]

(* Log_set_levels_: no word is error; one plain level, or any number of    *)
(* debug bits, but not both; debug alone is every debug bit.  -1 is        *)
(* CONF_ERROR.                                                             *)
IsBit(w)        == w > DEBUG
HasBit(l, b)    == (l \div b) % 2 = 1
AddWord(l, w) ==
  IF l = -1 THEN -1
  ELSE IF IsBit(w)
       THEN IF l \in 1 .. DEBUG THEN -1 ELSE IF HasBit(l, w) THEN l ELSE l + w
       ELSE IF l = STDERR THEN w ELSE -1

LevelOf(words) ==
  IF words = <<>> THEN ERROR
  ELSE LET l == FoldLeft(AddWord, STDERR, words)
       IN  IF l = DEBUG THEN DEBUG_ALL ELSE l

(* Log_insert: before the first log with a lower level; the swap with the  *)
(* head, which cannot be moved, comes to the same.                         *)
Log_insert_Last(c, log) == Append(c, log)                           \* mutant

Log_insert(c, log) ==
  LET lower == {k \in DOMAIN c : log.level > c[k].level}
  IN  InsertAt(c, IF lower = {} THEN Len(c) + 1 ELSE Min(lower), log)

(* Log_set_log: the first directive fills the head, later ones insert.     *)
Log_set_log(n, words) ==
  /\ phase = "conf" /\ directives < MaxLogs
  /\ directives' = directives + 1
  /\ log_use_stderr' = (log_use_stderr \/ n = Stderr)
  /\ \E f \in File :
       /\ log_open_file(n, f)
       /\ LET log == [level |-> LevelOf(words), file |-> f] IN
          \/ log.level = -1 /\ phase' = "failed" /\ UNCHANGED chain
          \/ /\ log.level # -1
             /\ chain' = IF Head(chain).level = STDERR
                         THEN <<log>> ELSE Log_insert(chain, log)
             /\ UNCHANGED phase

(* Cycle::log_open_default_: only a chain without any file needs it.       *)
NeedsDefault_Never == FALSE                                         \* mutant

NeedsDefault == \A k \in DOMAIN chain : chain[k].file = NoFile

log_open_default_ ==
  /\ phase = "conf"
  /\ phase' = "running"
  /\ IF NeedsDefault
     THEN \E f \in File :
            /\ log_open_file(LNX_ERROR_LOG_PATH, f)
            /\ LET log == [level |-> ERROR, file |-> f] IN
               chain' = IF Head(chain).level = STDERR
                        THEN <<log>> ELSE Log_insert(chain, log)
     ELSE UNCHANGED <<chain, open_files>>
  /\ UNCHANGED <<log_use_stderr, directives>>

Next ==
  \/ \E n \in Name \cup {Stderr}, k \in 0 .. 2 : \E words \in [1 .. k -> Word] :
       Log_set_log(n, words)
  \/ log_open_default_

Spec == Init /\ [][Next]_vars

-----------------------------------------------------------------------------
(* The logs Log::log writes a message of a level to: it walks the chain    *)
(* and stops at the first log whose level is lower.                        *)
Written(c, lvl) == {k \in DOMAIN c : \A j \in 1 .. k : c[j].level >= lvl}

(* A message reaches every log that is to have it: none that admits its    *)
(* level is behind one that does not, in whatever order the directives     *)
(* came and whichever of them was first and lives in new_log_ itself; and  *)
(* a log a directive has filled has a level, for level STDERR marks        *)
(* new_log_ as free for the next directive (log.cc:99, 228, 270).          *)
AllReached ==
  /\ \A lvl \in 1 .. DEBUG :
       Written(chain, lvl) = {k \in DOMAIN chain : chain[k].level >= lvl}
  /\ directives > 0 /\ phase # "failed" =>
       \A k \in DOMAIN chain : chain[k].level # STDERR

(* No file is open twice, so no two logs write one file at two offsets,    *)
(* and every log's file is one the cycle knows of.                         *)
FilesAreShared ==
  /\ \A j, k \in DOMAIN open_files : j # k =>
       /\ open_files[j].name # open_files[k].name
       /\ open_files[j].fd # open_files[k].fd
  /\ \A k \in DOMAIN chain :
       chain[k].file \in ToSet(open_files) \cup {NoFile}

(* When the cycle runs every log has a file, whether or not there was any  *)
(* error_log directive: Log::log and log_redirect_stderr() dereference it. *)
EveryLogHasFile ==
  phase = "running" => \A k \in DOMAIN chain : chain[k].file # NoFile

(* "file log always exists when we are called" (the comment in             *)
(* log_redirect_stderr, which looks at the first log only).                *)
FileLogAlwaysExists ==
  phase = "running" /\ ~log_use_stderr => Head(chain).file # NoFile
=============================================================================
