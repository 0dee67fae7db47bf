# lingx: models, checks and proofs

lingx is a small web server written after the design of nginx: a core (event
loop, timers, cached time, logs, configuration, pid file and signals) and the
beginnings of an HTTP module. This directory holds TLA+ modules of the core,
the TLC configurations that check them on small instances, and TLAPS proofs of
the safety properties for instances of any size. `PROJECT.json` lists
the runs,
says which lines of the source each definition stands for, and names for every
property a plausible bug (a *mutant*) that the run catches. Paths below are
relative to `src/src/lingx/`.

    tlasany M.tla                      parse a module
    tlc -config MCX.cfg MCX            check an instance
    tlapm X_proof.tla                  check the proofs about X, seconds to a
                                       few minutes each

## The system and its parts

| part | state | operations | how it meets the others |
|---|---|---|---|
| poll event module, `core/event_poll_module.cc` | `Events_` (the pollfd array), `nEvents_`, `Event::index`, `Event::active` | `Poll_add_event_`, `Poll_del_event_`, `Poll_process_events_`, `Poll_init_`, `Poll_done_` | called through `Event_actions` by the loop and by handlers; finds connections through `Cycle::files_` |
| event loop, `core/event.cc`, `core/event_posted.cc` | two queues of posted events, `Event::posted` | `Process_events_and_timers`, `Post_event`, `Delete_posted_event`, `Event_process_posted` | calls `poll()`, the handlers, the timers |
| timers, `core/event_timer.cc`, `core/rbtree.h` | a `std::set` of nodes, `Event::timer_set`, `timedout` | `Event_find_timer`, `Event_expire_timers` | gives `poll()` its timeout, reads `Current_msec` |
| cached time, `core/times.cc` | a ring of 64 slots, `Slot_`, a mutex, `Current_msec`, the published pointers | `Time_init`, `Time_update`, `Time_sigsafe_update` | `Time_update` after `poll()`, `Time_sigsafe_update` in signal handlers, read by every log line |
| error log, `core/log.cc`, `core/cycle.cc` | the built-in log, the chain of logs that starts at `Cycle::new_log_`, `open_files_`, `Use_stderr`, where descriptor 2 leads to | `Init_new_log`, `Error_log`/`Log_set_log`, `Log_set_levels_`, `Log_insert`, `log_open_file`, `log_open_default_`, `log_redirect_stderr`, `Log::log`, `Log::Printf` | filled by the `error_log` directive, used by everything, signal handlers included |
| life cycle, `lingx.cc`, `core/process.cc`, `core/process_cycle.cc`, `core/cycle.cc`, `core/daemon.cc` | how far `main` is, `Opt_...`, `Terminate`, `Quit`, `Pid`, the pid file | `main`, `Get_options_`, `Daemonize`, `Init_signals`, `Signal_handler_`, `Create_pidfile`, `Delete_pidfile`, `Signal_process`, `Single_process_cycle` | three kinds of process (server, `lingx -t`, `lingx -s`) that share the pid file and signals |
| configuration parser, `core/conf_file.cc` | a buffer over the file, the words of the current directive, the depth of blocks | `Conf::param`, `Conf::parse`, `Conf::read_token_`, `Conf::handle_` | handlers of directives call `parse` again for a block |
| configuration of the modules, `core/conf_file.cc`, `core/cycle.cc`, `core/module.cc`, `core/event.cc`, `lingx.cc` | module indices, configuration contexts and their objects | `Conf::handle_`, `Set_flag_slot`, `Events_block_`, `count_modules`, `Init_new_cycle`, `Event_core_process_init_` | `create_conf`, the handlers of directives, `init_conf` and `init_process` of every module |
| queue, `core/queue.h`, `core/queue.cc` | intrusive doubly linked lists, rings through a sentinel | macros, `Queue_middle`, `Queue_sort` | the posted queues use the macros; nothing calls the other two yet |
| HTTP module, `http/` | `HttpConfCtx` | `Http_block_`, `Http_core_server_` | a stub: its `create_*_conf` functions return null |
| socket I/O, `core/recv.cc`, `core/send.cc` | `Event::ready`, `eof`, `error` | `Unix_recv`, `Unix_send` | called by handlers |
| files, paths, strings, errors, OS start-up | none that changes | wrappers and look-ups | everywhere |

The process is single-threaded. What makes it hard:

* **Re-entrancy.** A handler runs in the middle of the loop and may add and
  delete events, open and close connections and post events, also those whose
  turn is next in the queue being drained.
* **Moved slots.** Deleting an event moves another connection's slot, so the
  indices of connections that have nothing to do with the call change.
* **Signal handlers** run between any two steps of the main flow and of each
  other (`sa_mask` is empty), update the time and write log lines.
* **Several processes** act on one pid file without a lock.
* **Boundaries**: the end of the pollfd array, of the configuration buffer, of
  the ring of time slots; conversions between 64-bit, signed and `int` times.
* **Partial failure** in start-up, where what was done stays done.

## Modules

| module | models | state and actions |
|---|---|---|
| `InterestSet` | what a registration table promises | the set of open descriptors and the set of pairs (descriptor, direction) the kernel is asked for; `Open`, `Close`, `Watch`, `Unwatch` |
| `PollSet` | `Poll_add_event_`, `Poll_del_event_` | `Events`, `nEvents`, `index`, `active`, `fd`, `files` are the variables of the code; each branch of the two functions is an operator, each call one action |
| `EventLoop` | `Process_events_and_timers` and what it calls | extends `PollSet`; `pc` is the phase, the walk over the slots is one step per slot, a handler is a bounded sequence of `PollSet` operations, posts, opens and closes |
| `UnexpectedEvent` | `EventLoop` with connections closed before their events are deleted | the workaround at `event_poll_module.cc:231-254`; at most `MaxStale` slots are stale at a time |
| `EventLoop_proof` | the proofs about `PollSet`, `EventLoop` and `UnexpectedEvent` | one after the other: the later ones use the lemmas about the operations of the earlier |
| `EventTimers` | the timers and the timeout of `poll()` | `clock` and `Current_msec` are apart; keys are taken modulo `Word`, the timeout modulo `IntWord` |
| `TimeCache` | the cached time | a stack of frames: the main flow and the handlers that interrupt it; `try_lock`, `gettimeofday`, the comparison, the two halves of `sprintf` and each publication are steps |
| `LogChain` | the logs of a cycle | the chain as a sequence; one action per `error_log` directive |
| `Startup` | `main` from its options to the loop or the end, the built-in log, `Log::log`, the redirection of stderr | extends `LogChain`, whose actions are steps of `Init_new_cycle`; `at` is how far `main` is, each step may fail, signal handlers log in between; `message` records where the last message went |
| `QueueList` | what the queue macros promise | each sentinel's sequence of elements |
| `Queue` | the macros of `queue.h`, `Queue_middle`, `Queue_sort` | `prev` and `next` of every cell; a macro is its assignments in their order, read one after the other; one action per macro, one per step of the loops of `Queue_sort` |
| `Lifecycle` | the processes around the pid file | a program counter per process between the calls others can notice |
| `ConfFile` | `Conf::param`, `Conf::parse`, `Conf::read_token_` | one action per branch of the loop over characters, one for filling the buffer |
| `ConfCommand` | `Conf::handle_` and the handlers, `count_modules`, the phases of `Init_new_cycle`, `Event_core_process_init_` | the contexts are functions from indices to objects, `cf` is the stack of `Conf` copies of nested blocks; one action per handler, per end of a block or of a text, per phase |

The modules `Queue_proof`, `EventTimers_proof`, `TimeCache_proof`,
`Lifecycle_proof`, `ConfFile_proof`, `ConfCommand_proof` and `Startup_proof` hold
the proofs about the modules they are named after; `Startup_proof` covers
`LogChain` too.

`InterestSet` is the abstract specification `PollSet` implements, under the
mapping that reads the interest off the live slots of the array, and `QueueList`
the one `Queue` implements, under the mapping that follows `next` from each
sentinel. `EventLoop` composes `PollSet` with the queues, as sequences that is,
which `Queue` justifies, and `UnexpectedEvent` composes `EventLoop`
with a fault. `Startup` composes `LogChain` with `main`: what the log directives
leave decides where messages, failures and stderr go. `ConfFile` and `ConfCommand` are the two sides of `Conf::parse`:
the first reads directives and accepts or refuses any, the second takes
directives in any order and says what they do; `LogChain` is the handler of one
of them. Each `MC...` module gives the constants of a module their
instance. The operators whose name ends in an underscore and a word
(`Retarget_ReadOnly`, ...) and that carry the comment *mutant* are the bugs the
runs are tried against; no specification uses them.

What is **external**: the code that takes connections from
`Cycle::free_connections_` and closes them, that accepts, reads and writes, and
that arms timers is not in the repository yet. It is modelled by what the code
that is there relies on: `index` is reset and `files_[fd]` set before a
connection is used, its events are deleted before it is closed, a posted event
of a closed connection is taken out of its queue, a delay is at least a
millisecond and no two timers have one key.

## Runs

| run | configuration | question |
|---|---|---|
| `poll_set` | `MCPollSet` | Do array and back indices stay consistent whatever slots move, does the array never overflow, and is every call a step of `InterestSet`? |
| `event_loop` | `MCEventLoop` | With handlers that do anything in the middle of the loop: are flags and queues consistent, is no report of `poll()` lost, is the order of the phases kept, is every posted event handled before the loop needs another `poll()`? |
| `unexpected_event` | `MCUnexpectedEvent` | Does the workaround silence the slots of connections that were closed too early, cost no open connection its own, and make the walk miss no report? |
| `event_timers` | `MCEventTimers` | Do flags and tree agree, is no timer early, overdue or slept past, and do timers fire although no event comes? |
| `time_cache` | `MCTimeCache` | Can an interrupted update or copy be seen half done, can the logged time go backwards, does a handler make `Time_update` keep a stale `Cached_time`? |
| `startup` | `MCStartup` | Does every sequence of `error_log` directives give a sorted chain, shared files and a file for each log, is a start that fails told where it was started, or in the configured logs once that was given up, does no message, of a signal handler neither, go to a closed or the wrong file, and does the server let go of the terminal? |
| `queue` | `MCQueue` | Do the macros do to the links what they are to do to the sequences, are `prev` and `next` inverse, is the middle the middle, does `Queue_sort` order the queue and end? |
| `lifecycle` | `MCLifecycle` | Is the pid of a serving process in the file whatever earlier starts left there, is a signal that was sent seen and, while events come, obeyed? |
| `conf_file` | `MCConfFile` | Is a token in one piece wherever the buffer had to be filled again, is nothing ignored silently, does parsing end? |
| `conf_command` | `MCConfCommand` | Is each value the one the text says for the flag of that module, or its default, or is the text refused, and is everything there when the loop starts? |
| `log_open_fails` | `MCLogChainOpenFails` | violated, see *Disagreements* |
| `stop_when_idle` | `MCLifecycleIdle` | violated |

**Bounds.** Three connections (`poll_set`, `unexpected_event`) are the fewest
with which a slot is moved past one that stays; with three descriptors in
`poll_set` each can be reused. `event_loop` has a listening and another
connection: moved slots are the business of the other two, and what it asks of
queues and phases needs two events in each queue. `MaxOps = 2` operations of one
handler are enough to delete one event and add or close another, before the next
handler sees the result; as behaviours are sequences of handlers, longer ones
only save a return. `MaxDue` (one in `event_loop`, none in `unexpected_event`)
bounds timers due at once. `MaxStale = 2` stale slots let a disabled slot be
followed by another stale one. The theorems below hold the safety properties of
`poll_set` and `event_loop` for any number of all of these. Three timers, delays
of one to three and a clock up to five let one timer be armed before, between
and behind others and again after it fired; `MaxLag = 1` lets handlers take
longer than the millisecond the loop looks at; words of 8 and 32 values are the
smallest in which the conversions of the code differ. Three slots and four
signals let the ring come round during a copy. The 64 slots of the code need more
updates, not others: one in a new second takes a slot, so does each in a handler,
and after that, as the handler leaves `sec` at 0, the next `Time_update` within
the same second. Three directives and two level words per directive reach every branch
of `Log_insert` and of `Log_set_levels_`; the signal words of `startup` are one
that is known to `Os_signal_process` and one that is not, and its `Failing` is
empty because a log file that cannot be opened is what `log_open_fails` is
about. Two queues and three elements, two of which compare equal, are enough
for `Queue_split` and `Queue_add` to have both parts with an end of their own
and for the insertion sort to pass one element and stop at another. Two starts of one server see what the first left behind. Texts
of five characters over a buffer of three fill the buffer with a token, a
comment or space and go on behind it. Eight directives set every flag there is in
and around an events block, or repeat one of them.

Symmetry of connections and descriptors is used in `unexpected_event`, of the
two signals in `time_cache`: neither checks liveness and no property names a
member. `startup`, `lifecycle`, `conf_file`, `conf_command` and the two
violated runs do not check deadlock, because start-up and parsing really stop.

**Fairness.** `FairLoopSpec` and `EventTimers!Spec` ask that the process runs
(the operating system schedules it) and that handlers return; nothing is asked
of events. `EventTimers` adds that time passes and that `poll()` returns on its
timeout. `FairSpec` in `Lifecycle` asks the same of the server's own steps,
`BusySpec` adds that `poll()` returns in the end, which is true of a server
that has traffic. `ConfFile` asks that the process runs, and not that `read()`
fails. `Queue` asks that a `Queue_sort` that was called goes on, not that any
macro is called.

## Disagreements between the code and what it says

* `core/cycle.cc:108` says "file log always exists when we are called". When
  `open()` of the file of an `error_log` directive (`core/log.cc:222`) or of the
  default log (`core/cycle.cc:139`) fails, the log is kept with a null file and
  start-up goes on to dereference it (`log_open_fails`).
* SIGTERM is answered with the log line "signal ... received, exiting"
  (`core/process.cc:51`), but the flag is read only after `poll()` has returned
  (`core/process_cycle.cc:37-39`): a signal that comes between the test and
  `poll()` leaves an idle server running (`stop_when_idle`). With events coming
  it exits (`lifecycle`).

Seen while modelling, without a run:

* "too long parameter" (`conf_file.cc:217`) is also the answer to a comment or a
  run of white space of 4096 characters, because `start` stays at the `#`, or
  where the last word began.
* "the stable insertion sort" (`queue.cc:35`) starts at the first element, whose
  predecessor is the sentinel (`queue.cc:45,53`), and calls `cmp` on what the
  sentinel is embedded in. As long as `cmp` does not call that greater, elements
  that compare equal keep their order and the sort ends; when it does, the walk
  goes on at the end of the queue, equal elements may change places, and the
  loop may not end. `Queue` lets the answer be either, and `Sorted` and
  `SortEnds` say what holds for which.
* `-s reopen` and `-s reload` are in the usage text and accepted by
  `Get_options_`, but `Signals_` has no entry for them: nothing is sent, and the
  process exits with status 1 and no message about it. `-t` together with `-s`
  tells that the configuration is fine and sends nothing (`lingx.cc:106-117`).
* If closing the built-in log fails, the alert about it may be in the first log's
  file twice: stderr leads there already, and `Use_stderr` is cleared only after
  it (`lingx.cc:142-152`).
* A log level of `emerg` keeps the alerts and critical errors of a start that
  fails off the terminal too, as `Log::log` copies only what some log admits
  (the second case of `FailureIsTold`).
* An `http` block ends the start, and `lingx -t`, with status 1 and no message:
  `Http_core_module` creates no main configuration (`http_core_module.cc:65-68`),
  `Http_block_` returns `CONF_ERROR` for that (`http.cc:72`), for which
  `Conf::handle_` logs nothing (`conf_file.cc:502-503`), nor does `main`
  (`lingx.cc:105`). `FailureIsTold` excepts it.
* If `unlink()` fails when the server stops (`cycle.cc:433`) the process exits
  with status 0 and its pid stays in the file; a later `lingx -s` signals whoever
  has that pid by then (in `Lifecycle` nobody: pids are not used again).
  `Delete_pidfile` there has both outcomes.
* A daemon's parent exits with status 0 before the child has written the pid
  file or opened anything (`daemon.cc:11`): a start that fails after `Daemonize`
  looks like one that succeeded to whoever waits for it.
* A word with escapes keeps its old length and ends in null characters
  (`conf_file.cc:381`).
* The poll module is given its empty command list as a temporary, to which it
  keeps a reference (`event_poll_module.cc:50`, `module.h:73`): each directive
  that no earlier module takes is then compared with the commands in memory that
  is no list any more. `ConfCommand` keeps this apart as the outcome
  `"dangling"`.
* `EVENT_CONF` and `HTTP_MAIN_CONF` are the same bit (`conf_file.h:37-48`): a
  command for one kind of block is allowed in the other.
* `Http_block_` creates `srv_conf` twice and `loc_conf` never
  (`http.cc:59-60`); the null `create_main_conf` returns hides it.

## Proofs

Every safety property of a passing run, invariant or action property, is proved
for all values of the constants that the assumptions named in the modules allow.

`EventLoop_proof` begins with the table alone (`PollSet`): for every finite set
of connections and every set of descriptors, with no other assumption than
`ConnAssumption` and `FdAssumption`:

* `Invariant`: `Spec => []IInv`, where `IInv` is the conjunction of `TypeOK`,
  `FilesInv`, `IndexInv`, `SlotInv` and `OneSlotPerConnection`. None of the parts is inductive alone: that a moved slot's
  connection is found at all (`Retarget`) needs `SlotInv` and `FilesInv`, that
  the hole belongs to nobody else needs `IndexInv`, and that `nEvents_` may grow
  needs that live slots and open connections are in a one-to-one relation.
* `TypeCorrect`, `IndexCorrect`, `SlotCorrect`, `OneSlotCorrect`,
  `WithinArrayCorrect`: the properties the run `poll_set` checks on three
  connections, as consequences of `IInv`. The bound of the array is a counting
  argument: slots are injected into open connections (`SlotsFit`,
  `RoomForOneMore`).
* `Implements`: `Spec => IS!Spec`, the refinement of `InterestSet`, from
  `NextImplements`, which takes each action to a step or a stutter.

The proof that a step keeps `IInv` has one lemma per action and under it one
step per conjunct.

Then, for any bounds on handlers and timers and with the assumptions of
`EventLoop` on its constants in addition, the safety properties of `event_loop`
for `LoopSpec`:

* `LoopInvariant`: `LoopSpec => []LoopIInv`. `LoopIInv` is `IInv` (a handler's
  operations are `PollSet` steps, so its lemmas are reused), `LoopTypeOK`,
  `QueueInv` and the strengthening of `DrainOrder`. `QueueInv` is not inductive
  without `IInv`: that an event posted by the walk belongs to an open
  connection is `SlotInv`.
* `LoopTypeCorrect`, `LoopSlotCorrect`, `QueueCorrect`, `DrainCorrect` follow.
* `WalkInvariant`: `WalkIInv` says what the walk over the slots knows half way:
  the count of slots still to be found is the number of reported slots it has
  not visited. The array does not change during the walk, as the handlers run
  later. From it follow `ReportsCorrect` (`NoReportLost`) and `AllFoundCorrect`
  (`AllFound`).
* `NothingUnexpected`: the branches for disabled slots and for slots of closed
  connections are never taken as long as events are deleted before a connection
  is closed. `UnexpectedEvent` is what happens otherwise.

Last, for any bound on stale slots, what `UnexpectedEvent` promises of
`EarlySpec`. `SlotInv` is lost there: a slot may belong to nobody, or to a
descriptor that was closed and used again. `EarlyIInv` keeps what is left of it:
`IndexInv`, that the index of an event of an open connection leads to a slot with
its bit (`BitsInv`), and that a slot that is not disabled leads to some connection
(`KnownInv`), which is why `files_[fd]` is never looked up in vain while
the slot that is moved is not disabled (`MovesEnabled`, where the model stops before
what is undefined in the code). `WatchedCorrect` (`OpenKeepWatched`) follows at once.
`SilencedCorrect` (`ClosedIsSilenced`) needs `EarlyWalk`: dropping the last slot
of the array moves none that the walk has still to come to, no fewer slots are
counted than are left, and each one behind the walk is disabled or leads to an
open connection.

`Queue_proof` proves, for any finite sets of sentinels and elements and any
`cmp`, all safety properties of `queue`. The invariant gives each queue in use its
sequence (`Ring`): `next` and `prev` lead from each place of it to the one after
and back, no element has two places, and the linked elements are those that have
one.

* `LinksCorrect` (`LinksMatch`) and `MiddleCorrect` (`MiddleIsMiddle`): following
  `next` from the sentinel gives the sequence, so the fast pointer of
  `Queue_middle` is at the last element when the slow one is half way. That a
  recursive function has the value a sequence says is by induction on the
  naturals, the statement written as a set of them: `LeastNatural` takes the least
  number outside it from their well-foundedness, `ByInduction` concludes.
* `MacrosCorrect` (`ImplementsLists`): for each macro the sequences before and
  after it, with every coincidence of its cells (an empty queue, an element at the
  end, a split at the first). `QueuesAreLists` (`Spec => QL!Spec`) adds that the
  steps of `Queue_sort` are steps of the abstract lists too.
* `SortCorrect` (`Sorted`): the part of the queue before the element that is
  taken is in order, the walk back has passed only greater ones, the elements are
  those of `before`, each with the place it had there, and as long as the sentinel
  was not `passed` those that compare equal are in the order of these places.

`EventTimers_proof` proves `OnTimeCorrect` and `WakesCorrect` for any timers,
delays and word sizes that `DelayAssumption` allows: delays are shorter than half
the int word and times shorter than half the word, which is where the code's
conversions are meant to work. `NoneOverdue` says when something due may be in
the tree at all, `KeysAreNear` that no cut or wrapped difference changes a
timeout; that the first of the tree is the least is `LeastNatural`, from the
well-foundedness of the natural numbers.

`TimeCache_proof` proves the four properties of `time_cache` for any ring of at
least two slots, any number of signals and any depth of handlers. `LockInv` says
one frame of the stack is in the critical section; `StringInv` that the slot
being written is not the published one and no string is older than it;
`CopyInv` counts how many slots ahead of a copy `Slot_` is, and that a frame
below a copy that is half way through writing does not go on before the copy is
done; `TimeInv` what the main flow knows while handlers run.

`Lifecycle_proof` proves `SentCorrect` for any numbers of servers, testers and
signallers: its invariant says that nobody has a pid of a start still to come,
so a pid that was read is of the process that was running, or of one that is
gone. `RunningHasPidfileCorrect` assumes `NoSecondServer` (a second server with
the same configuration does break its property, see below); its invariant is that
the pid is in the file from the write on, whatever a crash or a failed `unlink()`
left there before.

`ConfFile_proof` proves `TokenCorrect` and `NothingLostCorrect` for any text,
any buffer size and any way `read()` divides the file. `BufInv`: the buffer is
the end of the text that was read, shifted by `Moved_by`, and the token starts at
the same character in both; `SizeInv`: what is read is bounded by the size taken
before; `CommentInv` and `KeptInv`: what has been consumed counts, or belongs to
the word that is being read.

`ConfCommand_proof` proves both properties of `conf_command` for any number of
directives, in any order, with any number of words and any values. `Shape` is
what the contexts may look like: only Core has an object in the outer one until
an events block has begun, and the context of the block is there exactly when
the outer one points to it (`Used`). `Flags` says of each flag that it is unset
and nothing was accepted for it, or has the one value that was, with its default
in place of unset once the block has ended, or `init_conf` has run; `Phases` that
no block is open after the file and that there was one when the cycle starts.
What `count_modules` gives the event modules, slots 0 and 1 of two, is
`CountEvents`: its walk is a recursive function with seven values, which are
unfolded (`WalkEnds`). From these follow `ConfigurationCorrect` (`AsWritten`) and
`LoopCorrect` (`LoopIsReady`).

`Startup_proof` proves the six properties of `startup` for any files, level
words and number of directives. `ChainInv` is about `LogChain`: descriptors
follow from the order of opening, `Log_insert` keeps the chain sorted, the head
is unused until a directive has filled it. `CycleInv` says which log each step of
`main` uses and that the built-in log is closed only when nothing leads to it;
`TermInv` where descriptor 2 leads to. That a log's file is not the built-in one,
and so not closed, is that its descriptor is another. The fold of
`Log_set_levels_` is unfolded for the two words of the model (`LevelIs`).
`NamesAssumption` keeps the markers for the terminal and a closed file apart from
names of files. `FailureIsToldCorrect` has two halves: as long as the copies last
the message is on stderr, which is the terminal (`Tells`); when `init_process`
fails it is in every log that admits it, because the chain is sorted
(`AllWritten`), and where that log's directive says, because stderr was kept if
and only if a log is on it (`PlaceIsNamed`, which gives `StderrIsRightCorrect` too). `EveryLogHasFileCorrect` assumes that no `open()` fails, and
`log_open_fails` shows what happens otherwise.

Only model-checked is liveness: `PostedIsHandled`, `TimerFires`, `SortEnds`,
`StopIsObeyed` and `ParseEnds`, as ENABLED and fairness are out of the prover's
reach.

## Not modelled

* The socket calls (`recv.cc`, `send.cc`) and `Event::ready`, `eof`, `error`:
  nothing in the repository calls the first or reads the others, so whatever
  they are to keep would be invented.
* The line numbers and the text about a token that is too long in `ConfFile`,
  and what escapes become: no property is about them.
* What the HTTP blocks do behind the first `create_main_conf`, which returns
  null: it is not reached.
* `Poll_done_` and a second `Init_new_cycle` (reload), and with it the part of
  `count_modules` that looks at the old cycle: nothing calls them.
* Two servers with one pid file: the code has no protection against it, and
  nothing says it should.
* Message formatting, paths, strings, error texts, OS start-up: no state.

## Plan

Done: `PollSet`, `EventLoop`, `UnexpectedEvent`, `EventTimers`, `TimeCache`,
`Lifecycle`, `ConfFile`, `ConfCommand`, `LogChain` with `Startup`, and `Queue`,
with proofs.

Left, for when the code grows: `ConnIO` (`Unix_recv`, `Unix_send` and
`Event::ready` under level-triggered polling) once handlers call them; the
second cycle of a reload in `Startup` and `ConfCommand` once something makes one;
the HTTP blocks once `create_main_conf` returns an object. Of the
present code: more invariants of the queues' callers, now that `Queue` is known to
implement sequences.
