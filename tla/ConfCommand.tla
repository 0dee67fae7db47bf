---------------------------- MODULE ConfCommand ----------------------------
(***************************************************************************)
(* What a configuration does: from the first create_conf of Init_new_cycle *)
(* (src/src/lingx/core/cycle.cc) over the directives of the -g parameter   *)
(* and of the file, which Conf::handle_ (core/conf_file.cc) leads to the   *)
(* module they belong to, to init_conf and init_process, after which the   *)
(* event loop runs.                                                        *)
(*                                                                         *)
(* ConfFile models how directives are read; here they come one by one, a   *)
(* name, a number of words, a value and an end, in any order.              *)
(***************************************************************************)
EXTENDS Integers, SequencesExt, FiniteSetsExt

CONSTANTS Value,                \* second words: ON, OFF, any other
          MaxWords,             \* bound: words of a directive
          MaxDirectives,        \* bound: directives, the -g parameter included
          DEFAULT_CONNECTIONS

ASSUME CommandAssumption ==
  /\ MaxWords \in Nat \ {0} /\ MaxDirectives \in Nat
  /\ DEFAULT_CONNECTIONS \in Nat \ {0}

UNSET == -1
ON    == 1
OFF   == 0

Null  == << >>                  \* no object

-----------------------------------------------------------------------------
(* The modules in their order, and their commands: the module, the place   *)
(* (EVENT_CONF and HTTP_MAIN_CONF are one and the same bit), whether a     *)
(* block follows, and how many words there may be.                         *)
Modules == <<"Core", "Errlog", "Events", "Event_core", "Event_poll",
             "Http", "Http_core">>

Module == ToSet(Modules)

Type == [m \in Module |-> CASE m \in {"Event_core", "Event_poll"} -> "EVENT"
                            [] m = "Http_core"                    -> "HTTP"
                            [] OTHER                              -> "CORE"]

ModulesOf(type) == {m \in Module : Type[m] = type}

Index(m) == CHOOSE i \in 0 .. Len(Modules) - 1 : Modules[i + 1] = m

MAIN_CONF      == 1
EVENT_CONF     == 2
HTTP_MAIN_CONF == 2

Flag(m, place)  == [module |-> m, place |-> place, block |-> FALSE, words |-> {2}]
Block(m, place) == [module |-> m, place |-> place, block |-> TRUE,  words |-> {1}]

Command == [daemon         |-> Flag("Core", MAIN_CONF),
            master_process |-> Flag("Core", MAIN_CONF),
            error_log      |-> [Flag("Errlog", MAIN_CONF)
                                  EXCEPT !.words = 2 .. MaxWords],
            events         |-> Block("Events", MAIN_CONF),
            multi_accept   |-> Flag("Event_core", EVENT_CONF),
            http           |-> Block("Http", MAIN_CONF),
            server         |-> Block("Http_core", HTTP_MAIN_CONF)]

FlagName  == {"daemon", "master_process", "multi_accept"}

Directive == [name : DOMAIN Command \cup {"unknown"}, block : BOOLEAN,
              words : 1 .. MaxWords, value : Value]

VARIABLES
  pc,         \* "param", "file": what is read; "failed", "dangling"; "init";
              \* "process", "master"; "loop"; "null": a null pointer is used
  cf,         \* the Conf of each parse() there is, the innermost last
  ctx,        \* "main" is conf_ctx_, "events" that of the events block
  ctx_index,  \* Module::ctx_index_
  connection_n, actions, slots,   \* connection_n_, Event_actions, Events_.size()
  given,      \* number of directives so far
  written     \* history: the flags accepted, with their values

confVars  == <<ctx, ctx_index, connection_n>>
loopVars  == <<actions, slots>>
vars == <<pc, cf, confVars, loopVars, given, written>>

Conf == [ctx : {"main", "events"}, type : {"CORE", "EVENT", "HTTP"},
         place : {MAIN_CONF, EVENT_CONF}]

CoreConf   == [daemon |-> UNSET, master_process |-> UNSET]
EventConf  == [multi_accept |-> UNSET, use |-> UNSET]
MainConf   == [ctx |-> "main", type |-> "CORE", place |-> MAIN_CONF]
EventsConf == [ctx |-> "events", type |-> "EVENT", place |-> EVENT_CONF]

(* Init_new_cycle: create_conf of the core modules, of which only Core has *)
(* one, and the outermost Conf.                                            *)
Init ==
  /\ pc = "param"
  /\ cf = <<MainConf>>
  /\ ctx = [main |-> [i \in 0 .. Len(Modules) - 1 |->
                        IF i = Index("Core") THEN CoreConf ELSE Null],
            events |-> Null]
  /\ ctx_index = [m \in Module |-> -1]
  /\ connection_n = 0 /\ actions = "none" /\ slots = 0
  /\ given = 0 /\ written = {}

-----------------------------------------------------------------------------
(* Cycle::count_modules: an index for each module of a type that has none, *)
(* and the number of indices.  The old cycle is the first, which has no    *)
(* modules.                                                                *)
count_module_ctx_index(index, used) == Min({i \in index .. index + Len(Modules) : i \notin used})

Count(max) == max + 1

Visit(type, s, m) ==
  LET i == IF ctx_index[m] # -1 THEN ctx_index[m]
           ELSE count_module_ctx_index(s.next, {s.index[k] : k \in ModulesOf(type)})
  IN IF Type[m] # type THEN s
     ELSE [index |-> [s.index EXCEPT ![m] = i],
           next  |-> IF ctx_index[m] \in {-1, s.next} THEN i + 1 ELSE s.next,
           max   |-> Max({s.max, i})]

Visited(type) ==
  LET after[k \in 0 .. Len(Modules)] ==
        IF k = 0 THEN [index |-> ctx_index, next |-> 0, max |-> 0]
                 ELSE Visit(type, after[k - 1], Modules[k])
  IN after[Len(Modules)]

count_modules(type) == [index |-> Visited(type).index, n |-> Count(Visited(type).max)]

-----------------------------------------------------------------------------
(* Conf::handle_: the first module that has the command in this kind of    *)
(* block gets the directive, if its form is right.                         *)
Cf      == Last(cf)
Reading == pc \in {"param", "file"}
Known(d) == d.name \in DOMAIN Command
Cmd(d)   == Command[d.name]

AllowedHere(d) ==
  /\ Known(d)
  /\ Type[Cmd(d).module] = Cf.type
  /\ Cmd(d).place = Cf.place

WellFormed(d) == Cmd(d).block = d.block /\ d.words \in Cmd(d).words

(* The poll module's commands are a reference to a temporary that is gone. *)
(* The walk gets past it unless a module before it took the directive;     *)
(* what it reads there is an empty list, or anything.                      *)
PassesPoll(d) == AllowedHere(d) => Index(Cmd(d).module) > Index("Event_poll")

(* parse() has read d; it refuses a block in the -g parameter itself.      *)
Given(d) ==
  /\ Reading /\ given < MaxDirectives
  /\ given' = given + 1

BlockInParam(d) == pc = "param" /\ d.block

Refuse(d) ==
  /\ Given(d)
  /\ ~(AllowedHere(d) /\ WellFormed(d)) \/ BlockInParam(d)
  /\ pc' = "failed"
  /\ UNCHANGED <<cf, confVars, loopVars, written>>

Dangling(d) ==
  /\ Given(d)
  /\ ~BlockInParam(d) /\ PassesPoll(d)
  /\ pc' = "dangling"
  /\ UNCHANGED <<cf, confVars, loopVars, written>>

CallHandler(d) ==
  /\ Given(d)
  /\ AllowedHere(d) /\ WellFormed(d)
  /\ ~BlockInParam(d)
  /\ UNCHANGED loopVars

Fail == pc' = "failed" /\ UNCHANGED <<cf, confVars, written>>

(* The slot of the handler's module in the context it is called with.      *)
Slot(d) == IF Cmd(d).place = MAIN_CONF THEN Index(Cmd(d).module)
                                       ELSE ctx_index[Cmd(d).module]

(* Set_flag_slot, parse_flag_arg.                                          *)
IsDuplicate_Never(value) == FALSE                                   \* mutant

IsDuplicate(value) == value # UNSET

HasSlot(d) == Slot(d) \in DOMAIN ctx[Cf.ctx] /\ ctx[Cf.ctx][Slot(d)] # Null

Set_flag_slot(d) ==
  /\ CallHandler(d)
  /\ d.name \in FlagName
  /\ IF ~HasSlot(d) THEN pc' = "null" /\ UNCHANGED <<cf, confVars, written>>
     ELSE IF IsDuplicate(ctx[Cf.ctx][Slot(d)][d.name]) \/ d.value \notin {ON, OFF}
     THEN Fail
     ELSE /\ ctx' = [ctx EXCEPT ![Cf.ctx][Slot(d)][d.name] = d.value]
          /\ written' = written \cup {<<d.name, d.value>>}
          /\ UNCHANGED <<pc, cf, ctx_index, connection_n>>

(* What Error_log does is in LogChain; it may fail.                        *)
Error_log(d) ==
  /\ CallHandler(d)
  /\ d.name = "error_log"
  /\ Fail \/ UNCHANGED <<pc, cf, confVars, written>>

(* Http_block_ and Http_core_server_: the first create_main_conf returns   *)
(* null, and so does the create_srv_conf that a server would call.  The    *)
(* slot that http has filled by then is of no more use.                    *)
HttpBlock(d) ==
  /\ CallHandler(d)
  /\ d.name \in {"http", "server"}
  /\ pc' = "failed"
  /\ ctx_index' = IF d.name = "http" THEN count_modules("HTTP").index ELSE ctx_index
  /\ UNCHANGED <<cf, ctx, connection_n, written>>

(* Events_block_ as far as its call of parse(): the context of the block,  *)
(* and a copy of the Conf that points to it.                               *)
Events_block(d) ==
  LET count == count_modules("EVENT")
      conf  == [i \in 0 .. count.n - 1 |->
                  IF i = count.index["Event_core"] THEN EventConf ELSE Null]
  IN
  /\ CallHandler(d)
  /\ d.name = "events"
  /\ IF ctx[Cf.ctx][Slot(d)] # Null THEN Fail
     ELSE /\ ctx' = [ctx EXCEPT ![Cf.ctx][Slot(d)] = [conf |-> "events"], !.events = conf]
          /\ ctx_index' = count.index
          /\ cf' = Append(cf, EventsConf)
          /\ UNCHANGED <<pc, connection_n, written>>

(* Conf_init_value: a default for what was not set.                        *)
InitValue(value, default) == IF value = UNSET THEN default ELSE value

(* The "}" of an events block: the rest of Events_block_, init_conf of the *)
(* event modules.  The module that is used is the first other than         *)
(* Event_core, and poll's own init_conf changes nothing.                   *)
Event_core_init_conf ==
  LET i == ctx_index["Event_core"]
  IN /\ ctx' = [ctx EXCEPT !.events[i] =
                  [multi_accept |-> InitValue(@.multi_accept, OFF),
                   use |-> InitValue(@.use, ctx_index["Event_poll"])]]
     /\ connection_n' = DEFAULT_CONNECTIONS

BlockDone ==
  /\ Reading
  /\ IF Len(cf) = 1                                 \* unexpected "}"
     THEN Fail
     ELSE /\ Event_core_init_conf
          /\ cf' = Front(cf)
          /\ UNCHANGED <<pc, ctx_index, written>>
  /\ UNCHANGED <<loopVars, given>>

(* The end of the parameter (or none), and of the file.                    *)
Ends == IF Len(cf) > 1 THEN "failed" ELSE IF pc = "param" THEN "file" ELSE "init"

FileDone ==
  /\ Reading
  /\ pc' = Ends
  /\ UNCHANGED <<cf, confVars, loopVars, given, written>>

CannotRead ==
  /\ Reading
  /\ Fail
  /\ UNCHANGED <<loopVars, given>>

-----------------------------------------------------------------------------
(* Init_new_cycle after the file: init_conf of the core modules, in their  *)
(* order Core_module_init_conf_ and Events_init_conf_.                     *)
NoEvents_Unchecked == FALSE                                          \* mutant

NoEvents == ctx.main[Index("Events")] = Null

Core_init_conf ==
  ctx' = [ctx EXCEPT !.main[Index("Core")] =
            [daemon         |-> InitValue(@.daemon, ON),
             master_process |-> InitValue(@.master_process, ON)]]

InitConf ==
  /\ pc = "init"
  /\ Core_init_conf
  /\ pc' = IF NoEvents THEN "failed" ELSE "process"
  /\ UNCHANGED <<cf, ctx_index, connection_n, loopVars, given, written>>

(* The rest of Init_new_cycle, of main() and of init_process may fail;     *)
(* other modules model what it does.                                       *)
StartFails ==
  /\ pc = "process"
  /\ Fail
  /\ UNCHANGED <<loopVars, given>>

(* main(): with master_process on, Master_process_cycle() and the end.     *)
RunMaster ==
  /\ pc = "process" /\ ctx.main[Index("Core")].master_process = ON
  /\ pc' = "master"
  /\ UNCHANGED <<cf, confVars, loopVars, given, written>>

(* Single_process_cycle: init_process of Event_core, which has the module  *)
(* with the index ecf->use initialise itself (Poll_init_).                 *)
HasActions(m) == m = "Event_poll"

Use(m) == ctx_index[m] = ctx.events[ctx_index["Event_core"]].use

Poll_init ==
  /\ actions' = "Event_poll"
  /\ slots' = connection_n

ProcessInit ==
  LET used == {m \in ModulesOf("EVENT") : Use(m)}
  IN
  /\ pc = "process" /\ ctx.main[Index("Core")].master_process = OFF
  /\ IF ctx.events = Null \/ \E m \in used : ~HasActions(m)
     THEN pc' = "null" /\ UNCHANGED loopVars
     ELSE pc' = "loop" /\ IF used = {} THEN UNCHANGED loopVars ELSE Poll_init
  /\ UNCHANGED <<cf, confVars, given, written>>

Final == {"failed", "dangling", "null", "master", "loop"}

Handle(d) ==
  \/ Refuse(d)       \/ Dangling(d)   \/ Set_flag_slot(d) \/ Error_log(d)
  \/ Events_block(d) \/ HttpBlock(d)

Next ==
  \/ \E d \in Directive : Handle(d)
  \/ BlockDone \/ FileDone \/ CannotRead
  \/ InitConf \/ StartFails \/ RunMaster \/ ProcessInit

Spec == Init /\ [][Next]_vars

-----------------------------------------------------------------------------
(* The value of a flag in the object of its module.                        *)
Val(f) ==
  LET m == Command[f].module
  IN IF m = "Core" THEN ctx.main[Index(m)][f]
     ELSE IF ctx.events = Null THEN UNSET ELSE ctx.events[ctx_index[m]][f]

(* When a configuration was accepted, every flag has the one value that    *)
(* was written, in -g or in the file, or else its default                  *)
(* (conf_file.cc:552-585, lingx.cc:331-345, event.cc:187-225).             *)
Default(f) == IF f = "multi_accept" THEN OFF ELSE ON

AsWritten ==
  pc \in {"process", "master", "loop"} =>
    \A f \in FlagName :
      {Val(f)} = IF \E w \in written : w[1] = f
                 THEN {w[2] : w \in {x \in written : x[1] = f}}
                 ELSE {Default(f)}

(* No step uses an object or an action that is not there, nor a slot that  *)
(* the context of the events block has not: count_modules made it large    *)
(* enough, with a slot for each event module.  Where the loop starts the   *)
(* chosen event module is installed, with one slot per connection, and no  *)
(* value is unset (event.cc:113-173, 236-258, cycle.cc:158-234,            *)
(* event_poll_module.cc:69-90).                                            *)
LoopIsReady ==
  /\ pc # "null"
  /\ ctx.events # Null =>
       \A m \in ModulesOf("EVENT") :
         /\ ctx_index[m] \in DOMAIN ctx.events
         /\ \A k \in ModulesOf("EVENT") \ {m} : ctx_index[k] # ctx_index[m]
  /\ pc = "loop" =>
       /\ actions = "Event_poll"
       /\ connection_n > 0 /\ slots = connection_n
       /\ \A f \in FlagName : Val(f) # UNSET
=============================================================================
