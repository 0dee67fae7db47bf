------------------------- MODULE ConfCommand_proof -------------------------
(***************************************************************************)
(* Whatever directives are read, in whatever order and however many, and   *)
(* whatever number of words they may have: an accepted configuration is    *)
(* the one that was written, and no step uses an object that is not there. *)
(*                                                                         *)
(* Neither AsWritten nor LoopIsReady is inductive.  What they rest on is   *)
(* the shape of the two contexts (Shape), that an events block is open or  *)
(* closed with all its flags settled (Flags), and that what runs after the *)
(* file has a closed one (Phases).                                         *)
(***************************************************************************)
EXTENDS ConfCommand, SequenceTheorems, TLAPS

(* The objects of the contexts: of all modules only Core has one in the    *)
(* outer context until Events_block_ fills the slot of Events, and only    *)
(* Event_core has one in the context of the block.                         *)
FlagValue == {UNSET, OFF, ON}

CoreObject  == [daemon : FlagValue, master_process : FlagValue]
EventObject == [multi_accept : FlagValue, use : {UNSET, 1}]

MainContext(core, events) ==
  [k \in 0 .. 6 |-> IF k = 0 THEN core ELSE IF k = 2 THEN events ELSE Null]

EventsContext(object) == [k \in 0 .. 1 |-> IF k = 0 THEN object ELSE Null]

(* The slots of the event modules, before and after Events_block_.         *)
Unused == /\ ctx.main[2] = Null /\ ctx.events = Null
          /\ cf = <<MainConf>>
          /\ ctx_index["Event_core"] = -1 /\ ctx_index["Event_poll"] = -1

Used == /\ ctx.main[2] = [conf |-> "events"]
        /\ ctx.events = EventsContext(ctx.events[0])
        /\ ctx.events[0] \in EventObject
        /\ ctx_index["Event_core"] = 0 /\ ctx_index["Event_poll"] = 1

Shape ==
  /\ pc \in {"param", "file", "init", "process"} \cup (Final \ {"null"})
  /\ cf \in {<<MainConf>>, <<MainConf, EventsConf>>}
  /\ ctx = [main |-> MainContext(ctx.main[0], ctx.main[2]), events |-> ctx.events]
  /\ ctx.main[0] \in CoreObject
  /\ ctx_index \in [Module -> Int]
  /\ written \subseteq FlagName \X {OFF, ON}
  /\ Unused \/ Used

(* A flag before and after the defaults have been filled in.               *)
Accepted(f) == {w \in written : w[1] = f}
IsGiven(f, v) == v \in {OFF, ON} /\ Accepted(f) = {<<f, v>>}
Pending(f, v) == IsGiven(f, v) \/ (v = UNSET /\ Accepted(f) = {})
Settled(f, v) == IsGiven(f, v) \/ (v = Default(f) /\ Accepted(f) = {})

CorePending ==
  /\ Pending("daemon", ctx.main[0].daemon)
  /\ Pending("master_process", ctx.main[0].master_process)

CoreSettled ==
  /\ Settled("daemon", ctx.main[0].daemon)
  /\ Settled("master_process", ctx.main[0].master_process)

Flags ==
  /\ pc \in {"param", "file", "init"} => CorePending
  /\ pc \in {"process", "master", "loop"} => CoreSettled
  /\ pc \notin {"failed", "dangling"} =>
       /\ Unused => Accepted("multi_accept") = {}
       /\ Used /\ Len(cf) = 2 => Pending("multi_accept", ctx.events[0].multi_accept)
       /\ Used /\ Len(cf) = 1 =>
            /\ Settled("multi_accept", ctx.events[0].multi_accept)
            /\ ctx.events[0].use = 1
            /\ connection_n = DEFAULT_CONNECTIONS

Phases ==
  /\ pc \in {"init", "process", "master", "loop"} => cf = <<MainConf>>
  /\ pc \in {"process", "master", "loop"} => Used
  /\ pc = "loop" => actions = "Event_poll" /\ slots = connection_n

IInv == Shape /\ Flags /\ Phases

-----------------------------------------------------------------------------
(* The modules, their places and their types.                              *)
LEMMA ModuleFacts ==
  /\ Len(Modules) = 7 /\ DOMAIN Modules = 1 .. 7
  /\ Modules[1] = "Core" /\ Modules[2] = "Errlog" /\ Modules[3] = "Events"
  /\ Modules[4] = "Event_core" /\ Modules[5] = "Event_poll"
  /\ Modules[6] = "Http" /\ Modules[7] = "Http_core"
  /\ Module = {"Core", "Errlog", "Events", "Event_core", "Event_poll", "Http", "Http_core"}
<1>1. /\ Len(Modules) = 7 /\ DOMAIN Modules = 1 .. 7
      /\ Modules[1] = "Core" /\ Modules[2] = "Errlog" /\ Modules[3] = "Events"
      /\ Modules[4] = "Event_core" /\ Modules[5] = "Event_poll"
      /\ Modules[6] = "Http" /\ Modules[7] = "Http_core"
  BY DEF Modules
<1>2. \A k : k \in 1 .. 7 <=> k \in {1, 2, 3, 4, 5, 6, 7}
  OBVIOUS
<1>3. Module = {Modules[k] : k \in 1 .. 7}
  BY <1>1 DEF Module, ToSet
<1>4. Module = {"Core", "Errlog", "Events", "Event_core", "Event_poll", "Http", "Http_core"}
  BY <1>1, <1>2, <1>3
<1> QED
  BY <1>1, <1>4

LEMMA IndexFacts ==
  /\ Index("Core") = 0 /\ Index("Errlog") = 1 /\ Index("Events") = 2
  /\ Index("Event_core") = 3 /\ Index("Event_poll") = 4
  /\ Index("Http") = 5 /\ Index("Http_core") = 6
<1>1. \A k : k \in 0 .. 7 - 1 <=> k \in {0, 1, 2, 3, 4, 5, 6}
  OBVIOUS
<1>2. \A m : Index(m) = CHOOSE k \in {0, 1, 2, 3, 4, 5, 6} : Modules[k + 1] = m
  BY <1>1, ModuleFacts DEF Index
<1>3. /\ Modules[0 + 1] = "Core" /\ Modules[1 + 1] = "Errlog" /\ Modules[2 + 1] = "Events"
      /\ Modules[3 + 1] = "Event_core" /\ Modules[4 + 1] = "Event_poll"
      /\ Modules[5 + 1] = "Http" /\ Modules[6 + 1] = "Http_core"
  BY ModuleFacts
<1>4. \A k \in {0, 1, 2, 3, 4, 5, 6} :
        /\ Modules[k + 1] = "Core" => k = 0
        /\ Modules[k + 1] = "Errlog" => k = 1
        /\ Modules[k + 1] = "Events" => k = 2
        /\ Modules[k + 1] = "Event_core" => k = 3
        /\ Modules[k + 1] = "Event_poll" => k = 4
        /\ Modules[k + 1] = "Http" => k = 5
        /\ Modules[k + 1] = "Http_core" => k = 6
  BY <1>3
<1> QED
  BY <1>2, <1>3, <1>4

LEMMA TypeFacts ==
  /\ Type["Core"] = "CORE" /\ Type["Errlog"] = "CORE" /\ Type["Events"] = "CORE"
  /\ Type["Event_core"] = "EVENT" /\ Type["Event_poll"] = "EVENT"
  /\ Type["Http"] = "CORE" /\ Type["Http_core"] = "HTTP"
  /\ ModulesOf("EVENT") = {"Event_core", "Event_poll"}
<1>1. \A m \in Module : Type[m] = IF m \in {"Event_core", "Event_poll"} THEN "EVENT"
                                  ELSE IF m = "Http_core" THEN "HTTP" ELSE "CORE"
  BY DEF Type
<1> QED
  BY <1>1, ModuleFacts DEF ModulesOf

(* The commands.                                                           *)
LEMMA CommandFacts ==
  /\ DOMAIN Command = {"daemon", "master_process", "error_log", "events",
                       "multi_accept", "http", "server"}
  /\ \A f \in {"daemon", "master_process"} :
       Command[f].module = "Core" /\ Command[f].place = MAIN_CONF
  /\ Command["error_log"].module = "Errlog" /\ Command["error_log"].place = MAIN_CONF
  /\ Command["events"].module = "Events" /\ Command["events"].place = MAIN_CONF
  /\ Command["multi_accept"].module = "Event_core" /\ Command["multi_accept"].place = EVENT_CONF
  /\ Command["http"].module = "Http" /\ Command["http"].place = MAIN_CONF
  /\ Command["server"].module = "Http_core" /\ Command["server"].place = HTTP_MAIN_CONF
BY DEF Command, Flag, Block

(* What there may be on the stack of parse()s, and its two operations.     *)
LEMMA StackFacts ==
  /\ Len(<<MainConf>>) = 1 /\ Last(<<MainConf>>) = MainConf
  /\ Len(<<MainConf, EventsConf>>) = 2 /\ Last(<<MainConf, EventsConf>>) = EventsConf
  /\ Append(<<MainConf>>, EventsConf) = <<MainConf, EventsConf>>
  /\ Front(<<MainConf, EventsConf>>) = <<MainConf>>
  /\ <<MainConf>> # <<MainConf, EventsConf>>
<1> DEFINE a == MainConf
           b == EventsConf
<1> HIDE DEF a, b
<1>1. Len(<<a>>) = 1 /\ <<a>>[1] = a /\ Len(<<a, b>>) = 2 /\ <<a, b>>[2] = b
  OBVIOUS
<1> DEFINE S == {a, b}
           u == <<a>>
           v == <<a, b>>
<1>2. Append(<<a>>, b) = <<a, b>>
  <2>1. u \in Seq(S) /\ v \in Seq(S) /\ b \in S
    OBVIOUS
  <2>2. Len(u) = 1 /\ u[1] = a /\ Len(v) = 2 /\ v[1] = a /\ v[2] = b
    OBVIOUS
  <2> HIDE DEF u, v, S
  <2>3. /\ Append(u, b) \in Seq(S) /\ Len(Append(u, b)) = Len(u) + 1
        /\ \A k \in 1 .. Len(u) : Append(u, b)[k] = u[k]
        /\ Append(u, b)[Len(u) + 1] = b
    BY <2>1, AppendProperties
  <2>4. Len(Append(u, b)) = 2 /\ Append(u, b)[1] = a /\ Append(u, b)[2] = b
    BY <2>2, <2>3
  <2>5. \A k \in 1 .. Len(v) : Append(u, b)[k] = v[k]
    BY <2>2, <2>4
  <2>6. Append(u, b) = v
    BY <2>1, <2>2, <2>3, <2>4, <2>5, SeqEqual
  <2> QED
    BY <2>6 DEF u, v
<1>3. SubSeq(<<a, b>>, 1, 1) = <<a>>
  <2>1. u \in Seq(S) /\ v \in Seq(S) /\ a \in S
    OBVIOUS
  <2>2. Len(u) = 1 /\ u[1] = a /\ Len(v) = 2 /\ v[1] = a
    OBVIOUS
  <2> HIDE DEF u, v, S
  <2> DEFINE w == SubSeq(v, 1, 1)
  <2>3. \A k \in 1 .. 1 : v[k] \in S
    BY <2>1, <2>2
  <2>4. /\ w \in Seq(S) /\ Len(w) = IF 1 <= 1 THEN 1 - 1 + 1 ELSE 0
        /\ \A k \in 1 .. 1 - 1 + 1 : w[k] = v[1 + k - 1]
    BY <2>3, SubSeqProperties
  <2>5. Len(w) = 1 /\ w[1] = a
    BY <2>2, <2>4
  <2> HIDE DEF w
  <2>6. w = u
    BY <2>1, <2>2, <2>4, <2>5, SeqEqual
  <2> QED
    BY <2>6 DEF u, v, w
<1>4. <<a>> # <<a, b>>
  BY <1>1
<1>5. Front(<<a, b>>) = <<a>>
  BY <1>1, <1>3 DEF Front
<1> QED
  BY <1>1, <1>2, <1>4, <1>5 DEF Last, a, b

LEMMA NullFacts ==
  /\ \A c \in CoreObject : c # Null
  /\ \A e \in EventObject : e # Null /\ EventsContext(e) # Null
  /\ [conf |-> "events"] # Null
<1>1. DOMAIN Null = {}
  BY DEF Null
<1>2. \A c \in CoreObject : "daemon" \in DOMAIN c
  BY DEF CoreObject
<1>3. \A e \in EventObject : "use" \in DOMAIN e
  BY DEF EventObject
<1>4. \A e : 0 \in DOMAIN EventsContext(e)
  BY DEF EventsContext
<1>5. "conf" \in DOMAIN [conf |-> "events"]
  OBVIOUS
<1> QED
  BY <1>1, <1>2, <1>3, <1>4, <1>5

-----------------------------------------------------------------------------
(* Cycle::count_modules: the states after each module of its walk.         *)
Walk(type, g) ==
  g = [k \in 0 .. Len(Modules) |->
         IF k = 0 THEN [index |-> ctx_index, next |-> 0, max |-> 0]
                  ELSE Visit(type, g[k - 1], Modules[k])]

LEMMA VisitedIsWalk ==
  ASSUME NEW type, NEW h, Walk(type, h)
  PROVE  \E g : Walk(type, g) /\ Visited(type) = g[7]
<1> DEFINE g == CHOOSE g : Walk(type, g)
<1>1. Walk(type, g)
  OBVIOUS
<1>2. Visited(type) = g[7]
  BY ModuleFacts DEF Visited, Walk
<1> QED
  BY <1>1, <1>2

(* What a module is given: nothing when it is of another type, a free      *)
(* index when it has none.                                                 *)
LEMMA OtherType ==
  ASSUME NEW type, NEW s, NEW m, Type[m] # type
  PROVE  Visit(type, s, m) = s
BY DEF Visit

InUse(type, s) == {s.index[j] : j \in ModulesOf(type)}

LEMMA FreeIndex ==
  ASSUME NEW type, NEW s, NEW m, Type[m] = type, ctx_index[m] = -1
  PROVE  LET k == count_module_ctx_index(s.next, InUse(type, s))
         IN Visit(type, s, m) = [index |-> [s.index EXCEPT ![m] = k],
                                 next  |-> k + 1, max |-> Max({s.max, k})]
BY DEF Visit, InUse

NewIndex(type, s, m) == IF ctx_index[m] # -1 THEN ctx_index[m]
                        ELSE count_module_ctx_index(s.next, InUse(type, s))

LEMMA OneIndex ==
  ASSUME NEW type, NEW s, NEW m, Type[m] = type
  PROVE  Visit(type, s, m).index = [s.index EXCEPT ![m] = NewIndex(type, s, m)]
BY DEF Visit, NewIndex, InUse

(* All seven modules, one after the other.                                 *)
Sweep(type, s) ==
  Visit(type, Visit(type, Visit(type, Visit(type, Visit(type, Visit(type,
    Visit(type, s, "Core"), "Errlog"), "Events"), "Event_core"), "Event_poll"),
    "Http"), "Http_core")

LEMMA WalkEnds ==
  ASSUME NEW type, NEW s0, s0 = [index |-> ctx_index, next |-> 0, max |-> 0]
  PROVE  Visited(type) = Sweep(type, s0)
<1> DEFINE s1 == Visit(type, s0, "Core")
           s2 == Visit(type, s1, "Errlog")
           s3 == Visit(type, s2, "Events")
           s4 == Visit(type, s3, "Event_core")
           s5 == Visit(type, s4, "Event_poll")
           s6 == Visit(type, s5, "Http")
           s7 == Visit(type, s6, "Http_core")
           h == [k \in 0 .. 7 |-> IF k = 0 THEN s0 ELSE IF k = 1 THEN s1
                                  ELSE IF k = 2 THEN s2 ELSE IF k = 3 THEN s3
                                  ELSE IF k = 4 THEN s4 ELSE IF k = 5 THEN s5
                                  ELSE IF k = 6 THEN s6 ELSE s7]
           step(k) == Visit(type, h[k - 1], Modules[k])
<1>0. /\ s1 = Visit(type, s0, "Core") /\ s2 = Visit(type, s1, "Errlog")
      /\ s3 = Visit(type, s2, "Events") /\ s4 = Visit(type, s3, "Event_core")
      /\ s5 = Visit(type, s4, "Event_poll") /\ s6 = Visit(type, s5, "Http")
      /\ s7 = Visit(type, s6, "Http_core")
  OBVIOUS
<1> HIDE DEF s1, s2, s3, s4, s5, s6, s7
<1>1. /\ h[0] = s0 /\ h[1] = s1 /\ h[2] = s2 /\ h[3] = s3 /\ h[4] = s4
      /\ h[5] = s5 /\ h[6] = s6 /\ h[7] = s7
      /\ DOMAIN h = 0 .. 7
  OBVIOUS
<1>2. h = [k \in 0 .. 7 |-> h[k]]
  OBVIOUS
<1> HIDE DEF h
<1>3. /\ 1 - 1 = 0 /\ 2 - 1 = 1 /\ 3 - 1 = 2 /\ 4 - 1 = 3 /\ 5 - 1 = 4 /\ 6 - 1 = 5 /\ 7 - 1 = 6
  OBVIOUS
<1>4. /\ step(1) = s1 /\ step(2) = s2 /\ step(3) = s3 /\ step(4) = s4
      /\ step(5) = s5 /\ step(6) = s6 /\ step(7) = s7
  BY <1>0, <1>1, <1>3, ModuleFacts
<1> HIDE DEF step
<1>5. \A k \in 0 .. 7 : k # 0 => h[k] = step(k)
  <2>1. \A k \in 0 .. 7 : k \in {0, 1, 2, 3, 4, 5, 6, 7}
    OBVIOUS
  <2> QED
    BY <1>1, <1>4, <2>1
<1>6. h = [k \in 0 .. 7 |-> IF k = 0 THEN s0 ELSE step(k)]
  BY <1>1, <1>2, <1>5
<1>7. Walk(type, h)
  BY <1>6, ModuleFacts DEF Walk, step
<1>8. PICK g : Walk(type, g) /\ Visited(type) = g[7]
  BY <1>7, VisitedIsWalk
<1> DEFINE next(k) == Visit(type, g[k - 1], Modules[k])
<1>9. g = [k \in 0 .. 7 |-> IF k = 0 THEN s0 ELSE next(k)]
  BY <1>8, ModuleFacts DEF Walk
<1> HIDE DEF next
<1>10. /\ g[0] = s0 /\ g[1] = next(1) /\ g[2] = next(2) /\ g[3] = next(3) /\ g[4] = next(4)
       /\ g[5] = next(5) /\ g[6] = next(6) /\ g[7] = next(7)
  BY <1>9
<1>11. /\ next(1) = Visit(type, g[0], "Core") /\ next(2) = Visit(type, g[1], "Errlog")
       /\ next(3) = Visit(type, g[2], "Events") /\ next(4) = Visit(type, g[3], "Event_core")
       /\ next(5) = Visit(type, g[4], "Event_poll") /\ next(6) = Visit(type, g[5], "Http")
       /\ next(7) = Visit(type, g[6], "Http_core")
  BY <1>3, ModuleFacts DEF next
<1>12. g[1] = s1
  BY <1>0, <1>10, <1>11
<1>13. g[2] = s2
  BY <1>0, <1>10, <1>11, <1>12
<1>14. g[3] = s3
  BY <1>0, <1>10, <1>11, <1>13
<1>15. g[4] = s4
  BY <1>0, <1>10, <1>11, <1>14
<1>16. g[5] = s5
  BY <1>0, <1>10, <1>11, <1>15
<1>17. g[6] = s6
  BY <1>0, <1>10, <1>11, <1>16
<1>18. g[7] = s7
  BY <1>0, <1>10, <1>11, <1>17
<1> QED
  BY <1>0, <1>8, <1>18 DEF Sweep

(* Where no index is in use the first is 0.                                *)
LEMMA FirstIndex ==
  count_module_ctx_index(0, {-1}) = 0
<1> DEFINE T == {k \in 0 .. 0 + Len(Modules) : k \notin {-1}}
<1>1. 0 \in T /\ \A k \in T : k \in Int /\ 0 <= k
  BY ModuleFacts
<1> HIDE DEF T
<1>2. Min(T) = 0
  BY <1>1 DEF Min
<1> QED
  BY <1>2 DEF count_module_ctx_index, T

(* For the event modules, which had no index: 0 for Event_core and 1 for   *)
(* the poll module, hence two slots.                                       *)
LEMMA CountEvents ==
  ASSUME ctx_index \in [Module -> Int],
         ctx_index["Event_core"] = -1, ctx_index["Event_poll"] = -1
  PROVE  /\ count_modules("EVENT").n = 2
         /\ count_modules("EVENT").index
              = [ctx_index EXCEPT !["Event_core"] = 0, !["Event_poll"] = 1]
<1> DEFINE s0 == [index |-> ctx_index, next |-> 0, max |-> 0]
           i1 == [ctx_index EXCEPT !["Event_core"] = 0]
           s1 == [index |-> i1, next |-> 1, max |-> 0]
           i2 == [i1 EXCEPT !["Event_poll"] = 1]
           s2 == [index |-> i2, next |-> 2, max |-> 1]
<1>1. /\ "Event_core" \in Module /\ "Event_poll" \in Module
  BY ModuleFacts
<1>2. /\ i1["Event_core"] = 0 /\ i1["Event_poll"] = -1
  BY <1>1
<1> HIDE DEF i1
<1>3. count_module_ctx_index(0, {-1}) = 0
  BY FirstIndex
<1>4. count_module_ctx_index(1, {0, -1}) = 1
  <2> DEFINE T == {k \in 1 .. 1 + Len(Modules) : k \notin {0, -1}}
  <2>1. 1 \in T /\ \A k \in T : k \in Int /\ 1 <= k
    BY ModuleFacts
  <2> HIDE DEF T
  <2>2. Min(T) = 1
    BY <2>1 DEF Min
  <2> QED
    BY <2>2 DEF count_module_ctx_index, T
<1>5. Max({0, 0}) = 0 /\ Max({0, 1}) = 1
  BY DEF Max
<1>6. Visit("EVENT", s0, "Event_core") = s1
  <2>1. InUse("EVENT", s0) = {-1}
    BY TypeFacts DEF InUse
  <2> QED
    <3>1. s0.next = 0 /\ s0.index = ctx_index /\ s0.max = 0
      OBVIOUS
    <3> HIDE DEF s0
    <3>2. Type["Event_core"] = "EVENT"
      BY TypeFacts
    <3>3. Visit("EVENT", s0, "Event_core") =
            [index |-> [ctx_index EXCEPT !["Event_core"] = 0], next |-> 0 + 1, max |-> Max({0, 0})]
      BY <1>3, <2>1, <3>1, <3>2, FreeIndex
    <3> QED
      BY <1>5, <3>3 DEF i1, s1
<1>7. Visit("EVENT", s1, "Event_poll") = s2
  <2>1. InUse("EVENT", s1) = {0, -1}
    BY <1>2, TypeFacts DEF InUse
  <2> QED
    <3>1. s1.next = 1 /\ s1.index = i1 /\ s1.max = 0
      OBVIOUS
    <3> HIDE DEF s1
    <3>2. Type["Event_poll"] = "EVENT"
      BY TypeFacts
    <3>3. Visit("EVENT", s1, "Event_poll") =
            [index |-> [i1 EXCEPT !["Event_poll"] = 1], next |-> 1 + 1, max |-> Max({0, 1})]
      <4> DEFINE k == count_module_ctx_index(s1.next, InUse("EVENT", s1))
      <4>1. k = 1
        BY <1>4, <2>1, <3>1
      <4>2. Visit("EVENT", s1, "Event_poll") =
              [index |-> [s1.index EXCEPT !["Event_poll"] = k],
               next |-> k + 1, max |-> Max({s1.max, k})]
        BY <3>2, FreeIndex
      <4> QED
        BY <3>1, <4>1, <4>2
    <3> QED
      BY <1>5, <3>3 DEF i2, s2
<1> HIDE DEF s1, s2
<1>8. Visited("EVENT") = s2
  <2>1. /\ Visit("EVENT", s0, "Core") = s0 /\ Visit("EVENT", s0, "Errlog") = s0
        /\ Visit("EVENT", s0, "Events") = s0
        /\ Visit("EVENT", s2, "Http") = s2 /\ Visit("EVENT", s2, "Http_core") = s2
    BY TypeFacts, OtherType
  <2>2. s0 = [index |-> ctx_index, next |-> 0, max |-> 0]
    OBVIOUS
  <2> HIDE DEF s0
  <2>3. Visited("EVENT") = Sweep("EVENT", s0)
    BY <2>2, WalkEnds
  <2>4. Sweep("EVENT", s0) = s2
    BY <1>6, <1>7, <2>1 DEF Sweep
  <2> QED
    BY <2>3, <2>4
<1>9. count_modules("EVENT") = [index |-> s2.index, n |-> Count(s2.max)]
  BY <1>8 DEF count_modules
<1>10. s2.index = i2 /\ s2.max = 1
  BY DEF s2
<1>11. count_modules("EVENT").n = 2 /\ count_modules("EVENT").index = i2
  <2>1. Count(1) = 2
    BY DEF Count
  <2> HIDE DEF i2
  <2> QED
    BY <1>9, <1>10, <2>1
<1> QED
  BY <1>11 DEF i2, i1

(* The http block leaves the indices of the event modules alone.           *)
LEMMA CountHttp ==
  ASSUME ctx_index \in [Module -> Int]
  PROVE  \E k \in Int : count_modules("HTTP").index = [ctx_index EXCEPT !["Http_core"] = k]
<1> DEFINE s0 == [index |-> ctx_index, next |-> 0, max |-> 0]
           s1 == Visit("HTTP", s0, "Http_core")
           k  == NewIndex("HTTP", s0, "Http_core")
<1>0. s0.index = ctx_index /\ s0.next = 0 /\ Type["Http_core"] = "HTTP"
  BY TypeFacts
<1>1. s0 = [index |-> ctx_index, next |-> 0, max |-> 0]
  OBVIOUS
<1>2. k \in Int
  <2>1. InUse("HTTP", s0) = {ctx_index["Http_core"]}
    <3>1. ModulesOf("HTTP") = {"Http_core"}
      BY TypeFacts, ModuleFacts DEF ModulesOf
    <3> QED
      BY <3>1 DEF InUse
  <2>2. ctx_index["Http_core"] \in Int
    BY ModuleFacts
  <2> HIDE DEF s0
  <2>3. CASE ctx_index["Http_core"] = -1
    BY <1>0, <2>1, <2>3, FirstIndex DEF NewIndex
  <2>4. CASE ctx_index["Http_core"] # -1
    BY <2>2, <2>4 DEF NewIndex
  <2> QED
    BY <2>3, <2>4
<1> HIDE DEF s0
<1>3. s1.index = [ctx_index EXCEPT !["Http_core"] = k]
  <2>1. Visit("HTTP", s0, "Http_core").index
          = [s0.index EXCEPT !["Http_core"] = NewIndex("HTTP", s0, "Http_core")]
    BY <1>0, OneIndex
  <2> QED
    BY <1>0, <2>1
<1> HIDE DEF k
<1>4. Visited("HTTP") = s1
  <2>1. /\ Visit("HTTP", s0, "Core") = s0 /\ Visit("HTTP", s0, "Errlog") = s0
        /\ Visit("HTTP", s0, "Events") = s0 /\ Visit("HTTP", s0, "Event_core") = s0
        /\ Visit("HTTP", s0, "Event_poll") = s0 /\ Visit("HTTP", s0, "Http") = s0
    BY TypeFacts, OtherType
  <2> HIDE DEF s1
  <2>2. Visited("HTTP") = Sweep("HTTP", s0)
    BY <1>1, WalkEnds
  <2>3. Sweep("HTTP", s0) = s1
    BY <2>1 DEF Sweep, s1
  <2> QED
    BY <2>2, <2>3
<1> HIDE DEF s1
<1>5. count_modules("HTTP").index = s1.index
  BY <1>4 DEF count_modules
<1> QED
  BY <1>2, <1>3, <1>5

-----------------------------------------------------------------------------
(* The contexts: what they hold and what a store into one of them does.    *)
LEMMA MainContextFacts ==
  ASSUME NEW core, NEW events
  PROVE  /\ MainContext(core, events)[0] = core /\ MainContext(core, events)[2] = events
         /\ 0 \in DOMAIN MainContext(core, events)
         /\ \A c : [MainContext(core, events) EXCEPT ![0] = c] = MainContext(c, events)
         /\ \A e : [MainContext(core, events) EXCEPT ![2] = e] = MainContext(core, e)
<1> DEFINE s == MainContext(core, events)
<1>1. /\ DOMAIN s = 0 .. 6 /\ s[0] = core /\ s[2] = events
      /\ \A k \in 0 .. 6 : k # 0 /\ k # 2 => s[k] = Null
      /\ s = [k \in 0 .. 6 |-> s[k]]
  BY DEF MainContext
<1>2. ASSUME NEW c PROVE [s EXCEPT ![0] = c] = MainContext(c, events)
  <2> HIDE DEF s
  <2>1. [s EXCEPT ![0] = c] = [k \in 0 .. 6 |-> IF k = 0 THEN c ELSE s[k]]
    BY <1>1
  <2> QED
    BY <1>1, <2>1 DEF MainContext
<1>3. ASSUME NEW e PROVE [s EXCEPT ![2] = e] = MainContext(core, e)
  <2> HIDE DEF s
  <2>1. [s EXCEPT ![2] = e] = [k \in 0 .. 6 |-> IF k = 2 THEN e ELSE s[k]]
    BY <1>1
  <2> QED
    BY <1>1, <2>1 DEF MainContext
<1> QED
  BY <1>1, <1>2, <1>3

LEMMA EventsContextFacts ==
  ASSUME NEW object
  PROVE  /\ EventsContext(object)[0] = object
         /\ DOMAIN EventsContext(object) = 0 .. 1
         /\ \A e : [EventsContext(object) EXCEPT ![0] = e] = EventsContext(e)
<1> DEFINE s == EventsContext(object)
<1>1. /\ DOMAIN s = 0 .. 1 /\ s[0] = object
      /\ \A k \in 0 .. 1 : k # 0 => s[k] = Null
      /\ s = [k \in 0 .. 1 |-> s[k]]
  BY DEF EventsContext
<1>2. ASSUME NEW e PROVE [s EXCEPT ![0] = e] = EventsContext(e)
  <2> HIDE DEF s
  <2>1. [s EXCEPT ![0] = e] = [k \in 0 .. 1 |-> IF k = 0 THEN e ELSE s[k]]
    BY <1>1
  <2> QED
    BY <1>1, <2>1 DEF EventsContext
<1> QED
  BY <1>1, <1>2

LEMMA InitInvariant == Init => IInv
<1> SUFFICES ASSUME Init PROVE IInv
  OBVIOUS
<1>1. ctx.main = MainContext(CoreConf, Null) /\ ctx.events = Null
  <2>1. \A k : k \in 0 .. Len(Modules) - 1 <=> k \in 0 .. 6
    BY ModuleFacts
  <2>2. ctx.main = [k \in 0 .. 6 |-> IF k = 0 THEN CoreConf ELSE Null]
    BY <2>1, IndexFacts DEF Init
  <2> QED
    BY <2>2 DEF MainContext, Init
<1>2. ctx.main[0] = CoreConf /\ ctx.main[2] = Null
  BY <1>1, MainContextFacts
<1>3. CoreConf \in CoreObject
  BY DEF CoreConf, CoreObject, FlagValue
<1>4. ctx = [main |-> ctx.main, events |-> ctx.events]
  BY DEF Init
<1>5. /\ ctx_index \in [Module -> Int]
      /\ ctx_index["Event_core"] = -1 /\ ctx_index["Event_poll"] = -1
  BY ModuleFacts DEF Init
<1>6. Unused
  BY <1>1, <1>2, <1>5 DEF Unused, Init
<1>7. Shape
  BY <1>1, <1>2, <1>3, <1>4, <1>5, <1>6 DEF Shape, Init
<1>8. \A f : Accepted(f) = {}
  BY DEF Accepted, Init
<1>9. CorePending
  BY <1>2, <1>8 DEF CorePending, Pending, CoreConf
<1>10. ~Used
  BY <1>1, EventsContextFacts, NullFacts DEF Used
<1>11. Flags
  BY <1>8, <1>9, <1>10 DEF Flags, Init
<1>12. Phases
  BY DEF Phases, Init
<1> QED
  BY <1>7, <1>11, <1>12 DEF IInv

(* A step that only gives up keeps the invariant.                          *)
LEMMA Stopped ==
  ASSUME IInv, pc' \in {"failed", "dangling"}, UNCHANGED <<cf, confVars, written>>
  PROVE  IInv'
<1>1. Unused' = Unused /\ Used' = Used
  BY DEF Unused, Used, confVars
<1>2. Shape'
  BY <1>1 DEF IInv, Shape, confVars, Final
<1>3. Flags' /\ Phases'
  BY DEF Flags, Phases
<1> QED
  BY <1>2, <1>3 DEF IInv

(* A flag that was pending, once it is accepted.                           *)
LEMMA AcceptedStep ==
  ASSUME NEW f, NEW v, written' = written \cup {<<f, v>>}
  PROVE  /\ Accepted(f)' = Accepted(f) \cup {<<f, v>>}
         /\ \A g : g # f => Accepted(g)' = Accepted(g)
BY DEF Accepted

LEMMA FlagStep ==
  ASSUME NEW f, NEW v, v \in {OFF, ON}, Pending(f, UNSET),
         written' = written \cup {<<f, v>>}
  PROVE  IsGiven(f, v)'
BY AcceptedStep DEF Pending, IsGiven, UNSET, OFF, ON

-----------------------------------------------------------------------------
(* Where a directive may stand, and what its handler is called with.       *)
LEMMA AllowedFacts ==
  ASSUME IInv, NEW d \in Directive, AllowedHere(d)
  PROVE  \/ /\ cf = <<MainConf>> /\ Cf.ctx = "main" /\ Slot(d) = Index(Cmd(d).module)
            /\ d.name \in {"daemon", "master_process", "error_log", "events", "http"}
         \/ /\ cf = <<MainConf, EventsConf>> /\ Cf.ctx = "events" /\ Used
            /\ d.name = "multi_accept" /\ Slot(d) = 0
<1>1. d.name \in {"daemon", "master_process", "error_log", "events",
                  "multi_accept", "http", "server"}
  BY CommandFacts DEF AllowedHere, Known
<1>2. MAIN_CONF # EVENT_CONF /\ EVENT_CONF = HTTP_MAIN_CONF
  BY DEF MAIN_CONF, EVENT_CONF, HTTP_MAIN_CONF
<1>3. /\ MainConf.ctx = "main" /\ MainConf.type = "CORE" /\ MainConf.place = MAIN_CONF
      /\ EventsConf.ctx = "events" /\ EventsConf.type = "EVENT"
      /\ EventsConf.place = EVENT_CONF
  BY DEF MainConf, EventsConf
<1>4. Type[Cmd(d).module] = Cf.type /\ Cmd(d).place = Cf.place
  BY DEF AllowedHere
<1>5. CASE cf = <<MainConf>>
  <2>1. Cf = MainConf
    BY <1>5, StackFacts DEF Cf
  <2>2. d.name \in {"daemon", "master_process", "error_log", "events", "http"}
    BY <1>1, <1>2, <1>3, <1>4, <2>1, CommandFacts, TypeFacts DEF Cmd
  <2> QED
    BY <1>2, <1>3, <1>4, <1>5, <2>1, <2>2 DEF Slot
<1>6. CASE cf = <<MainConf, EventsConf>>
  <2>1. Cf = EventsConf
    BY <1>6, StackFacts DEF Cf
  <2>2. d.name = "multi_accept"
    BY <1>1, <1>2, <1>3, <1>4, <2>1, CommandFacts, TypeFacts DEF Cmd
  <2>3. Used
    BY <1>6, StackFacts DEF IInv, Shape, Unused
  <2>4. Slot(d) = ctx_index["Event_core"]
    BY <1>2, <2>2, CommandFacts DEF Slot, Cmd
  <2> QED
    BY <1>3, <1>6, <2>1, <2>2, <2>3, <2>4 DEF Used
<1> QED
  BY <1>5, <1>6 DEF IInv, Shape

-----------------------------------------------------------------------------
(* Set_flag_slot, in the outermost block and in the events block.          *)
LEMMA CoreFlagStep ==
  ASSUME IInv, Reading, cf = <<MainConf>>,
         NEW f \in {"daemon", "master_process"}, NEW v \in {OFF, ON},
         ctx.main[0][f] = UNSET,
         ctx' = [ctx EXCEPT !["main"][0][f] = v],
         written' = written \cup {<<f, v>>},
         UNCHANGED <<pc, cf, ctx_index, connection_n>>
  PROVE  IInv'
<1> DEFINE c == [ctx.main[0] EXCEPT ![f] = v]
<1>1. /\ ctx.main = MainContext(ctx.main[0], ctx.main[2]) /\ ctx.main[0] \in CoreObject
      /\ ctx = [main |-> ctx.main, events |-> ctx.events]
  BY DEF IInv, Shape
<1>2. /\ c \in CoreObject /\ c[f] = v
      /\ \A g \in {"daemon", "master_process"} : g # f => c[g] = ctx.main[0][g]
  BY <1>1 DEF CoreObject, FlagValue
<1>3. ctx' = [ctx EXCEPT !["main"] = [ctx.main EXCEPT ![0] = c]]
  OBVIOUS
<1> HIDE DEF c
<1>4. PICK o, e : o = ctx.main[0] /\ e = ctx.main[2]
  OBVIOUS
<1>5. [ctx.main EXCEPT ![0] = c] = MainContext(c, ctx.main[2])
  <2>1. ctx.main = MainContext(o, e)
    BY <1>1, <1>4
  <2>2. PICK n : n = c
    OBVIOUS
  <2>3. [MainContext(o, e) EXCEPT ![0] = n] = MainContext(n, e)
    BY MainContextFacts
  <2> QED
    BY <1>4, <2>1, <2>2, <2>3
<1>6. ctx'.main = MainContext(c, ctx.main[2]) /\ ctx'.events = ctx.events
      /\ ctx' = [main |-> ctx'.main, events |-> ctx'.events]
  BY <1>1, <1>3, <1>5
<1>7. ctx'.main[0] = c /\ ctx'.main[2] = ctx.main[2]
  <2>1. PICK n : n = c
    OBVIOUS
  <2>2. MainContext(n, e)[0] = n /\ MainContext(n, e)[2] = e
    BY MainContextFacts
  <2> QED
    BY <1>4, <1>6, <2>1, <2>2
<1>8. Unused' = Unused /\ Used' = Used
  BY <1>6, <1>7 DEF Unused, Used
<1>9. Shape'
  <2>1. written' \subseteq FlagName \X {OFF, ON}
    BY DEF IInv, Shape, FlagName
  <2> QED
    BY <1>2, <1>6, <1>7, <1>8, <2>1 DEF IInv, Shape
<1>10. Pending(f, UNSET)
  BY DEF IInv, Flags, CorePending, Reading
<1>11. IsGiven(f, v)' /\ Accepted("multi_accept")' = Accepted("multi_accept")
  BY <1>10, FlagStep, AcceptedStep
<1>12. \A g \in {"daemon", "master_process"} : g # f => Accepted(g)' = Accepted(g)
  BY AcceptedStep
<1>13. CorePending'
  <2>1. Pending("daemon", ctx.main[0].daemon) /\ Pending("master_process", ctx.main[0].master_process)
    BY DEF IInv, Flags, CorePending, Reading
  <2>2. CASE f = "daemon"
    BY <1>2, <1>7, <1>11, <1>12, <2>1, <2>2 DEF CorePending, Pending, IsGiven
  <2>3. CASE f = "master_process"
    BY <1>2, <1>7, <1>11, <1>12, <2>1, <2>3 DEF CorePending, Pending, IsGiven
  <2> QED
    BY <2>2, <2>3
<1>14. Flags'
  BY <1>6, <1>8, <1>11, <1>13 DEF IInv, Flags, Reading, Pending, Settled, IsGiven, Default
<1>15. Phases'
  BY DEF IInv, Phases, Reading
<1> QED
  BY <1>9, <1>14, <1>15 DEF IInv

LEMMA EventFlagStep ==
  ASSUME IInv, Reading, cf = <<MainConf, EventsConf>>, Used, NEW v \in {OFF, ON},
         ctx.events[0].multi_accept = UNSET,
         ctx' = [ctx EXCEPT !["events"][0]["multi_accept"] = v],
         written' = written \cup {<<"multi_accept", v>>},
         UNCHANGED <<pc, cf, ctx_index, connection_n>>
  PROVE  IInv'
<1> DEFINE c == [ctx.events[0] EXCEPT !["multi_accept"] = v]
<1>1. /\ ctx.events = EventsContext(ctx.events[0]) /\ ctx.events[0] \in EventObject
      /\ ctx = [main |-> ctx.main, events |-> ctx.events]
  BY DEF IInv, Shape, Used
<1>2. c \in EventObject /\ c.multi_accept = v
  BY <1>1 DEF EventObject, FlagValue
<1>3. ctx' = [ctx EXCEPT !["events"] = [ctx.events EXCEPT ![0] = c]]
  OBVIOUS
<1> HIDE DEF c
<1>4. PICK o, n : o = ctx.events[0] /\ n = c
  OBVIOUS
<1>5. [EventsContext(o) EXCEPT ![0] = n] = EventsContext(n) /\ EventsContext(n)[0] = n
  BY EventsContextFacts
<1>6. /\ ctx'.main = ctx.main /\ ctx'.events = EventsContext(c)
      /\ ctx' = [main |-> ctx'.main, events |-> ctx'.events]
  BY <1>1, <1>3, <1>4, <1>5
<1>7. ctx'.events[0] = c /\ ctx'.events = EventsContext(ctx'.events[0])
  BY <1>4, <1>5, <1>6
<1>8. Used'
  BY <1>2, <1>6, <1>7 DEF Used
<1>9. Shape'
  <2>1. written' \subseteq FlagName \X {OFF, ON}
    BY DEF IInv, Shape, FlagName
  <2> QED
    BY <1>6, <1>8, <2>1 DEF IInv, Shape
<1>10. Pending("multi_accept", UNSET)
  BY StackFacts DEF IInv, Flags, Reading
<1>11. /\ IsGiven("multi_accept", v)'
       /\ Accepted("daemon")' = Accepted("daemon")
       /\ Accepted("master_process")' = Accepted("master_process")
  BY <1>10, FlagStep, AcceptedStep
<1>12. CorePending'
  BY <1>6, <1>11 DEF IInv, Flags, CorePending, Reading, Pending, IsGiven
<1>13. ~Unused' /\ Len(cf') = 2
  BY StackFacts DEF Unused
<1>14. Pending("multi_accept", ctx.events[0].multi_accept)'
  BY <1>2, <1>7, <1>11 DEF Pending, IsGiven
<1>15. Flags'
  BY <1>12, <1>13, <1>14 DEF Flags, Reading
<1>16. Phases'
  BY DEF IInv, Phases, Reading
<1> QED
  BY <1>9, <1>15, <1>16 DEF IInv

LEMMA Set_flag_slotStep ==
  ASSUME IInv, NEW d \in Directive, Set_flag_slot(d)
  PROVE  IInv'
<1>1. AllowedHere(d) /\ Reading /\ d.name \in FlagName
  BY DEF Set_flag_slot, CallHandler, Given
<1>2. CASE /\ cf = <<MainConf>> /\ Cf.ctx = "main" /\ Slot(d) = Index(Cmd(d).module)
           /\ d.name \in {"daemon", "master_process", "error_log", "events", "http"}
  <2>1. d.name \in {"daemon", "master_process"} /\ Slot(d) = 0
    BY <1>1, <1>2, CommandFacts, IndexFacts DEF FlagName, Cmd
  <2>2. /\ ctx["main"] = ctx.main /\ ctx.main[0] \in CoreObject
        /\ ctx.main = MainContext(ctx.main[0], ctx.main[2])
    BY DEF IInv, Shape
  <2>3. HasSlot(d)
    <3>1. PICK o, e : o = ctx.main[0] /\ e = ctx.main[2]
      OBVIOUS
    <3>2. 0 \in DOMAIN MainContext(o, e)
      BY MainContextFacts
    <3> QED
      BY <1>2, <2>1, <2>2, <3>1, <3>2, NullFacts DEF HasSlot
  <2>4. CASE Fail
    BY <2>4, Stopped DEF Fail
  <2>5. CASE /\ ctx.main[0][d.name] = UNSET /\ d.value \in {ON, OFF}
             /\ ctx' = [ctx EXCEPT !["main"][0][d.name] = d.value]
             /\ written' = written \cup {<<d.name, d.value>>}
             /\ UNCHANGED <<pc, cf, ctx_index, connection_n>>
    <3>1. PICK f \in {"daemon", "master_process"}, v \in {OFF, ON} : f = d.name /\ v = d.value
      BY <2>1, <2>5
    <3> QED
      BY <1>1, <1>2, <2>5, <3>1, CoreFlagStep
  <2> QED
    BY <1>2, <2>1, <2>2, <2>3, <2>4, <2>5 DEF Set_flag_slot, IsDuplicate
<1>3. CASE /\ cf = <<MainConf, EventsConf>> /\ Cf.ctx = "events" /\ Used
           /\ d.name = "multi_accept" /\ Slot(d) = 0
  <2>1. HasSlot(d)
    <3>1. ctx.events = EventsContext(ctx.events[0]) /\ ctx.events[0] \in EventObject
      BY <1>3 DEF Used
    <3>2. PICK o : o = ctx.events[0]
      OBVIOUS
    <3>3. DOMAIN EventsContext(o) = 0 .. 1
      BY EventsContextFacts
    <3> QED
      BY <1>3, <3>1, <3>2, <3>3, NullFacts DEF HasSlot
  <2>2. CASE Fail
    BY <2>2, Stopped DEF Fail
  <2>3. CASE /\ ctx.events[0].multi_accept = UNSET /\ d.value \in {ON, OFF}
             /\ ctx' = [ctx EXCEPT !["events"][0]["multi_accept"] = d.value]
             /\ written' = written \cup {<<"multi_accept", d.value>>}
             /\ UNCHANGED <<pc, cf, ctx_index, connection_n>>
    BY <1>1, <1>3, <2>3, EventFlagStep
  <2> QED
    BY <1>3, <2>1, <2>2, <2>3 DEF Set_flag_slot, IsDuplicate
<1> QED
  BY <1>1, <1>2, <1>3, AllowedFacts

(* Events_block_: the context of the block and its place in the outer one. *)
LEMMA EventsBlockStep ==
  ASSUME IInv, NEW d \in Directive, Events_block(d)
  PROVE  IInv'
<1>1. AllowedHere(d) /\ Reading /\ d.name = "events"
  BY DEF Events_block, CallHandler, Given
<1>2. cf = <<MainConf>> /\ Cf.ctx = "main" /\ Slot(d) = 2
  BY <1>1, AllowedFacts, CommandFacts, IndexFacts DEF Cmd
<1>3. CASE Fail
  BY <1>3, Stopped DEF Fail
<1>4. CASE ~Fail
  <2> DEFINE count == count_modules("EVENT")
             conf  == [k \in 0 .. count.n - 1 |->
                         IF k = count.index["Event_core"] THEN EventConf ELSE Null]
             b     == [conf |-> "events"]
  <2>1. /\ ctx.main[2] = Null
        /\ ctx' = [ctx EXCEPT !["main"][2] = b, !.events = conf]
        /\ ctx_index' = count.index
        /\ cf' = Append(cf, EventsConf)
        /\ UNCHANGED <<pc, connection_n, written>>
    BY <1>2, <1>4 DEF Events_block
  <2>2. Unused
    BY <2>1, NullFacts DEF IInv, Shape, Used
  <2>3. count.n = 2 /\ count.index = [ctx_index EXCEPT !["Event_core"] = 0, !["Event_poll"] = 1]
    <3>1. /\ ctx_index \in [Module -> Int]
          /\ ctx_index["Event_core"] = -1 /\ ctx_index["Event_poll"] = -1
      BY <2>2 DEF IInv, Shape, Unused
    <3> QED
      BY <3>1, CountEvents
  <2>4. /\ ctx_index' \in [Module -> Int]
        /\ ctx_index'["Event_core"] = 0 /\ ctx_index'["Event_poll"] = 1
    <3> DEFINE half == [ctx_index EXCEPT !["Event_core"] = 0]
    <3>1. half \in [Module -> Int] /\ half["Event_core"] = 0
      BY ModuleFacts DEF IInv, Shape
    <3>2. ctx_index' = [half EXCEPT !["Event_poll"] = 1]
      BY <2>1, <2>3
    <3> HIDE DEF half
    <3> QED
      BY <3>1, <3>2, ModuleFacts
  <2>5. conf = EventsContext(EventConf)
    <3> HIDE DEF count
    <3>1. ctx_index' = count.index
      BY <2>1
    <3>2. count.index["Event_core"] = 0 /\ 2 - 1 = 1
      BY <2>4, <3>1
    <3> QED
      BY <2>3, <3>2 DEF EventsContext
  <2> HIDE DEF conf, count
  <2>6. /\ ctx = [main |-> ctx.main, events |-> ctx.events]
        /\ ctx.main = MainContext(ctx.main[0], ctx.main[2]) /\ ctx.main[0] \in CoreObject
    BY DEF IInv, Shape
  <2>7. PICK o, e : o = ctx.main[0] /\ e = ctx.main[2]
    OBVIOUS
  <2>8. /\ [MainContext(o, e) EXCEPT ![2] = b] = MainContext(o, b)
        /\ MainContext(o, b)[0] = o /\ MainContext(o, b)[2] = b
    BY MainContextFacts
  <2>9. EventsContext(EventConf)[0] = EventConf
    BY EventsContextFacts
  <2> HIDE DEF b
  <2>10. /\ ctx'.main = [ctx.main EXCEPT ![2] = b] /\ ctx'.events = conf
         /\ ctx' = [main |-> ctx'.main, events |-> ctx'.events]
    BY <2>1, <2>6
  <2>11. ctx'.main = MainContext(o, b) /\ ctx'.events = EventsContext(EventConf)
    BY <2>5, <2>6, <2>7, <2>8, <2>10
  <2>12. ctx'.main[0] = o /\ ctx'.main[2] = b /\ ctx'.events[0] = EventConf
    BY <2>8, <2>9, <2>11
  <2>13. EventConf \in EventObject /\ EventConf.multi_accept = UNSET
    BY DEF EventConf, EventObject, FlagValue
  <2>14. Used'
    BY <2>4, <2>11, <2>12, <2>13 DEF Used, b
  <2>15. cf' = <<MainConf, EventsConf>> /\ Len(cf') = 2
    BY <1>2, <2>1, StackFacts
  <2>16. ~Unused'
    BY <2>15, StackFacts DEF Unused
  <2>17. Shape'
    BY <2>1, <2>4, <2>6, <2>7, <2>10, <2>11, <2>12, <2>14, <2>15 DEF IInv, Shape
  <2>18. \A f : Accepted(f)' = Accepted(f)
    BY <2>1 DEF Accepted
  <2>19. CorePending'
    <3>1. CorePending
      BY <1>1 DEF IInv, Flags, Reading
    <3> QED
      BY <2>7, <2>12, <2>18, <3>1 DEF CorePending, Pending, IsGiven
  <2>20. Accepted("multi_accept") = {}
    BY <1>1, <2>2 DEF IInv, Flags, Reading
  <2>21. Pending("multi_accept", ctx.events[0].multi_accept)'
    BY <2>12, <2>13, <2>18, <2>20 DEF Pending
  <2>22. Flags'
    <3>1. pc' = pc /\ pc \in {"param", "file"}
      BY <1>1, <2>1 DEF Reading
    <3>2. Len(cf') # 1
      BY <2>15
    <3> QED
      BY <2>16, <2>19, <2>21, <3>1, <3>2 DEF Flags
  <2>23. Phases'
    BY <1>1, <2>1 DEF Phases, Reading
  <2> QED
    BY <2>17, <2>22, <2>23 DEF IInv
<1> QED
  BY <1>3, <1>4

(* The http block always fails.                                            *)
LEMMA HttpBlockStep ==
  ASSUME IInv, NEW d \in Directive, HttpBlock(d)
  PROVE  IInv'
<1>1. pc' = "failed" /\ UNCHANGED <<cf, ctx, connection_n, written>>
  BY DEF HttpBlock
<1>2. \/ ctx_index' = ctx_index
      \/ \E k \in Int : ctx_index' = [ctx_index EXCEPT !["Http_core"] = k]
  <2>1. \E k \in Int : count_modules("HTTP").index = [ctx_index EXCEPT !["Http_core"] = k]
    BY CountHttp DEF IInv, Shape
  <2>2. ctx_index' = count_modules("HTTP").index \/ ctx_index' = ctx_index
    BY DEF HttpBlock
  <2> QED
    BY <2>1, <2>2
<1>3. /\ ctx_index' \in [Module -> Int]
      /\ ctx_index'["Event_core"] = ctx_index["Event_core"]
      /\ ctx_index'["Event_poll"] = ctx_index["Event_poll"]
  BY <1>2, ModuleFacts DEF IInv, Shape
<1>4. Unused' = Unused /\ Used' = Used
  BY <1>1, <1>3 DEF Unused, Used
<1>5. Shape'
  BY <1>1, <1>3, <1>4 DEF IInv, Shape, Final
<1>6. Flags' /\ Phases'
  BY <1>1 DEF Flags, Phases
<1> QED
  BY <1>5, <1>6 DEF IInv

(* A step that reads on and changes no object.                             *)
LEMMA Continued ==
  ASSUME IInv, UNCHANGED <<cf, confVars, written>>,
         pc' \in {"param", "file", "init"}, Reading, pc' = "init" => Len(cf) = 1
  PROVE  IInv'
<1>1. Unused' = Unused /\ Used' = Used /\ \A f : Accepted(f)' = Accepted(f)
  BY DEF Unused, Used, confVars, Accepted
<1>2. Shape'
  BY <1>1 DEF IInv, Shape, confVars
<1>3. CorePending'
  BY <1>1 DEF IInv, Flags, CorePending, Pending, IsGiven, confVars, Reading
<1>4. Flags'
  <2>1. pc \notin {"failed", "dangling"}
    BY DEF Reading
  <2> QED
    BY <1>1, <1>3, <2>1 DEF IInv, Flags, Pending, Settled, IsGiven, Default, confVars
<1>5. Phases'
  BY StackFacts DEF IInv, Shape, Phases
<1> QED
  BY <1>2, <1>4, <1>5 DEF IInv

(* The end of an events block: init_conf of the event modules.             *)
LEMMA BlockDoneStep ==
  ASSUME IInv, BlockDone
  PROVE  IInv'
<1>1. Reading
  BY DEF BlockDone
<1>2. CASE Fail
  BY <1>2, Stopped DEF Fail
<1>3. CASE ~Fail
  <2> DEFINE old == ctx.events[0]
             new == [multi_accept |-> InitValue(old.multi_accept, OFF),
                     use          |-> InitValue(old.use, 1)]
  <2>1. Len(cf) # 1 /\ Event_core_init_conf /\ cf' = Front(cf)
        /\ UNCHANGED <<pc, ctx_index, written>>
    BY <1>3 DEF BlockDone
  <2>2. cf = <<MainConf, EventsConf>> /\ Used /\ cf' = <<MainConf>>
    BY <2>1, StackFacts DEF IInv, Shape, Unused
  <2>3. ctx_index["Event_core"] = 0 /\ ctx_index["Event_poll"] = 1
    BY <2>2 DEF Used
  <2>4. /\ ctx = [main |-> ctx.main, events |-> ctx.events]
        /\ ctx.events = EventsContext(old) /\ old \in EventObject
    BY <2>2 DEF IInv, Shape, Used
  <2>5. connection_n' = DEFAULT_CONNECTIONS
    BY <2>1 DEF Event_core_init_conf
  <2>6. ctx' = [ctx EXCEPT !.events = [ctx.events EXCEPT ![0] = new]]
    BY <2>1, <2>3 DEF Event_core_init_conf
  <2>7. new \in EventObject /\ new.use = 1
        /\ new.multi_accept = InitValue(old.multi_accept, OFF)
    BY <2>4 DEF EventObject, FlagValue, InitValue, UNSET, OFF
  <2> HIDE DEF old, new
  <2>8. PICK o, n : o = old /\ n = new
    OBVIOUS
  <2>9. [EventsContext(o) EXCEPT ![0] = n] = EventsContext(n) /\ EventsContext(n)[0] = n
    BY EventsContextFacts
  <2>10. /\ ctx'.main = ctx.main /\ ctx'.events = EventsContext(new) /\ ctx'.events[0] = new
         /\ ctx' = [main |-> ctx'.main, events |-> ctx'.events]
    BY <2>4, <2>6, <2>8, <2>9
  <2>11. Used'
    BY <2>1, <2>2, <2>7, <2>10 DEF Used
  <2>12. Shape'
    BY <2>1, <2>2, <2>10, <2>11 DEF IInv, Shape
  <2>13. \A f : Accepted(f)' = Accepted(f)
    BY <2>1 DEF Accepted
  <2>14. CorePending'
    BY <1>1, <2>1, <2>10, <2>13 DEF IInv, Flags, CorePending, Reading, Pending, IsGiven
  <2>15. Pending("multi_accept", old.multi_accept)
    BY <1>1, <2>2, StackFacts DEF IInv, Flags, Reading, old
  <2>16. Settled("multi_accept", ctx.events[0].multi_accept)'
    BY <2>7, <2>10, <2>13, <2>15
       DEF Settled, Pending, IsGiven, Default, InitValue, UNSET, ON, OFF
  <2>17. Flags'
    BY <1>1, <2>1, <2>2, <2>5, <2>7, <2>10, <2>11, <2>14, <2>16, StackFacts, NullFacts
       DEF Flags, Reading, Unused, Used
  <2>18. Phases'
    BY <1>1, <2>1 DEF Phases, Reading
  <2> QED
    BY <2>12, <2>17, <2>18 DEF IInv
<1> QED
  BY <1>2, <1>3

-----------------------------------------------------------------------------
(* Init_new_cycle after the file: the defaults of Core.                    *)
LEMMA InitConfStep ==
  ASSUME IInv, InitConf
  PROVE  IInv'
<1> DEFINE old == ctx.main[0]
           new == [daemon         |-> InitValue(old.daemon, ON),
                   master_process |-> InitValue(old.master_process, ON)]
<1>1. /\ pc = "init" /\ cf = <<MainConf>> /\ CorePending
  BY DEF InitConf, IInv, Phases, Flags
<1>2. UNCHANGED <<cf, ctx_index, connection_n, written>>
  BY DEF InitConf
<1>3. /\ ctx = [main |-> ctx.main, events |-> ctx.events]
      /\ ctx.main = MainContext(old, ctx.main[2]) /\ old \in CoreObject
  BY DEF IInv, Shape
<1>4. ctx' = [ctx EXCEPT !.main = [ctx.main EXCEPT ![0] = new]]
  BY IndexFacts DEF InitConf, Core_init_conf
<1>5. pc' = IF ctx.main[2] = Null THEN "failed" ELSE "process"
  BY IndexFacts DEF InitConf, NoEvents
<1>6. /\ new \in CoreObject
      /\ new.daemon = InitValue(old.daemon, ON)
      /\ new.master_process = InitValue(old.master_process, ON)
  BY <1>3 DEF CoreObject, FlagValue, InitValue
<1>7. Pending("daemon", old.daemon) /\ Pending("master_process", old.master_process)
  BY <1>1 DEF CorePending
<1> HIDE DEF old, new
<1>8. PICK o, n, e : o = old /\ n = new /\ e = ctx.main[2]
  OBVIOUS
<1>9. /\ [MainContext(o, e) EXCEPT ![0] = n] = MainContext(n, e)
      /\ MainContext(n, e)[0] = n /\ MainContext(n, e)[2] = e
  BY MainContextFacts
<1>10. /\ ctx'.main = MainContext(n, e) /\ ctx'.events = ctx.events
       /\ ctx' = [main |-> ctx'.main, events |-> ctx'.events]
  BY <1>3, <1>4, <1>8, <1>9
<1>11. ctx'.main[0] = new /\ ctx'.main[2] = ctx.main[2]
  BY <1>8, <1>9, <1>10
<1>12. Unused' = Unused /\ Used' = Used
  BY <1>2, <1>10, <1>11 DEF Unused, Used
<1>13. Shape'
  BY <1>2, <1>5, <1>6, <1>8, <1>10, <1>11, <1>12 DEF IInv, Shape, Final
<1>14. \A f : Accepted(f)' = Accepted(f)
  BY <1>2 DEF Accepted
<1>15. CoreSettled'
  <2>1. Settled("daemon", ctx.main[0].daemon)'
    BY <1>6, <1>7, <1>11, <1>14
       DEF Settled, Pending, IsGiven, Default, InitValue, UNSET, ON, OFF
  <2>2. Settled("master_process", ctx.main[0].master_process)'
    BY <1>6, <1>7, <1>11, <1>14
       DEF Settled, Pending, IsGiven, Default, InitValue, UNSET, ON, OFF
  <2> QED
    BY <2>1, <2>2 DEF CoreSettled
<1>16. ctx.main[2] # Null => Used
  BY DEF IInv, Shape, Unused
<1>17. CASE pc' = "failed"
  <2>1. Flags' /\ Phases'
    BY <1>17 DEF Flags, Phases
  <2> QED
    BY <1>13, <2>1 DEF IInv
<1>18. CASE pc' # "failed"
  <2>1. pc' = "process" /\ Used /\ ~Unused
    BY <1>5, <1>16, <1>18 DEF Unused
  <2>2. /\ Settled("multi_accept", ctx.events[0].multi_accept) /\ ctx.events[0].use = 1
        /\ connection_n = DEFAULT_CONNECTIONS
    BY <1>1, <2>1, StackFacts DEF IInv, Flags
  <2>3. Settled("multi_accept", ctx.events[0].multi_accept)'
    BY <1>10, <1>14, <2>2 DEF Settled, IsGiven, Default
  <2>4. Flags'
    BY <1>1, <1>2, <1>10, <1>12, <1>15, <2>1, <2>2, <2>3, StackFacts DEF Flags
  <2>5. Phases'
    BY <1>1, <1>2, <1>12, <2>1 DEF Phases
  <2> QED
    BY <1>13, <2>4, <2>5 DEF IInv
<1> QED
  BY <1>17, <1>18

(* The steps after it change no object: what holds of them still does.     *)
LEMMA Started ==
  ASSUME IInv, pc = "process", pc' \in {"master", "loop"},
         UNCHANGED <<cf, confVars, written>>,
         pc' = "loop" => actions' = "Event_poll" /\ slots' = connection_n
  PROVE  IInv'
<1>1. Unused' = Unused /\ Used' = Used /\ \A f : Accepted(f)' = Accepted(f)
  BY DEF Unused, Used, confVars, Accepted
<1>2. Shape'
  BY <1>1 DEF IInv, Shape, confVars, Final
<1>3. CoreSettled'
  BY <1>1 DEF IInv, Flags, CoreSettled, Settled, IsGiven, Default, confVars
<1>4. /\ Unused => Accepted("multi_accept") = {}
      /\ Used /\ Len(cf) = 2 => Pending("multi_accept", ctx.events[0].multi_accept)
      /\ Used /\ Len(cf) = 1 =>
           /\ Settled("multi_accept", ctx.events[0].multi_accept)
           /\ ctx.events[0].use = 1 /\ connection_n = DEFAULT_CONNECTIONS
  BY DEF IInv, Flags
<1>5. Flags'
  BY <1>1, <1>3, <1>4 DEF Flags, Pending, Settled, IsGiven, Default, confVars
<1>6. Phases'
  BY <1>1 DEF IInv, Phases, confVars
<1> QED
  BY <1>2, <1>5, <1>6 DEF IInv

(* What the parse has left: the poll module is the one that is used.       *)
LEMMA PollIsUsed ==
  ASSUME IInv, pc \in {"process", "loop"}
  PROVE  /\ ctx.events # Null
         /\ {m \in ModulesOf("EVENT") : Use(m)} = {"Event_poll"}
<1>1. Used /\ cf = <<MainConf>>
  BY DEF IInv, Phases
<1>2. ctx.events[0].use = 1
  BY <1>1, StackFacts DEF IInv, Flags
<1>3. ctx.events # Null
  BY <1>1, NullFacts DEF Used
<1>4. ctx_index["Event_core"] = 0 /\ ctx_index["Event_poll"] = 1
  BY <1>1 DEF Used
<1>5. Use("Event_poll") /\ ~Use("Event_core")
  BY <1>2, <1>4 DEF Use
<1> QED
  BY <1>3, <1>5, TypeFacts

LEMMA ProcessInitStep ==
  ASSUME IInv, ProcessInit
  PROVE  IInv'
<1>1. pc = "process"
  BY DEF ProcessInit
<1>2. /\ ctx.events # Null
      /\ {m \in ModulesOf("EVENT") : Use(m)} = {"Event_poll"}
  BY <1>1, PollIsUsed
<1>3. pc' = "loop" /\ Poll_init
  BY <1>2 DEF ProcessInit, HasActions
<1>4. UNCHANGED <<cf, confVars, written>>
  BY DEF ProcessInit
<1> QED
  BY <1>1, <1>3, <1>4, Started DEF Poll_init

-----------------------------------------------------------------------------
(* The invariant, of every state.                                          *)
LEMMA NextInvariant == IInv /\ [Next]_vars => IInv'
<1> SUFFICES ASSUME IInv, [Next]_vars PROVE IInv'
  OBVIOUS
<1>1. ASSUME NEW d \in Directive, Handle(d) PROVE IInv'
  <2>1. CASE Refuse(d)
    BY <2>1, Stopped DEF Refuse
  <2>2. CASE Dangling(d)
    BY <2>2, Stopped DEF Dangling
  <2>3. CASE Set_flag_slot(d)
    BY <2>3, Set_flag_slotStep
  <2>4. CASE Error_log(d)
    <3>1. CASE Fail
      BY <3>1, Stopped DEF Fail
    <3>2. CASE UNCHANGED <<pc, cf, confVars, written>>
      <4>1. Reading /\ pc' \in {"param", "file"}
        BY <2>4, <3>2 DEF Error_log, CallHandler, Given, Reading
      <4> QED
        BY <3>2, <4>1, Continued
    <3> QED
      BY <2>4, <3>1, <3>2 DEF Error_log
  <2>5. CASE Events_block(d)
    BY <2>5, EventsBlockStep
  <2>6. CASE HttpBlock(d)
    BY <2>6, HttpBlockStep
  <2> QED
    BY <1>1, <2>1, <2>2, <2>3, <2>4, <2>5, <2>6 DEF Handle
<1>2. CASE BlockDone
  BY <1>2, BlockDoneStep
<1>3. CASE FileDone
  <2>1. Reading /\ pc' = Ends /\ UNCHANGED <<cf, confVars, written>>
    BY <1>3 DEF FileDone
  <2>2. CASE Len(cf) > 1
    BY <2>1, <2>2, Stopped DEF Ends
  <2>3. CASE ~(Len(cf) > 1)
    <3>1. Len(cf) = 1
      BY <2>3, StackFacts DEF IInv, Shape
    <3>2. pc' \in {"file", "init"}
      BY <2>1, <2>3 DEF Ends
    <3> QED
      BY <2>1, <3>1, <3>2, Continued
  <2> QED
    BY <2>2, <2>3
<1>4. CASE CannotRead
  BY <1>4, Stopped DEF CannotRead, Fail
<1>5. CASE InitConf
  BY <1>5, InitConfStep
<1>6. CASE StartFails
  BY <1>6, Stopped DEF StartFails, Fail
<1>7. CASE RunMaster
  BY <1>7, Started DEF RunMaster
<1>8. CASE ProcessInit
  BY <1>8, ProcessInitStep
<1>9. CASE UNCHANGED vars
  <2>1. UNCHANGED <<pc, cf, ctx, ctx_index, connection_n, actions, slots, written>>
    BY <1>9 DEF vars, confVars, loopVars
  <2>2. Unused' = Unused /\ Used' = Used /\ \A f : Accepted(f)' = Accepted(f)
    BY <2>1 DEF Unused, Used, Accepted
  <2>3. CorePending' = CorePending /\ CoreSettled' = CoreSettled
    BY <2>1, <2>2 DEF CorePending, CoreSettled, Pending, Settled, IsGiven, Default
  <2>4. Shape'
    BY <2>1, <2>2 DEF IInv, Shape
  <2>5. Flags'
    BY <2>1, <2>2, <2>3 DEF IInv, Flags, Pending, Settled, IsGiven, Default
  <2>6. Phases'
    BY <2>1, <2>2 DEF IInv, Phases
  <2> QED
    BY <2>4, <2>5, <2>6 DEF IInv
<1> QED
  BY <1>1, <1>2, <1>3, <1>4, <1>5, <1>6, <1>7, <1>8, <1>9 DEF Next

(* The state of the configuration stays consistent: the contexts have the  *)
(* shape that create_conf and Events_block_ gave them, the events context  *)
(* is there exactly when the outer one points to it, and each flag is      *)
(* unset or has the one value that was accepted (cycle.cc:119-234,         *)
(* event.cc:113-173, conf_file.cc:552-585).                                *)
THEOREM Invariant == Spec => []IInv
<1> QED
  BY InitInvariant, NextInvariant, PTL DEF Spec

(* The value of every flag, once the configuration is accepted.            *)
LEMMA AllSettled ==
  ASSUME IInv, pc \in {"process", "master", "loop"}, NEW f \in FlagName
  PROVE  Settled(f, Val(f))
<1>1. Used /\ cf = <<MainConf>> /\ CoreSettled
  BY DEF IInv, Phases, Flags
<1>2. Settled("multi_accept", ctx.events[0].multi_accept)
  BY <1>1, StackFacts DEF IInv, Flags
<1>3. ctx.events # Null /\ ctx_index["Event_core"] = 0
  BY <1>1, NullFacts DEF Used
<1>4. CASE f = "multi_accept"
  <2>1. Val(f) = ctx.events[0]["multi_accept"]
    BY <1>3, <1>4, CommandFacts DEF Val
  <2> QED
    BY <1>2, <1>4, <2>1
<1>5. CASE f \in {"daemon", "master_process"}
  <2>1. Val(f) = ctx.main[0][f]
    BY <1>5, CommandFacts, IndexFacts DEF Val
  <2> QED
    BY <1>1, <1>5, <2>1 DEF CoreSettled
<1> QED
  BY <1>4, <1>5 DEF FlagName

(* Whatever was read, a flag of an accepted configuration has the one      *)
(* value that was written for it, or else its default (conf_file.cc:       *)
(* 552-585, lingx.cc:331-345, event.cc:187-225).                           *)
THEOREM ConfigurationCorrect == Spec => []AsWritten
<1>1. ASSUME NEW f, NEW v, Settled(f, v)
      PROVE  {v} = IF \E w \in written : w[1] = f
                   THEN {w[2] : w \in {x \in written : x[1] = f}}
                   ELSE {Default(f)}
  <2>1. CASE IsGiven(f, v)
    <3>1. {x \in written : x[1] = f} = {<<f, v>>}
      BY <2>1 DEF IsGiven, Accepted
    <3>2. {w[2] : w \in {<<f, v>>}} = {v}
      OBVIOUS
    <3>3. \E w \in written : w[1] = f
      BY <3>1
    <3> QED
      BY <3>1, <3>2, <3>3
  <2>2. CASE v = Default(f) /\ Accepted(f) = {}
    <3>1. ~\E w \in written : w[1] = f
      BY <2>2 DEF Accepted
    <3> QED
      BY <2>2, <3>1
  <2> QED
    BY <1>1, <2>1, <2>2 DEF Settled
<1>2. IInv => AsWritten
  <2> SUFFICES ASSUME IInv, pc \in {"process", "master", "loop"}, NEW f \in FlagName
               PROVE  {Val(f)} = IF \E w \in written : w[1] = f
                                 THEN {w[2] : w \in {x \in written : x[1] = f}}
                                 ELSE {Default(f)}
    BY DEF AsWritten
  <2>1. Settled(f, Val(f))
    BY AllSettled
  <2>2. PICK v : v = Val(f)
    OBVIOUS
  <2> QED
    BY <1>1, <2>1, <2>2
<1> QED
  BY <1>2, Invariant, PTL

(* No step uses an object or an action that is not there; the context of   *)
(* an events block has a slot of its own for each event module; and where  *)
(* the loop starts the poll module is installed with one slot per          *)
(* connection and no flag is unset (event.cc:113-173, 236-258,             *)
(* cycle.cc:158-234, event_poll_module.cc:69-90).                          *)
THEOREM LoopCorrect == Spec => []LoopIsReady
<1>1. IInv => LoopIsReady
  <2> SUFFICES ASSUME IInv PROVE LoopIsReady
    OBVIOUS
  <2>1. pc # "null"
    BY DEF IInv, Shape, Final
  <2>2. ASSUME ctx.events # Null
        PROVE  \A m \in ModulesOf("EVENT") :
                 /\ ctx_index[m] \in DOMAIN ctx.events
                 /\ \A k \in ModulesOf("EVENT") \ {m} : ctx_index[k] # ctx_index[m]
    <3>1. Used
      BY <2>2 DEF IInv, Shape, Unused
    <3>2. PICK o : o = ctx.events[0]
      OBVIOUS
    <3>3. DOMAIN EventsContext(o) = 0 .. 1
      BY EventsContextFacts
    <3>4. DOMAIN ctx.events = 0 .. 1
      BY <3>1, <3>2, <3>3 DEF Used
    <3>5. ctx_index["Event_core"] = 0 /\ ctx_index["Event_poll"] = 1
      BY <3>1 DEF Used
    <3> QED
      BY <3>4, <3>5, TypeFacts
  <2>3. ASSUME pc = "loop"
        PROVE  /\ actions = "Event_poll" /\ connection_n > 0 /\ slots = connection_n
               /\ \A f \in FlagName : Val(f) # UNSET
    <3>1. actions = "Event_poll" /\ slots = connection_n /\ Used /\ cf = <<MainConf>>
      BY <2>3 DEF IInv, Phases
    <3>2. connection_n > 0
      BY <2>3, <3>1, StackFacts, CommandAssumption DEF IInv, Flags
    <3>3. ASSUME NEW f \in FlagName PROVE Val(f) # UNSET
      <4>1. Settled(f, Val(f))
        BY <2>3, AllSettled
      <4> QED
        BY <4>1 DEF Settled, IsGiven, Default, UNSET, ON, OFF
    <3> QED
      BY <3>1, <3>2, <3>3
  <2> QED
    BY <2>1, <2>2, <2>3 DEF LoopIsReady
<1> QED
  BY <1>1, Invariant, PTL
=============================================================================
