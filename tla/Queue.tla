------------------------------- MODULE Queue --------------------------------
(***************************************************************************)
(* The intrusive doubly linked queues of src/src/lingx/core/queue.h and    *)
(* queue.cc, pointer by pointer: a queue is a ring of prev and next links  *)
(* through its head, the sentinel.  The macros are called in any order     *)
(* their callers may; Queue_sort is a loop whose steps are actions,        *)
(* because each leaves the queue in a state of its own.                    *)
(***************************************************************************)
EXTENDS Integers, SequencesExt, FiniteSetsExt

CONSTANTS Sentinel,   \* queue heads
          Node,   \* elements
          Null,   \* the null pointer
          Rank    \* what cmp(), given to Queue_sort, compares

Cell == Sentinel \cup Node

ASSUME QueueAssumption ==
  /\ IsFiniteSet(Sentinel) /\ IsFiniteSet(Node)
  /\ Sentinel \cap Node = {} /\ Null \notin Cell
  /\ Rank \in [Node -> Int]

VARIABLES
  prev, next,  \* the links of every cell
  linked,      \* history: heads in use and the elements in their queues
  pc,          \* "idle", or where Queue_sort is: "outer", "compare"
  queue,       \* its parameter
  q, p, n,     \* its q, prev and next
  before,      \* history: the queue when Queue_sort was called
  passed       \* history: cmp() said the sentinel is greater than an element

links    == <<prev, next, linked>>
sortVars == <<pc, queue, q, p, n, before, passed>>
vars     == <<links, sortVars>>

(* Queues and the elements of events are zero-initialised.                 *)
Init ==
  /\ prev = [c \in Cell |-> Null] /\ next = [c \in Cell |-> Null]
  /\ linked = {}
  /\ pc = "idle" /\ queue = Null
  /\ q = Null /\ p = Null /\ n = Null
  /\ before = <<>> /\ passed = FALSE

-----------------------------------------------------------------------------
(* The macros.  Their assignments are made in order: of two to one link    *)
(* the later counts, and a link read later is read changed.                *)
Queue_init(h) ==
  /\ prev' = [prev EXCEPT ![h] = h]
  /\ next' = [next EXCEPT ![h] = h]
  /\ linked' = linked \cup {h}

Queue_empty(h) == h = prev[h]

Queue_insert_head(h, x) ==
  /\ next' = [next EXCEPT ![x] = next[h], ![h] = x]
  /\ prev' = [prev EXCEPT ![next[h]] = x, ![x] = h]
  /\ linked' = linked \cup {x}

Queue_insert_after(h, x) == Queue_insert_head(h, x)

Queue_insert_tail_First(h, x) == Queue_insert_head(h, x)            \* mutant

Queue_insert_tail(h, x) ==
  /\ prev' = [prev EXCEPT ![x] = prev[h], ![h] = x]
  /\ next' = [next EXCEPT ![prev[h]] = x, ![x] = h]
  /\ linked' = linked \cup {x}

Queue_remove_OneWay(x) ==                          \* mutant: prev is forgotten
  /\ next' = [next EXCEPT ![prev[x]] = next[x]]
  /\ linked' = linked \ {x}
  /\ UNCHANGED prev

(* The links of x itself stay as they are.                                 *)
Queue_remove(x) ==
  /\ prev' = [prev EXCEPT ![next[x]] = prev[x]]
  /\ next' = [next EXCEPT ![prev[x]] = next[x]]
  /\ linked' = linked \ {x}

(* The elements of h from x on go to m, whose links are overwritten.       *)
Queue_split(h, x, m) ==
  /\ prev' = [prev EXCEPT ![m] = prev[h], ![h] = prev[x], ![x] = m]
  /\ next' = [next EXCEPT ![prev[h]] = m, ![m] = x, ![prev[x]] = h]
  /\ linked' = linked \cup {m}

(* The elements of m go to the end of h.  The links of m still lead into   *)
(* h: it has to be initialised before it is used again.                    *)
Queue_add(h, m) ==
  LET last == IF next[m] = m THEN prev[h] ELSE prev[m]
  IN /\ prev' = [prev EXCEPT ![next[m]] = prev[h], ![h] = last]
     /\ next' = [next EXCEPT ![prev[h]] = next[m], ![last] = h]
     /\ linked' = linked \ {m}

-----------------------------------------------------------------------------
(* The cells from h along next, one after the other.                       *)
Hop(h) ==
  LET hop[k \in Nat] ==
        IF k = 0 THEN h ELSE IF hop[k - 1] = Null THEN Null ELSE next[hop[k - 1]]
  IN hop

(* The elements of the queue: the cells before h comes again.              *)
Elements(h) ==
  LET ends == {k \in 1 .. Cardinality(Cell) : Hop(h)[k] \in {h, Null}}
  IN [k \in 1 .. Min(ends \cup {Cardinality(Cell)}) - 1 |-> Hop(h)[k]]

(* Queue_middle: one pointer makes two steps while the other makes one,    *)
(* until the first of them is at the last element after either.            *)
Reaches_SecondStep(hop, k, last) == hop[2 * k + 1] = last           \* mutant

Reaches(hop, k, last) == last \in {hop[2 * k], hop[2 * k + 1]}

Queue_middle(h) ==
  LET rounds == {k \in 1 .. Cardinality(Cell) : Reaches(Hop(h), k, prev[h])}
  IN IF Hop(h)[1] = prev[h] THEN Hop(h)[1] ELSE Hop(h)[1 + Min(rounds)]

-----------------------------------------------------------------------------
(* The callers: a head is initialised before it is used, an element is     *)
(* inserted when it is in no queue and removed when it is in one.          *)
Call ==
  /\ pc = "idle"
  /\ UNCHANGED sortVars

InUse == Sentinel \cap linked

CallInit == Call /\ \E h \in Sentinel \ linked : Queue_init(h)

CallInsert ==
  /\ Call
  /\ \E x \in Node \ linked :
       \/ \E h \in InUse : Queue_insert_head(h, x) \/ Queue_insert_tail(h, x)
       \/ \E y \in Node \cap linked : Queue_insert_after(y, x)

CallRemove == Call /\ \E x \in Node \cap linked : Queue_remove(x)

(* Whoever follows next from x comes to h.                                 *)
LeadsTo(x, h) ==
  \A S \in SUBSET linked : x \in S /\ (\A c \in S : next[c] \in S) => h \in S

CallSplit ==
  /\ Call
  /\ \E h \in InUse, m \in Sentinel \ linked, x \in Node \cap linked :
       LeadsTo(x, h) /\ Queue_split(h, x, m)

CallAdd == Call /\ \E h, m \in InUse : h # m /\ Queue_add(h, m)

Calls == CallInit \/ CallInsert \/ CallRemove \/ CallSplit \/ CallAdd

-----------------------------------------------------------------------------
(* Queue_sort.  A queue of less than two elements is left alone.  The loop *)
(* starts at the first element, whose predecessor is the sentinel.         *)
SortCall(h) ==
  /\ pc = "idle"
  /\ next[h] # prev[h]
  /\ pc' = "outer"
  /\ queue' = h /\ q' = next[h]
  /\ before' = Elements(h) /\ passed' = FALSE
  /\ UNCHANGED <<links, p, n>>

SortTake ==
  /\ pc = "outer" /\ q # queue
  /\ p' = prev[q] /\ n' = next[q]
  /\ Queue_remove(q)
  /\ pc' = "compare"
  /\ UNCHANGED <<queue, q, before, passed>>

(* cmp(prev, q) <= 0.  Of the sentinel cmp reads what lies around the head *)
(* as if it were an element: it may say anything.                          *)
NotGreater_Strict(a, b) == Rank[a] < Rank[b]                        \* mutant

NotGreater(a, b) == Rank[a] <= Rank[b]

Cmp(result) == IF p = queue THEN TRUE ELSE result = NotGreater(p, q)

Following_Same == q                                                 \* mutant

Following == n

PutAfter(c) ==
  /\ Queue_insert_after(c, q)
  /\ q' = Following
  /\ pc' = "outer"
  /\ UNCHANGED <<queue, p, n, before>>

SortFound ==
  /\ pc = "compare" /\ Cmp(TRUE)
  /\ PutAfter(p)
  /\ UNCHANGED passed

SortBack ==
  /\ pc = "compare" /\ Cmp(FALSE)
  /\ passed' = (passed \/ p = queue)
  /\ IF prev[p] = queue
     THEN PutAfter(queue)
     ELSE p' = prev[p] /\ UNCHANGED <<links, pc, queue, q, n, before>>

SortDone == pc = "outer" /\ q = queue

SortReturn ==
  /\ SortDone
  /\ pc' = "idle"
  /\ queue' = Null /\ q' = Null /\ p' = Null /\ n' = Null
  /\ before' = <<>> /\ passed' = FALSE
  /\ UNCHANGED links

SortStep == SortTake \/ SortFound \/ SortBack \/ SortReturn

Next ==
  \/ Calls
  \/ \E h \in InUse : SortCall(h)
  \/ SortStep

(* Queue_sort, once called, runs.                                          *)
Spec == Init /\ [][Next]_vars /\ WF_vars(SortStep)

-----------------------------------------------------------------------------
(* The links of the queues in use lead nowhere else, and each has its      *)
(* counterpart: who follows me has me for a predecessor (queue.h:11-75).   *)
LinksMatch ==
  \A c \in linked :
    /\ next[c] \in linked /\ prev[next[c]] = c
    /\ prev[c] \in linked /\ next[prev[c]] = c

(* What each macro does to the links is what it is to do to the sequences  *)
(* of elements, the rings of all other queues included, also while         *)
(* Queue_sort is at work (queue.h:11-75).                                  *)
Lists == [h \in InUse |-> Elements(h)]

QL == INSTANCE QueueList WITH lists <- Lists

ImplementsLists ==
  /\ QL!Init
  /\ [][/\ \A h \in Sentinel \ linked : Queue_init(h) => QL!New(h)
        /\ \A h \in InUse, x \in Node \ linked :
             /\ Queue_insert_head(h, x) => QL!InsertFirst(h, x)
             /\ Queue_insert_tail(h, x) => QL!InsertLast(h, x)
        /\ \A y \in Node \cap linked, x \in Node \ linked :
             Queue_insert_after(y, x) => QL!InsertAfter(y, x)
        /\ \A x \in Node \cap linked : Queue_remove(x) => QL!Delete(x)
        /\ \A h \in InUse, m \in Sentinel \ linked : \A x \in ToSet(Lists[h]) :
             Queue_split(h, x, m) => QL!Split(h, x, m)
        /\ \A h, m \in InUse :
             h # m /\ Queue_add(h, m) => QL!Add(h, m)]_vars

(* Queue_empty tells the queues without elements, and Queue_middle gives   *)
(* of any other the middle element, or the first of the second half (the   *)
(* comment at queue.cc:5-8).                                               *)
MiddleIsMiddle ==
  \A h \in InUse :
    LET s == Elements(h)
    IN IF Queue_empty(h) THEN s = <<>>
       ELSE Queue_middle(h) = s[(Len(s) \div 2) + 1]

(* Queue_sort keeps the elements and orders them, whatever cmp() says of   *)
(* the sentinel; and if it never says that the sentinel is greater,        *)
(* elements that compare equal keep their order (queue.cc:35-62).          *)
InOrder(s) == \A j, k \in DOMAIN s : j < k => Rank[s[j]] <= Rank[s[k]]

KeepsOrder(s, t) ==
  \A j, k \in DOMAIN t :
    j < k /\ Rank[t[j]] = Rank[t[k]] =>
      \E a, b \in DOMAIN s : a < b /\ s[a] = t[j] /\ s[b] = t[k]

Sorted ==
  SortDone =>
    LET after == Elements(queue)
    IN /\ InOrder(after)
       /\ ToSet(after) = ToSet(before) /\ Len(after) = Len(before)
       /\ ~passed => KeepsOrder(after, before)

(* Queue_sort ends, unless cmp() says that the sentinel is greater.        *)
SortEnds == pc # "idle" ~> (pc = "idle" \/ passed)
=============================================================================
