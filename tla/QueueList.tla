----------------------------- MODULE QueueList ------------------------------
(***************************************************************************)
(* What the macros of src/src/lingx/core/queue.h promise: a queue in use   *)
(* is a sequence of elements, and each macro is one operation on           *)
(* sequences.  No element is in two queues or twice in one.                *)
(***************************************************************************)
EXTENDS SequencesExt

CONSTANTS Sentinel,   \* the queue heads there are
          Node    \* the elements

VARIABLE lists    \* the sequence of each head that is in use

Used      == DOMAIN lists
InSome(x) == \E h \in Used : Contains(lists[h], x)
Where(x)  == CHOOSE h \in Used : Contains(lists[h], x)
IndexOf(x) == CHOOSE k \in DOMAIN lists[Where(x)] : lists[Where(x)][k] = x

(* The heads of c hold what c says, those in gone are given up.            *)
Change(c, gone) ==
  LET l == lists
  IN  lists' = [h \in (DOMAIN l \cup DOMAIN c) \ gone |->
                  IF h \in DOMAIN c THEN c[h] ELSE l[h]]

Init == lists = << >>

New(h)           == Change([k \in {h} |-> <<>>], {})
InsertFirst(h, x) == Change([k \in {h} |-> <<x>> \o lists[h]], {})
InsertLast(h, x)  == Change([k \in {h} |-> Append(lists[h], x)], {})

InsertAfter(y, x) ==
  Change([k \in {Where(y)} |-> InsertAt(lists[k], IndexOf(y) + 1, x)], {})

Delete(x) == Change([k \in {Where(x)} |-> RemoveAt(lists[k], IndexOf(x))], {})

(* The part of h from q on becomes the queue n.                            *)
Split(h, q, n) ==
  LET cut == IndexOf(q)
  IN  Change([k \in {h, n} |->
                IF k = h THEN SubSeq(lists[h], 1, cut - 1)
                         ELSE SubSeq(lists[h], cut, Len(lists[h]))], {})

(* The elements of n are appended to h; n is no queue any more.            *)
Add(h, n) == Change([k \in {h} |-> lists[h] \o lists[n]], {n})

Next ==
  \/ \E h \in Sentinel \ Used : New(h)
  \/ \E h \in Used, x \in Node : ~InSome(x) /\ (InsertFirst(h, x) \/ InsertLast(h, x))
  \/ \E x, y \in Node : InSome(y) /\ ~InSome(x) /\ InsertAfter(y, x)
  \/ \E x \in Node : InSome(x) /\ Delete(x)
  \/ \E h \in Used : \E q \in ToSet(lists[h]), n \in Sentinel \ Used : Split(h, q, n)
  \/ \E h, n \in Used : h # n /\ Add(h, n)

Spec == Init /\ [][Next]_lists
=============================================================================
