---------------------------- MODULE Queue_proof ----------------------------
(***************************************************************************)
(* Theorems about the queues of Queue, for any finite sets of heads and    *)
(* elements and any cmp().                                                 *)
(***************************************************************************)
EXTENDS Queue, TLAPS, SequenceTheorems, FiniteSetTheorems, NaturalsInduction,
        WellFoundedInduction

LinkType ==
  /\ prev \in [Cell -> Cell \cup {Null}]
  /\ next \in [Cell -> Cell \cup {Null}]
  /\ linked \subseteq Cell

(* The cell at place k of the ring of h with the elements s: h itself is   *)
(* before the first of them and after the last.                            *)
At(s, h, k) == IF k \in 1 .. Len(s) THEN s[k] ELSE h

(* The links lead from each place to the next one and back.                *)
Thread(s, h) ==
  \A k \in 0 .. Len(s) : /\ next[At(s, h, k)] = At(s, h, k + 1)
                         /\ prev[At(s, h, k + 1)] = At(s, h, k)

(* The queues in use are the sequences L: no element is in two of them or  *)
(* twice in one, and the linked elements are those.                        *)
Disjoint(L) ==
  \A g, h \in InUse : \A j \in 1 .. Len(L[g]), k \in 1 .. Len(L[h]) :
    L[g][j] = L[h][k] => g = h /\ j = k

Members(L) ==
  \A c \in Node :
    c \in linked <=> \E h \in InUse : \E k \in 1 .. Len(L[h]) : L[h][k] = c

Ring(L) ==
  /\ L \in [InUse -> Seq(Node)]
  /\ \A h \in InUse : Thread(L[h], h)
  /\ Disjoint(L) /\ Members(L)

-----------------------------------------------------------------------------
(* Sequences.                                                              *)
LEMMA InsertAtIs ==
  ASSUME NEW S, NEW s \in Seq(S), NEW i \in Nat, 1 <= i, i <= Len(s) + 1, NEW x \in S
  PROVE  /\ InsertAt(s, i, x) \in Seq(S)
         /\ Len(InsertAt(s, i, x)) = Len(s) + 1
         /\ \A k \in 1 .. Len(s) + 1 :
              InsertAt(s, i, x)[k] = IF k < i THEN s[k]
                                     ELSE IF k = i THEN x ELSE s[k - 1]
<1> DEFINE a == SubSeq(s, 1, i - 1)
           b == SubSeq(s, i, Len(s))
           m == <<x>>
<1>1. Len(s) \in Nat /\ \A k \in 1 .. Len(s) : s[k] \in S
  BY LenProperties
<1>2. /\ a \in Seq(S) /\ Len(a) = i - 1
      /\ \A k \in 1 .. i - 1 : a[k] = s[k]
  <2>1. \A k \in 1 .. i - 1 : s[k] \in S
    BY <1>1
  <2>2. /\ a \in Seq(S) /\ Len(a) = IF 1 <= i - 1 THEN i - 1 - 1 + 1 ELSE 0
        /\ \A k \in 1 .. i - 1 - 1 + 1 : a[k] = s[1 + k - 1]
    BY <1>1, <2>1, SubSeqProperties
  <2> HIDE DEF a
  <2> QED
    BY <1>1, <2>2
<1>3. /\ b \in Seq(S) /\ Len(b) = Len(s) - i + 1
      /\ \A k \in 1 .. Len(s) - i + 1 : b[k] = s[i + k - 1]
  <2>1. \A k \in i .. Len(s) : s[k] \in S
    BY <1>1
  <2>2. /\ b \in Seq(S) /\ Len(b) = IF i <= Len(s) THEN Len(s) - i + 1 ELSE 0
        /\ \A k \in 1 .. Len(s) - i + 1 : b[k] = s[i + k - 1]
    BY <1>1, <2>1, SubSeqProperties
  <2> HIDE DEF b
  <2> QED
    BY <1>1, <2>2
<1>4. m \in Seq(S) /\ Len(m) = 1 /\ m[1] = x
  OBVIOUS
<1>5. InsertAt(s, i, x) = a \o m \o b
  BY DEF InsertAt
<1> HIDE DEF a, b, m
<1> DEFINE c == a \o m
<1>6. /\ c \in Seq(S) /\ Len(c) = i
      /\ \A k \in 1 .. i : c[k] = IF k < i THEN s[k] ELSE x
  <2>1. /\ c \in Seq(S) /\ Len(c) = Len(a) + Len(m)
        /\ \A k \in 1 .. Len(a) + Len(m) : c[k] = IF k <= Len(a) THEN a[k] ELSE m[k - Len(a)]
    BY <1>2, <1>4, ConcatProperties
  <2> HIDE DEF c
  <2> QED
    BY <1>1, <1>2, <1>4, <2>1
<1> HIDE DEF c
<1> DEFINE t == c \o b
<1>7. /\ t \in Seq(S) /\ Len(t) = Len(c) + Len(b)
      /\ \A k \in 1 .. Len(c) + Len(b) : t[k] = IF k <= Len(c) THEN c[k] ELSE b[k - Len(c)]
  BY <1>3, <1>6, ConcatProperties
<1>8. InsertAt(s, i, x) = t
  BY <1>5 DEF c
<1> HIDE DEF t
<1>9. ASSUME NEW k \in 1 .. Len(s) + 1
      PROVE  t[k] = IF k < i THEN s[k] ELSE IF k = i THEN x ELSE s[k - 1]
  <2>1. CASE k <= i
    BY <1>1, <1>3, <1>6, <1>7, <2>1
  <2>2. CASE k > i
    <3>1. t[k] = b[k - i] /\ k - i \in 1 .. Len(s) - i + 1 /\ i + (k - i) - 1 = k - 1
      BY <1>1, <1>3, <1>6, <1>7, <2>2
    <3> QED
      BY <1>3, <2>2, <3>1
  <2> QED
    BY <2>1, <2>2
<1> QED
  BY <1>1, <1>3, <1>6, <1>7, <1>8, <1>9

LEMMA RemoveAtIs ==
  ASSUME NEW S, NEW s \in Seq(S), NEW i \in 1 .. Len(s)
  PROVE  /\ RemoveAt(s, i) \in Seq(S)
         /\ Len(RemoveAt(s, i)) = Len(s) - 1
         /\ \A k \in 1 .. Len(s) - 1 :
              RemoveAt(s, i)[k] = IF k < i THEN s[k] ELSE s[k + 1]
<1> DEFINE a == SubSeq(s, 1, i - 1)
           b == SubSeq(s, i + 1, Len(s))
<1>1. Len(s) \in Nat /\ \A k \in 1 .. Len(s) : s[k] \in S
  BY LenProperties
<1>2. /\ a \in Seq(S) /\ Len(a) = i - 1
      /\ \A k \in 1 .. i - 1 : a[k] = s[k]
  <2>1. \A k \in 1 .. i - 1 : s[k] \in S
    BY <1>1
  <2>2. /\ a \in Seq(S) /\ Len(a) = IF 1 <= i - 1 THEN i - 1 - 1 + 1 ELSE 0
        /\ \A k \in 1 .. i - 1 - 1 + 1 : a[k] = s[1 + k - 1]
    BY <1>1, <2>1, SubSeqProperties
  <2> HIDE DEF a
  <2> QED
    BY <1>1, <2>2
<1>3. /\ b \in Seq(S) /\ Len(b) = Len(s) - i
      /\ \A k \in 1 .. Len(s) - i : b[k] = s[i + k]
  <2>1. \A k \in i + 1 .. Len(s) : s[k] \in S
    BY <1>1
  <2>2. /\ b \in Seq(S) /\ Len(b) = IF i + 1 <= Len(s) THEN Len(s) - (i + 1) + 1 ELSE 0
        /\ \A k \in 1 .. Len(s) - (i + 1) + 1 : b[k] = s[i + 1 + k - 1]
    BY <1>1, <2>1, SubSeqProperties
  <2> HIDE DEF b
  <2> QED
    BY <1>1, <2>2
<1>4. RemoveAt(s, i) = a \o b
  BY DEF RemoveAt
<1> HIDE DEF a, b
<1> DEFINE t == a \o b
<1>5. /\ t \in Seq(S) /\ Len(t) = Len(a) + Len(b)
      /\ \A k \in 1 .. Len(a) + Len(b) : t[k] = IF k <= Len(a) THEN a[k] ELSE b[k - Len(a)]
  BY <1>2, <1>3, ConcatProperties
<1> HIDE DEF t
<1>6. ASSUME NEW k \in 1 .. Len(s) - 1
      PROVE  t[k] = IF k < i THEN s[k] ELSE s[k + 1]
  <2>1. CASE k < i
    <3>1. /\ k \in 1 .. i - 1 /\ k \in 1 .. Len(a) + Len(b) /\ k <= Len(a)
      BY <1>1, <1>2, <1>3, <2>1
    <3>2. t[k] = a[k]
      BY <1>5, <3>1
    <3> QED
      BY <1>2, <2>1, <3>1, <3>2
  <2>2. CASE k >= i
    <3>1. /\ k - (i - 1) \in 1 .. Len(s) - i /\ i + (k - (i - 1)) = k + 1
          /\ k \in 1 .. Len(a) + Len(b) /\ ~(k <= Len(a))
      BY <1>1, <1>2, <1>3, <2>2
    <3>2. t[k] = b[k - (i - 1)]
      BY <1>2, <1>5, <3>1
    <3> QED
      BY <1>3, <2>2, <3>1, <3>2
  <2> QED
    BY <2>1, <2>2
<1>7. RemoveAt(s, i) = t
  BY <1>4 DEF t
<1> QED
  BY <1>1, <1>2, <1>3, <1>5, <1>6, <1>7

-----------------------------------------------------------------------------
(* Rings.  A place of a ring is one cell, and no other place is.           *)
LEMMA RingBasics ==
  ASSUME NEW L, Ring(L), NEW h \in InUse
  PROVE  /\ L[h] \in Seq(Node) /\ Len(L[h]) \in Nat
         /\ \A k \in 1 .. Len(L[h]) : L[h][k] \in Node /\ L[h][k] \in linked
         /\ h \in Sentinel /\ h \in linked /\ h \notin Node
<1>1. L[h] \in Seq(Node) /\ Len(L[h]) \in Nat
  BY LenProperties DEF Ring
<1>2. \A k \in 1 .. Len(L[h]) : L[h][k] \in Node
  BY <1>1, ElementOfSeq
<1> QED
  BY <1>1, <1>2, QueueAssumption DEF Ring, Members, InUse

LEMMA OnePlace ==
  ASSUME NEW L, Ring(L), NEW g \in InUse, NEW h \in InUse,
         NEW j \in 0 .. Len(L[g]) + 1, NEW k \in 0 .. Len(L[h]) + 1,
         At(L[g], g, j) = At(L[h], h, k)
  PROVE  /\ g = h
         /\ j = k \/ (j \in {0, Len(L[g]) + 1} /\ k \in {0, Len(L[h]) + 1})
<1>1. /\ Len(L[g]) \in Nat /\ Len(L[h]) \in Nat /\ g \notin Node /\ h \notin Node
      /\ \A i \in 1 .. Len(L[g]) : L[g][i] \in Node
      /\ \A i \in 1 .. Len(L[h]) : L[h][i] \in Node
  BY RingBasics
<1>2. CASE j \in 1 .. Len(L[g]) /\ k \in 1 .. Len(L[h])
  BY <1>2 DEF Ring, Disjoint, At
<1>3. CASE j \notin 1 .. Len(L[g]) /\ k \notin 1 .. Len(L[h])
  BY <1>1, <1>3 DEF At
<1>4. CASE j \in 1 .. Len(L[g]) /\ k \notin 1 .. Len(L[h])
  BY <1>1, <1>4 DEF At
<1>5. CASE j \notin 1 .. Len(L[g]) /\ k \in 1 .. Len(L[h])
  BY <1>1, <1>5 DEF At
<1> QED
  BY <1>2, <1>3, <1>4, <1>5

(* Where the links lead from a place, and that they lead to linked cells.  *)
LEMMA Links ==
  ASSUME NEW L, Ring(L), NEW h \in InUse
  PROVE  /\ \A k \in 0 .. Len(L[h]) : next[At(L[h], h, k)] = At(L[h], h, k + 1)
         /\ \A k \in 1 .. Len(L[h]) + 1 : prev[At(L[h], h, k)] = At(L[h], h, k - 1)
         /\ \A k \in 0 .. Len(L[h]) + 1 :
              At(L[h], h, k) \in linked /\ At(L[h], h, k) \in Cell
         /\ At(L[h], h, 0) = h /\ At(L[h], h, Len(L[h]) + 1) = h
         /\ next[h] = At(L[h], h, 1) /\ prev[h] = At(L[h], h, Len(L[h]))
<1> DEFINE s == L[h]
<1>1. Len(s) \in Nat /\ h \in linked /\ h \in Cell /\ Node \subseteq Cell
  BY RingBasics DEF Cell
<1>2. \A k \in 1 .. Len(s) : s[k] \in Node /\ s[k] \in linked
  BY RingBasics
<1>3. Thread(s, h)
  BY DEF Ring
<1> HIDE DEF s
<1>4. \A k \in 0 .. Len(s) : next[At(s, h, k)] = At(s, h, k + 1)
  BY <1>3 DEF Thread
<1>5. ASSUME NEW k \in 1 .. Len(s) + 1 PROVE prev[At(s, h, k)] = At(s, h, k - 1)
  <2>1. k - 1 \in 0 .. Len(s) /\ k - 1 + 1 = k
    BY <1>1
  <2> QED
    BY <1>3, <2>1 DEF Thread
<1>6. \A k \in 0 .. Len(s) + 1 : At(s, h, k) \in linked /\ At(s, h, k) \in Cell
  BY <1>1, <1>2 DEF At
<1>7. At(s, h, 0) = h /\ At(s, h, Len(s) + 1) = h
  BY <1>1 DEF At
<1>8. next[h] = At(s, h, 1) /\ prev[h] = At(s, h, Len(s))
  <2>1. 0 \in 0 .. Len(s) /\ Len(s) + 1 \in 1 .. Len(s) + 1 /\ Len(s) + 1 - 1 = Len(s) /\ 0 + 1 = 1
    BY <1>1
  <2> QED
    BY <1>4, <1>5, <1>7, <2>1
<1> QED
  BY <1>4, <1>5, <1>6, <1>7, <1>8 DEF s

(* The same, place by place; and on one turn no cell comes twice.          *)
LEMMA Step ==
  ASSUME NEW L, Ring(L), NEW h \in InUse, NEW k \in 0 .. Len(L[h])
  PROVE  /\ next[At(L[h], h, k)] = At(L[h], h, k + 1)
         /\ prev[At(L[h], h, k + 1)] = At(L[h], h, k)
         /\ At(L[h], h, k) \in linked /\ At(L[h], h, k + 1) \in linked
         /\ At(L[h], h, k) \in Cell /\ At(L[h], h, k + 1) \in Cell
<1>1. /\ k \in 0 .. Len(L[h]) + 1 /\ k + 1 \in 0 .. Len(L[h]) + 1
      /\ k + 1 \in 1 .. Len(L[h]) + 1 /\ k + 1 - 1 = k
  BY RingBasics
<1> QED
  BY <1>1, Links

LEMMA OneTurn ==
  ASSUME NEW L, Ring(L), NEW h \in InUse
  PROVE  /\ \A j, k \in 0 .. Len(L[h]) : At(L[h], h, j) = At(L[h], h, k) => j = k
         /\ \A j, k \in 1 .. Len(L[h]) + 1 : At(L[h], h, j) = At(L[h], h, k) => j = k
<1>1. Len(L[h]) \in Nat
  BY RingBasics
<1>2. ASSUME NEW j \in 0 .. Len(L[h]) + 1, NEW k \in 0 .. Len(L[h]) + 1,
             At(L[h], h, j) = At(L[h], h, k)
      PROVE  j = k \/ (j \in {0, Len(L[h]) + 1} /\ k \in {0, Len(L[h]) + 1})
  BY <1>2, OnePlace
<1> QED
  BY <1>1, <1>2

(* Every linked cell is a place of a ring.                                 *)
LEMMA HasPlace ==
  ASSUME NEW L, Ring(L), NEW c \in linked, linked \subseteq Cell
  PROVE  /\ \E h \in InUse : \E k \in 0 .. Len(L[h]) :
              c = At(L[h], h, k) /\ (c \in Node => k \in 1 .. Len(L[h]) /\ L[h][k] = c)
         /\ c \in Node \/ c \in InUse
<1>1. CASE c \in Node
  <2>1. PICK h \in InUse : \E k \in 1 .. Len(L[h]) : L[h][k] = c
    BY <1>1 DEF Ring, Members
  <2>2. PICK k \in 1 .. Len(L[h]) : L[h][k] = c
    BY <2>1
  <2>3. k \in 0 .. Len(L[h]) /\ c = At(L[h], h, k)
    BY <2>2, RingBasics DEF At
  <2> QED
    BY <1>1, <2>2, <2>3
<1>2. CASE c \notin Node
  <2>1. c \in InUse
    BY <1>2 DEF InUse, Cell
  <2>2. 0 \in 0 .. Len(L[c]) /\ At(L[c], c, 0) = c
    BY <2>1, RingBasics DEF At
  <2> QED
    BY <1>2, <2>1, <2>2
<1> QED
  BY <1>1, <1>2

(* queue.h: what has a next has that for its prev's next, and so on.       *)
LEMMA RingsMatch ==
  ASSUME NEW L, Ring(L), linked \subseteq Cell PROVE LinksMatch
<1> SUFFICES ASSUME NEW c \in linked
             PROVE  /\ next[c] \in linked /\ prev[next[c]] = c
                    /\ prev[c] \in linked /\ next[prev[c]] = c
  BY DEF LinksMatch
<1>1. PICK h \in InUse : \E k \in 0 .. Len(L[h]) : c = At(L[h], h, k)
  BY HasPlace
<1>2. PICK k \in 0 .. Len(L[h]) : c = At(L[h], h, k)
  BY <1>1
<1>3. Len(L[h]) \in Nat
  BY RingBasics
<1>4. next[c] \in linked /\ prev[next[c]] = c
  <2>1. k + 1 \in 1 .. Len(L[h]) + 1 /\ k + 1 \in 0 .. Len(L[h]) + 1 /\ k + 1 - 1 = k
    BY <1>3
  <2> QED
    BY <1>2, <2>1, Links
<1>5. prev[c] \in linked /\ next[prev[c]] = c
  <2>1. PICK j \in 1 .. Len(L[h]) + 1 : c = At(L[h], h, j)
    <3>1. CASE k = 0
      <4>1. Len(L[h]) + 1 \in 1 .. Len(L[h]) + 1
        BY <1>3
      <4> QED
        BY <1>2, <3>1, <4>1, Links
    <3>2. CASE k # 0
      BY <1>2, <1>3, <3>2
    <3> QED
      BY <3>1, <3>2
  <2>2. j - 1 \in 0 .. Len(L[h]) /\ j - 1 \in 0 .. Len(L[h]) + 1 /\ j - 1 + 1 = j
    BY <1>3
  <2> QED
    BY <2>1, <2>2, Links
<1> QED
  BY <1>4, <1>5

(* An element is linked in between two neighbours.                         *)
Between(c, d, x) ==
  /\ next' = [next EXCEPT ![x] = d, ![c] = x]
  /\ prev' = [prev EXCEPT ![d] = x, ![x] = c]
  /\ linked' = linked \cup {x}

LEMMA InsertKeeps ==
  ASSUME LinkType, NEW L, Ring(L), NEW h \in InUse, NEW i \in 1 .. Len(L[h]) + 1,
         NEW x \in Node \ linked,
         Between(At(L[h], h, i - 1), At(L[h], h, i), x)
  PROVE  /\ LinkType' /\ InUse' = InUse
         /\ Ring([L EXCEPT ![h] = InsertAt(L[h], i, x)])'
<1> DEFINE s == L[h]
           t == InsertAt(s, i, x)
           M == [L EXCEPT ![h] = t]
<1>1. /\ s \in Seq(Node) /\ Len(s) \in Nat
      /\ i - 1 \in 0 .. Len(s) + 1 /\ i \in 0 .. Len(s) + 1
      /\ i \in Nat /\ 1 <= i /\ i <= Len(s) + 1
      /\ x \in Node /\ x \in Cell /\ x \notin linked /\ x \notin Sentinel
  BY RingBasics, QueueAssumption DEF Cell
<1>2. /\ t \in Seq(Node) /\ Len(t) = Len(s) + 1
      /\ \A k \in 1 .. Len(s) + 1 : t[k] = IF k < i THEN s[k]
                                           ELSE IF k = i THEN x ELSE s[k - 1]
  <2> HIDE DEF s
  <2>1. s \in Seq(Node) /\ x \in Node /\ i \in Nat /\ 1 <= i /\ i <= Len(s) + 1
    BY <1>1
  <2> QED
    BY <2>1, InsertAtIs
<1>3. \A k \in 0 .. Len(s) + 2 :
        At(t, h, k) = IF k < i THEN At(s, h, k)
                      ELSE IF k = i THEN x ELSE At(s, h, k - 1)
  <2> HIDE DEF s, t
  <2>1. ASSUME NEW k \in Nat, k <= Len(s) + 2
        PROVE  At(t, h, k) = IF k < i THEN At(s, h, k)
                             ELSE IF k = i THEN x ELSE At(s, h, k - 1)
    BY <1>1, <1>2, <2>1 DEF At
  <2> QED
    BY <1>1, <2>1
<1>4. InUse' = InUse /\ InUse \subseteq linked
  BY <1>1 DEF Between, InUse
<1>5. /\ M \in [InUse -> Seq(Node)] /\ M[h] = t
      /\ \A g \in InUse : g # h => M[g] = L[g]
  BY <1>2 DEF Ring
<1>6. /\ \A c \in linked : c # At(s, h, i - 1) => next'[c] = next[c]
      /\ \A c \in linked : c # At(s, h, i) => prev'[c] = prev[c]
      /\ next'[At(s, h, i - 1)] = x /\ prev'[At(s, h, i)] = x
      /\ next'[x] = At(s, h, i) /\ prev'[x] = At(s, h, i - 1)
      /\ LinkType'
  <2> DEFINE a == At(s, h, i - 1)
             b == At(s, h, i)
  <2>1. a \in linked \cap Cell /\ b \in linked \cap Cell
    BY <1>1, Links
  <2>2. /\ next' = [next EXCEPT ![x] = b, ![a] = x]
        /\ prev' = [prev EXCEPT ![b] = x, ![x] = a]
        /\ linked' = linked \cup {x}
    BY DEF Between
  <2> HIDE DEF a, b, s
  <2>3. x # a /\ x # b /\ linked \subseteq Cell
    BY <1>1, <2>1 DEF LinkType
  <2>4. /\ \A c \in linked : c # a => next'[c] = next[c]
        /\ next'[a] = x /\ next'[x] = b /\ next' \in [Cell -> Cell \cup {Null}]
    BY <1>1, <2>1, <2>2, <2>3 DEF LinkType
  <2>5. /\ \A c \in linked : c # b => prev'[c] = prev[c]
        /\ prev'[b] = x /\ prev'[x] = a /\ prev' \in [Cell -> Cell \cup {Null}]
    BY <1>1, <2>1, <2>2, <2>3 DEF LinkType
  <2>6. linked' \subseteq Cell
    BY <1>1, <2>2, <2>3
  <2> QED
    BY <2>4, <2>5, <2>6 DEF LinkType, a, b
<1>7. ASSUME NEW g \in InUse PROVE Thread(M[g], g)'
  <2>1. CASE g # h
    <3> SUFFICES ASSUME NEW k \in 0 .. Len(L[g])
                 PROVE  /\ next'[At(L[g], g, k)] = At(L[g], g, k + 1)
                        /\ prev'[At(L[g], g, k + 1)] = At(L[g], g, k)
      BY <1>5, <2>1 DEF Thread, At
    <3>1. Len(L[g]) \in Nat
      BY RingBasics
    <3>2. /\ k \in 0 .. Len(L[g]) + 1 /\ k + 1 \in 0 .. Len(L[g]) + 1
          /\ k + 1 \in 1 .. Len(L[g]) + 1 /\ k + 1 - 1 = k
      BY <3>1
    <3>3. At(L[g], g, k) # At(s, h, i - 1) /\ At(L[g], g, k + 1) # At(s, h, i)
      BY <1>1, <2>1, <3>2, OnePlace
    <3>4. At(L[g], g, k) \in linked /\ At(L[g], g, k + 1) \in linked
      BY <3>2, Links
    <3>5. next[At(L[g], g, k)] = At(L[g], g, k + 1) /\ prev[At(L[g], g, k + 1)] = At(L[g], g, k)
      BY <3>2, Links
    <3> QED
      BY <1>6, <3>3, <3>4, <3>5
  <2>2. CASE g = h
    <3>1. ASSUME NEW j \in 1 .. Len(s) + 1
          PROVE  /\ next[At(s, h, j - 1)] = At(s, h, j)
                 /\ prev[At(s, h, j)] = At(s, h, j - 1)
                 /\ j # i => /\ At(s, h, j - 1) # At(s, h, i - 1)
                             /\ At(s, h, j) # At(s, h, i)
                 /\ At(s, h, j - 1) \in linked /\ At(s, h, j) \in linked
      <4>1. /\ j \in 0 .. Len(s) + 1 /\ j - 1 \in 0 .. Len(s)
            /\ j - 1 \in 0 .. Len(s) + 1 /\ j - 1 + 1 = j
        BY <1>1
      <4>2. /\ next[At(s, h, j - 1)] = At(s, h, j) /\ prev[At(s, h, j)] = At(s, h, j - 1)
            /\ At(s, h, j - 1) \in linked /\ At(s, h, j) \in linked
        <5>1. /\ \A k \in 0 .. Len(s) : next[At(s, h, k)] = At(s, h, k + 1)
              /\ \A k \in 1 .. Len(s) + 1 : prev[At(s, h, k)] = At(s, h, k - 1)
              /\ \A k \in 0 .. Len(s) + 1 : At(s, h, k) \in linked
          BY Links
        <5> HIDE DEF s
        <5>2. next[At(s, h, j - 1)] = At(s, h, j)
          BY <4>1, <5>1
        <5>3. prev[At(s, h, j)] = At(s, h, j - 1)
          BY <5>1
        <5> QED
          BY <4>1, <5>1, <5>2, <5>3
      <4>3. At(s, h, j - 1) = At(s, h, i - 1) =>
              j - 1 = i - 1 \/ (j - 1 \in {0, Len(s) + 1} /\ i - 1 \in {0, Len(s) + 1})
        BY <1>1, <4>1, OnePlace
      <4>4. At(s, h, j) = At(s, h, i) =>
              j = i \/ (j \in {0, Len(s) + 1} /\ i \in {0, Len(s) + 1})
        BY <1>1, <4>1, OnePlace
      <4> HIDE DEF s
      <4>5. j # i => At(s, h, j - 1) # At(s, h, i - 1)
        <5>1. j # i => j - 1 # i - 1 /\ ~(j - 1 \in {0, Len(s) + 1} /\ i - 1 \in {0, Len(s) + 1})
          BY <1>1
        <5> QED
          BY <4>3, <5>1
      <4>6. j # i => At(s, h, j) # At(s, h, i)
        <5>1. j # i => ~(j \in {0, Len(s) + 1} /\ i \in {0, Len(s) + 1})
          BY <1>1
        <5> QED
          BY <4>4, <5>1
      <4> QED
        BY <4>2, <4>5, <4>6
    <3> HIDE DEF t, s, M
    <3> SUFFICES ASSUME NEW k \in 0 .. Len(s) + 1
                 PROVE  /\ next'[At(t, h, k)] = At(t, h, k + 1)
                        /\ prev'[At(t, h, k + 1)] = At(t, h, k)
      BY <1>2, <1>5, <2>2 DEF Thread, At
    <3>2. i \in 1 .. Len(s) + 1
      BY DEF s
    <3>3. CASE k < i - 1
      <4>1. PICK j \in 1 .. Len(s) + 1 : j = k + 1 /\ k = j - 1 /\ j # i
        BY <1>1, <3>2, <3>3
      <4>2. At(t, h, k) = At(s, h, j - 1) /\ At(t, h, k + 1) = At(s, h, j)
        BY <1>1, <1>3, <3>2, <3>3, <4>1
      <4> QED
        BY <1>6, <3>1, <4>1, <4>2
    <3>4. CASE k = i - 1
      <4>1. At(t, h, k) = At(s, h, i - 1) /\ At(t, h, k + 1) = x
        BY <1>1, <1>3, <3>2, <3>4
      <4> QED
        BY <1>6, <4>1
    <3>5. CASE k = i
      <4>1. At(t, h, k) = x /\ At(t, h, k + 1) = At(s, h, i)
        BY <1>1, <1>3, <3>2, <3>5
      <4> QED
        BY <1>6, <4>1
    <3>6. CASE k > i
      <4>1. k \in 1 .. Len(s) + 1 /\ k # i
        BY <1>1, <3>2, <3>6
      <4>2. At(t, h, k) = At(s, h, k - 1) /\ At(t, h, k + 1) = At(s, h, k)
        BY <1>1, <1>3, <3>2, <3>6, <4>1
      <4> QED
        BY <1>6, <3>1, <4>1, <4>2
    <3> QED
      BY <1>1, <3>2, <3>3, <3>4, <3>5, <3>6
  <2> QED
    BY <2>1, <2>2
<1>8. Members(M)'
  <2>1. \A k \in 1 .. Len(s) : s[k] \in linked
    BY RingBasics
  <2>2. ASSUME NEW c \in Node, c \in linked'
        PROVE  \E g \in InUse : \E k \in 1 .. Len(M[g]) : M[g][k] = c
    <3>1. CASE c = x
      <4>1. i \in 1 .. Len(t) /\ t[i] = x
        BY <1>1, <1>2
      <4> QED
        BY <1>5, <3>1, <4>1
    <3>2. CASE c # x
      <4>1. PICK g \in InUse : \E k \in 1 .. Len(L[g]) : L[g][k] = c
        BY <2>2, <3>2 DEF Between, Ring, Members
      <4>2. PICK k \in 1 .. Len(L[g]) : L[g][k] = c
        BY <4>1
      <4>3. CASE g # h
        BY <1>5, <4>2, <4>3
      <4>4. CASE g = h
        <5>1. k \in 1 .. Len(s) /\ s[k] = c
          BY <4>2, <4>4
        <5> HIDE DEF t, s, M
        <5>2. CASE k < i
          <6>1. k \in 1 .. Len(t) /\ t[k] = s[k]
            BY <1>1, <1>2, <5>1, <5>2
          <6> QED
            BY <1>5, <5>1, <6>1
        <5>3. CASE k >= i
          <6>1. k + 1 \in 1 .. Len(t) /\ t[k + 1] = s[k + 1 - 1] /\ k + 1 - 1 = k
            BY <1>1, <1>2, <5>1, <5>3
          <6> QED
            BY <1>5, <5>1, <6>1
        <5> QED
          BY <1>1, <5>1, <5>2, <5>3
      <4> QED
        BY <4>3, <4>4
    <3> QED
      BY <3>1, <3>2
  <2>3. ASSUME NEW g \in InUse, NEW k \in 1 .. Len(M[g]) PROVE M[g][k] \in linked'
    <3>1. CASE g # h
      BY <1>5, <3>1, RingBasics DEF Between
    <3>2. CASE g = h
      <4> HIDE DEF t, s, M
      <4>1. k \in 1 .. Len(s) + 1 /\ M[g][k] = t[k]
        BY <1>2, <1>5, <3>2
      <4>2. CASE k < i
        <5>1. k \in 1 .. Len(s) /\ t[k] = s[k]
          BY <1>1, <1>2, <4>1, <4>2
        <5> QED
          BY <2>1, <4>1, <5>1 DEF Between
      <4>3. CASE k = i
        BY <1>2, <4>1, <4>3 DEF Between
      <4>4. CASE k > i
        <5>1. k - 1 \in 1 .. Len(s) /\ t[k] = s[k - 1]
          BY <1>1, <1>2, <4>1, <4>4
        <5> QED
          BY <2>1, <4>1, <5>1 DEF Between
      <4> QED
        BY <1>1, <4>1, <4>2, <4>3, <4>4
    <3> QED
      BY <3>1, <3>2
  <2> QED
    BY <1>4, <2>2, <2>3 DEF Members
<1>9. Disjoint(M)'
  <2> SUFFICES ASSUME NEW e \in InUse, NEW g \in InUse,
                      NEW j \in 1 .. Len(M[e]), NEW k \in 1 .. Len(M[g]),
                      M[e][j] = M[g][k]
               PROVE  e = g /\ j = k
    BY <1>4 DEF Disjoint
  <2>1. ASSUME NEW f \in InUse, NEW m \in 1 .. Len(M[f])
        PROVE  \/ f = h /\ m = i /\ M[f][m] = x
               \/ /\ M[f][m] # x
                  /\ \E a \in 1 .. Len(L[f]) :
                       /\ M[f][m] = L[f][a]
                       /\ m = IF f = h /\ a >= i THEN a + 1 ELSE a
    <3>1. \A a \in 1 .. Len(L[f]) : L[f][a] # x
      BY <1>1, RingBasics
    <3>2. CASE f # h
      BY <1>5, <3>1, <3>2
    <3>3. CASE f = h
      <4>1. \A a \in 1 .. Len(s) : s[a] # x
        BY <3>1, <3>3
      <4>2. m \in 1 .. Len(s) + 1 /\ M[f][m] = t[m]
        BY <1>2, <1>5, <3>3
      <4> SUFFICES \/ m = i /\ t[m] = x
                   \/ /\ t[m] # x
                      /\ \E a \in 1 .. Len(s) : /\ t[m] = s[a]
                                                /\ m = IF a >= i THEN a + 1 ELSE a
        BY <3>3, <4>2
      <4> HIDE DEF t, s, M
      <4>3. CASE m < i
        <5>1. m \in 1 .. Len(s) /\ t[m] = s[m] /\ ~(m >= i)
          BY <1>1, <1>2, <4>2, <4>3
        <5> QED
          BY <4>1, <5>1
      <4>4. CASE m = i
        BY <1>2, <4>2, <4>4
      <4>5. CASE m > i
        <5>1. m - 1 \in 1 .. Len(s) /\ t[m] = s[m - 1] /\ m - 1 >= i /\ m = m - 1 + 1
          BY <1>1, <1>2, <4>2, <4>5
        <5> QED
          BY <4>1, <5>1
      <4> QED
        BY <1>1, <4>2, <4>3, <4>4, <4>5
    <3> QED
      BY <3>2, <3>3
  <2>2. \A a \in 1 .. Len(L[e]), b \in 1 .. Len(L[g]) : L[e][a] = L[g][b] => e = g /\ a = b
    BY DEF Ring, Disjoint
  <2> HIDE DEF t, s, M
  <2>3. CASE M[e][j] = x
    <3>1. e = h /\ j = i
      BY <2>1, <2>3
    <3>2. g = h /\ k = i
      BY <2>1, <2>3
    <3> QED
      BY <3>1, <3>2
  <2>4. CASE M[e][j] # x
    <3>1. PICK a \in 1 .. Len(L[e]) :
            M[e][j] = L[e][a] /\ j = IF e = h /\ a >= i THEN a + 1 ELSE a
      BY <2>1, <2>4
    <3>2. PICK b \in 1 .. Len(L[g]) :
            M[g][k] = L[g][b] /\ k = IF g = h /\ b >= i THEN b + 1 ELSE b
      BY <2>1, <2>4
    <3> QED
      BY <2>2, <3>1, <3>2
  <2> QED
    BY <2>3, <2>4
<1> QED
  BY <1>4, <1>5, <1>6, <1>7, <1>8, <1>9 DEF Ring

(* A removed element leaves its neighbours linked.                         *)
LEMMA RemoveKeeps ==
  ASSUME LinkType, NEW L, Ring(L), NEW h \in InUse, NEW i \in 1 .. Len(L[h]),
         Queue_remove(L[h][i])
  PROVE  /\ LinkType' /\ InUse' = InUse
         /\ Ring([L EXCEPT ![h] = RemoveAt(L[h], i)])'
<1> DEFINE s == L[h]
           x == s[i]
           t == RemoveAt(s, i)
           M == [L EXCEPT ![h] = t]
           a == At(s, h, i - 1)
           b == At(s, h, i + 1)
<1>1. /\ s \in Seq(Node) /\ Len(s) \in Nat
      /\ i - 1 \in 0 .. Len(s) + 1 /\ i + 1 \in 0 .. Len(s) + 1
      /\ i \in Nat /\ 1 <= i /\ i <= Len(s)
      /\ x \in Node /\ x \in linked /\ x \notin Sentinel /\ x = At(s, h, i)
  BY RingBasics, QueueAssumption DEF At
<1>2. /\ t \in Seq(Node) /\ Len(t) = Len(s) - 1
      /\ \A k \in 1 .. Len(s) - 1 : t[k] = IF k < i THEN s[k] ELSE s[k + 1]
  <2> HIDE DEF s
  <2> i \in 1 .. Len(s)
    BY <1>1
  <2> QED
    BY <1>1, RemoveAtIs
<1>3. \A k \in 0 .. Len(s) : At(t, h, k) = IF k < i THEN At(s, h, k) ELSE At(s, h, k + 1)
  <2> HIDE DEF s, t
  <2> QED
    BY <1>1, <1>2 DEF At
<1>4. InUse' = InUse /\ InUse \subseteq linked /\ linked' = linked \ {x}
  BY <1>1 DEF Queue_remove, InUse
<1>5. /\ M \in [InUse -> Seq(Node)] /\ M[h] = t
      /\ \A g \in InUse : g # h => M[g] = L[g]
  BY <1>2 DEF Ring
<1>6. /\ \A c \in linked : c # a => next'[c] = next[c]
      /\ \A c \in linked : c # b => prev'[c] = prev[c]
      /\ next'[a] = b /\ prev'[b] = a
      /\ LinkType'
  <2>1. /\ a \in linked \cap Cell /\ b \in linked \cap Cell
        /\ next[x] = b /\ prev[x] = a
    <3>1. i \in 0 .. Len(s) /\ i \in 1 .. Len(s) + 1
      BY <1>1
    <3> QED
      BY <1>1, <3>1, Links
  <2> HIDE DEF a, b, x
  <2> QED
    BY <2>1 DEF Queue_remove, LinkType, x
<1>7. ASSUME NEW g \in InUse PROVE Thread(M[g], g)'
  <2>1. CASE g # h
    <3> SUFFICES ASSUME NEW k \in 0 .. Len(L[g])
                 PROVE  /\ next'[At(L[g], g, k)] = At(L[g], g, k + 1)
                        /\ prev'[At(L[g], g, k + 1)] = At(L[g], g, k)
      BY <1>5, <2>1 DEF Thread, At
    <3>1. /\ next[At(L[g], g, k)] = At(L[g], g, k + 1)
          /\ prev[At(L[g], g, k + 1)] = At(L[g], g, k)
          /\ At(L[g], g, k) \in linked /\ At(L[g], g, k + 1) \in linked
      BY Step
    <3>2. k \in 0 .. Len(L[g]) + 1 /\ k + 1 \in 0 .. Len(L[g]) + 1
      BY RingBasics
    <3>3. At(L[g], g, k) # a /\ At(L[g], g, k + 1) # b
      BY <1>1, <2>1, <3>2, OnePlace
    <3> QED
      BY <1>6, <3>1, <3>3
  <2>2. CASE g = h
    <3>1. ASSUME NEW j \in 0 .. Len(s), j # i - 1, j # i
          PROVE  /\ next'[At(s, h, j)] = At(s, h, j + 1)
                 /\ prev'[At(s, h, j + 1)] = At(s, h, j)
      <4>1. /\ next[At(s, h, j)] = At(s, h, j + 1)
            /\ prev[At(s, h, j + 1)] = At(s, h, j)
            /\ At(s, h, j) \in linked /\ At(s, h, j + 1) \in linked
        BY Step
      <4>2. /\ i - 1 \in 0 .. Len(s) /\ i + 1 \in 1 .. Len(s) + 1 /\ j + 1 \in 1 .. Len(s) + 1
            /\ j + 1 # i + 1
        BY <1>1, <3>1
      <4>3. At(s, h, j) # a /\ At(s, h, j + 1) # b
        BY <3>1, <4>2, OneTurn
      <4> QED
        BY <1>6, <4>1, <4>3
    <3> SUFFICES ASSUME NEW k \in 0 .. Len(M[g])
                 PROVE  /\ next'[At(M[g], g, k)] = At(M[g], g, k + 1)
                        /\ prev'[At(M[g], g, k + 1)] = At(M[g], g, k)
      BY DEF Thread, At
    <3> HIDE DEF t, s, M
    <3>6. M[g] = t /\ g = h /\ k \in 0 .. Len(s) - 1
      BY <1>2, <1>5, <2>2
    <3> SUFFICES /\ next'[At(t, h, k)] = At(t, h, k + 1)
                 /\ prev'[At(t, h, k + 1)] = At(t, h, k)
      BY <3>6
    <3>2. CASE k < i - 1
      <4>1. /\ k \in 0 .. Len(s) /\ k + 1 \in 0 .. Len(s) /\ k < i /\ k + 1 < i
            /\ k # i - 1 /\ k # i
        BY <1>1, <3>2
      <4>2. At(t, h, k) = At(s, h, k) /\ At(t, h, k + 1) = At(s, h, k + 1)
        BY <1>3, <4>1
      <4> QED
        BY <3>1, <4>1, <4>2
    <3>3. CASE k = i - 1
      <4>1. At(t, h, k) = a /\ At(t, h, k + 1) = b
        BY <1>1, <1>3, <3>3
      <4> QED
        BY <1>6, <4>1
    <3>4. CASE k > i - 1
      <4>1. /\ k \in 0 .. Len(s) /\ k + 1 \in 0 .. Len(s) /\ ~(k < i) /\ ~(k + 1 < i)
            /\ k + 1 # i - 1 /\ k + 1 # i
        BY <1>1, <3>4, <3>6
      <4>2. At(t, h, k) = At(s, h, k + 1)
        BY <1>3, <4>1
      <4>3. At(t, h, k + 1) = At(s, h, k + 1 + 1)
        <5> HIDE DEF a, b, x
        <5> QED
          BY <1>3, <4>1
      <4> QED
        BY <3>1, <4>1, <4>2, <4>3
    <3> QED
      BY <1>1, <3>2, <3>3, <3>4
  <2> QED
    BY <2>1, <2>2
<1>8. ASSUME NEW f \in InUse, NEW m \in 1 .. Len(M[f])
      PROVE  \E k \in 1 .. Len(L[f]) : /\ M[f][m] = L[f][k]
                                       /\ ~(f = h /\ k = i)
                                       /\ m = IF f = h /\ k > i THEN k - 1 ELSE k
  <2>1. CASE f # h
    BY <1>5, <2>1
  <2>2. CASE f = h
    <3>1. m \in 1 .. Len(s) - 1 /\ M[f][m] = t[m]
      BY <1>2, <1>5, <2>2
    <3> SUFFICES \E k \in 1 .. Len(s) : /\ t[m] = s[k] /\ k # i
                                        /\ m = IF k > i THEN k - 1 ELSE k
      BY <2>2, <3>1
    <3> HIDE DEF t, s, M
    <3>2. CASE m < i
      <4>1. m \in 1 .. Len(s) /\ t[m] = s[m] /\ ~(m > i) /\ m # i
        BY <1>1, <1>2, <3>1, <3>2
      <4> QED
        BY <4>1
    <3>3. CASE m >= i
      <4>1. m + 1 \in 1 .. Len(s) /\ t[m] = s[m + 1] /\ m + 1 > i /\ m + 1 # i /\ m = m + 1 - 1
        BY <1>1, <1>2, <3>1, <3>3
      <4> QED
        BY <4>1
    <3> QED
      BY <1>1, <3>1, <3>2, <3>3
  <2> QED
    BY <2>1, <2>2
<1>9. Members(M)'
  <2>1. ASSUME NEW c \in Node, c \in linked'
        PROVE  \E g \in InUse : \E k \in 1 .. Len(M[g]) : M[g][k] = c
    <3>1. c # x /\ c \in linked
      BY <1>4, <2>1
    <3>2. PICK g \in InUse : \E k \in 1 .. Len(L[g]) : L[g][k] = c
      BY <3>1 DEF Ring, Members
    <3>3. PICK k \in 1 .. Len(L[g]) : L[g][k] = c
      BY <3>2
    <3>4. CASE g # h
      BY <1>5, <3>3, <3>4
    <3>5. CASE g = h
      <4>1. k \in 1 .. Len(s) /\ s[k] = c /\ k # i
        BY <3>1, <3>3, <3>5
      <4> HIDE DEF t, s, M
      <4>2. CASE k < i
        <5>1. k \in 1 .. Len(t) /\ t[k] = s[k]
          BY <1>1, <1>2, <4>1, <4>2
        <5> QED
          BY <1>5, <4>1, <5>1
      <4>3. CASE k > i
        <5>1. k - 1 \in 1 .. Len(t) /\ t[k - 1] = s[k - 1 + 1] /\ k - 1 + 1 = k
          BY <1>1, <1>2, <4>1, <4>3
        <5> QED
          BY <1>5, <4>1, <5>1
      <4> QED
        BY <1>1, <4>1, <4>2, <4>3
    <3> QED
      BY <3>4, <3>5
  <2>2. ASSUME NEW g \in InUse, NEW m \in 1 .. Len(M[g]) PROVE M[g][m] \in linked'
    <3>1. PICK k \in 1 .. Len(L[g]) : M[g][m] = L[g][k] /\ ~(g = h /\ k = i)
      BY <1>8
    <3>2. L[g][k] # L[h][i] /\ L[g][k] \in linked
      BY <3>1, RingBasics DEF Ring, Disjoint
    <3> QED
      BY <1>4, <3>1, <3>2
  <2> QED
    BY <1>4, <2>1, <2>2 DEF Members
<1>10. Disjoint(M)'
  <2> SUFFICES ASSUME NEW e \in InUse, NEW g \in InUse,
                      NEW j \in 1 .. Len(M[e]), NEW k \in 1 .. Len(M[g]),
                      M[e][j] = M[g][k]
               PROVE  e = g /\ j = k
    BY <1>4 DEF Disjoint
  <2> HIDE DEF t, s, M
  <2>1. PICK c \in 1 .. Len(L[e]) :
          M[e][j] = L[e][c] /\ j = IF e = h /\ c > i THEN c - 1 ELSE c
    BY <1>8
  <2>2. PICK d \in 1 .. Len(L[g]) :
          M[g][k] = L[g][d] /\ k = IF g = h /\ d > i THEN d - 1 ELSE d
    BY <1>8
  <2>3. L[e][c] = L[g][d]
    BY <2>1, <2>2
  <2>4. e = g /\ c = d
    BY <2>3 DEF Ring, Disjoint
  <2> QED
    BY <2>1, <2>2, <2>4
<1> QED
  BY <1>4, <1>5, <1>6, <1>7, <1>9, <1>10 DEF Ring

(* The lists after a new queue, a split and an addition.                   *)
Opened(L, m) == [g \in DOMAIN L \cup {m} |-> IF g = m THEN <<>> ELSE L[g]]

Divided(L, h, i, m) ==
  [g \in DOMAIN L \cup {m} |-> IF g = h THEN SubSeq(L[h], 1, i - 1)
                              ELSE IF g = m THEN SubSeq(L[h], i, Len(L[h])) ELSE L[g]]

Joined(L, h, m) == [g \in DOMAIN L \ {m} |-> IF g = h THEN L[h] \o L[m] ELSE L[g]]

(* A new queue has no elements.                                            *)
LEMMA InitKeeps ==
  ASSUME LinkType, NEW L, Ring(L), NEW m \in Sentinel \ linked, Queue_init(m)
  PROVE  LinkType' /\ InUse' = InUse \cup {m} /\ Ring(Opened(L, m))'
<1> DEFINE M == Opened(L, m)
<1>1. m \notin linked /\ m \notin InUse /\ m \in Cell /\ m \notin Node
  BY QueueAssumption DEF Cell, InUse
<1>2. InUse' = InUse \cup {m} /\ linked' = linked \cup {m} /\ InUse \subseteq linked
  BY DEF Queue_init, InUse
<1>3. /\ next'[m] = m /\ prev'[m] = m
      /\ \A c \in linked : next'[c] = next[c] /\ prev'[c] = prev[c]
      /\ LinkType'
  BY <1>1 DEF Queue_init, LinkType
<1>4. /\ M \in [InUse \cup {m} -> Seq(Node)] /\ M[m] = <<>>
      /\ \A g \in InUse : M[g] = L[g]
  BY <1>1 DEF Ring, Opened
<1> HIDE DEF M
<1>5. ASSUME NEW g \in InUse PROVE Thread(M[g], g)'
  <2> SUFFICES ASSUME NEW k \in 0 .. Len(L[g])
               PROVE  /\ next'[At(L[g], g, k)] = At(L[g], g, k + 1)
                      /\ prev'[At(L[g], g, k + 1)] = At(L[g], g, k)
    BY <1>4 DEF Thread, At
  <2> QED
    BY <1>3, Step
<1>6. Thread(M[m], m)'
  BY <1>3, <1>4 DEF Thread, At
<1>7. Members(M)'
  BY <1>1, <1>2, <1>4 DEF Members, Ring
<1>8. Disjoint(M)'
  BY <1>1, <1>2, <1>4 DEF Disjoint, Ring
<1>9. ASSUME NEW g \in InUse' PROVE Thread(M[g], g)'
  BY <1>2, <1>5, <1>6
<1>10. M \in [InUse' -> Seq(Node)]
  BY <1>2, <1>4
<1>11. Ring(M)'
  BY <1>7, <1>8, <1>9, <1>10 DEF Ring
<1> QED
  BY <1>2, <1>3, <1>11 DEF M

(* Split: the elements from x on have m for their head.                    *)
LEMMA SplitKeeps ==
  ASSUME LinkType, NEW L, Ring(L), NEW h \in InUse, NEW i \in 1 .. Len(L[h]),
         NEW m \in Sentinel \ linked, Queue_split(h, L[h][i], m)
  PROVE  LinkType' /\ InUse' = InUse \cup {m} /\ Ring(Divided(L, h, i, m))'
<1> DEFINE s == L[h]
           x == s[i]
           u == SubSeq(s, 1, i - 1)
           v == SubSeq(s, i, Len(s))
           M == Divided(L, h, i, m)
           a == At(s, h, i - 1)
           z == At(s, h, Len(s))
<1>1. /\ s \in Seq(Node) /\ Len(s) \in Nat /\ \A k \in 1 .. Len(s) : s[k] \in Node
      /\ i \in Nat /\ 1 <= i /\ i <= Len(s)
      /\ x \in Node /\ x \in linked /\ x \notin Sentinel /\ x = At(s, h, i)
      /\ h = At(s, h, 0) /\ h = At(s, h, Len(s) + 1) /\ h \in linked /\ h \in Cell
  BY RingBasics, QueueAssumption DEF At, Cell
<1>2. m \notin linked /\ m \notin InUse /\ m \in Cell /\ m \notin Node /\ m # h
  BY QueueAssumption DEF Cell, InUse
<1>3. /\ u \in Seq(Node) /\ Len(u) = i - 1
      /\ \A k \in 1 .. i - 1 : u[k] = s[k]
  <2>1. \A k \in 1 .. i - 1 : s[k] \in Node
    BY <1>1
  <2>2. /\ u \in Seq(Node) /\ Len(u) = IF 1 <= i - 1 THEN i - 1 - 1 + 1 ELSE 0
        /\ \A k \in 1 .. i - 1 - 1 + 1 : u[k] = s[1 + k - 1]
    BY <1>1, <2>1, SubSeqProperties
  <2> HIDE DEF u
  <2> QED
    BY <1>1, <2>2
<1>4. /\ v \in Seq(Node) /\ Len(v) = Len(s) - i + 1
      /\ \A k \in 1 .. Len(s) - i + 1 : v[k] = s[i + k - 1]
  <2>1. \A k \in i .. Len(s) : s[k] \in Node
    BY <1>1
  <2>2. /\ v \in Seq(Node) /\ Len(v) = IF i <= Len(s) THEN Len(s) - i + 1 ELSE 0
        /\ \A k \in 1 .. Len(s) - i + 1 : v[k] = s[i + k - 1]
    BY <1>1, <2>1, SubSeqProperties
  <2> HIDE DEF v
  <2> QED
    BY <1>1, <2>2
<1>5. InUse' = InUse \cup {m} /\ linked' = linked \cup {m} /\ InUse \subseteq linked
  BY DEF Queue_split, InUse
<1>6. /\ M \in [InUse \cup {m} -> Seq(Node)] /\ M[h] = u /\ M[m] = v
      /\ \A g \in InUse : g # h => M[g] = L[g]
  BY <1>2, <1>3, <1>4 DEF Ring, Divided
<1> HIDE DEF M
<1>7. /\ \A c \in linked : c # a /\ c # z => next'[c] = next[c]
      /\ \A c \in linked : c # x /\ c # h => prev'[c] = prev[c]
      /\ next'[a] = h /\ next'[z] = m /\ next'[m] = x
      /\ prev'[x] = m /\ prev'[h] = a /\ prev'[m] = z
      /\ LinkType'
  <2>1. i \in 0 .. Len(s) /\ i - 1 \in 0 .. Len(s) /\ Len(s) \in 0 .. Len(s)
        /\ i \in 1 .. Len(s) + 1 /\ i - 1 # Len(s)
    BY <1>1
  <2>2. /\ a \in linked \cap Cell /\ z \in linked \cap Cell /\ x \in Cell
        /\ prev[x] = a /\ prev[h] = z /\ a # z
    BY <1>1, <2>1, Links, OneTurn DEF Cell
  <2>3. a # m /\ z # m /\ x # m /\ x # h
    BY <1>1, <1>2, <2>2
  <2> HIDE DEF a, z, x
  <2> QED
    BY <1>1, <1>2, <2>2, <2>3 DEF Queue_split, LinkType, x
<1>8. ASSUME NEW j \in 0 .. Len(s), j # i - 1, j # Len(s)
      PROVE  /\ next'[At(s, h, j)] = At(s, h, j + 1)
             /\ prev'[At(s, h, j + 1)] = At(s, h, j)
  <2>1. /\ next[At(s, h, j)] = At(s, h, j + 1)
        /\ prev[At(s, h, j + 1)] = At(s, h, j)
        /\ At(s, h, j) \in linked /\ At(s, h, j + 1) \in linked
    BY Step
  <2>2. /\ i - 1 \in 0 .. Len(s) /\ i \in 1 .. Len(s) + 1 /\ j + 1 \in 1 .. Len(s) + 1
        /\ j + 1 # i /\ j + 1 # Len(s) + 1
        /\ Len(s) \in 0 .. Len(s) /\ Len(s) + 1 \in 1 .. Len(s) + 1
    BY <1>1, <1>8
  <2>3. At(s, h, j) # a /\ At(s, h, j) # z /\ At(s, h, j + 1) # x /\ At(s, h, j + 1) # h
    BY <1>1, <1>8, <2>2, OneTurn
  <2> QED
    BY <1>7, <2>1, <2>3
<1>9. Thread(M[h], h)'
  <2> HIDE DEF u, s
  <2> SUFFICES ASSUME NEW k \in 0 .. i - 1
               PROVE  /\ next'[At(u, h, k)] = At(u, h, k + 1)
                      /\ prev'[At(u, h, k + 1)] = At(u, h, k)
    BY <1>1, <1>3, <1>6 DEF Thread, At
  <2>1. CASE k < i - 1
    <3>1. At(u, h, k) = At(s, h, k) /\ At(u, h, k + 1) = At(s, h, k + 1)
      BY <1>1, <1>3, <2>1 DEF At
    <3>2. k \in 0 .. Len(s) /\ k # i - 1 /\ k # Len(s)
      BY <1>1, <2>1
    <3> QED
      BY <1>8, <3>1, <3>2
  <2>2. CASE k = i - 1
    <3>1. At(u, h, k) = a /\ At(u, h, k + 1) = h
      BY <1>1, <1>3, <2>2 DEF At
    <3> QED
      BY <1>7, <3>1
  <2> QED
    BY <1>1, <2>1, <2>2
<1>10. Thread(M[m], m)'
  <2> HIDE DEF v, s
  <2> SUFFICES ASSUME NEW k \in 0 .. Len(s) - i + 1
               PROVE  /\ next'[At(v, m, k)] = At(v, m, k + 1)
                      /\ prev'[At(v, m, k + 1)] = At(v, m, k)
    BY <1>1, <1>4, <1>6 DEF Thread, At
  <2>1. CASE k = 0
    <3>1. At(v, m, k) = m /\ At(v, m, k + 1) = x
      <4>1. 1 \in 1 .. Len(s) - i + 1 /\ v[1] = s[i + 1 - 1] /\ i + 1 - 1 = i
        BY <1>1, <1>4
      <4> QED
        BY <1>1, <1>4, <2>1, <4>1 DEF At
    <3> QED
      BY <1>7, <3>1
  <2>2. CASE k = Len(s) - i + 1
    <3>1. At(v, m, k) = z /\ At(v, m, k + 1) = m
      <4>1. k \in 1 .. Len(s) - i + 1 /\ v[k] = s[i + k - 1] /\ i + k - 1 = Len(s)
        BY <1>1, <1>4, <2>2
      <4> QED
        BY <1>1, <1>4, <2>2, <4>1 DEF At
    <3> QED
      BY <1>7, <3>1
  <2>3. CASE k # 0 /\ k # Len(s) - i + 1
    <3>1. k \in 1 .. Len(s) - i /\ k \in 1 .. Len(s) - i + 1 /\ k + 1 \in 1 .. Len(s) - i + 1
      BY <1>1, <2>3
    <3>2. /\ i + k - 1 \in 0 .. Len(s) /\ i + k - 1 # i - 1 /\ i + k - 1 # Len(s)
          /\ i + k - 1 \in 1 .. Len(s) /\ i + k - 1 + 1 \in 1 .. Len(s)
          /\ i + (k + 1) - 1 = i + k - 1 + 1
      BY <1>1, <3>1
    <3>3. v[k] = s[i + k - 1] /\ v[k + 1] = s[i + k - 1 + 1]
      <4>1. v[k] = s[i + k - 1] /\ v[k + 1] = s[i + (k + 1) - 1]
        BY <1>4, <3>1
      <4> QED
        BY <3>2, <4>1
    <3>4. At(v, m, k) = At(s, h, i + k - 1) /\ At(v, m, k + 1) = At(s, h, i + k - 1 + 1)
      BY <1>4, <3>1, <3>2, <3>3 DEF At
    <3> QED
      BY <1>8, <3>2, <3>4
  <2> QED
    BY <2>1, <2>2, <2>3
<1>11. ASSUME NEW g \in InUse, g # h PROVE Thread(M[g], g)'
  <2> SUFFICES ASSUME NEW k \in 0 .. Len(L[g])
               PROVE  /\ next'[At(L[g], g, k)] = At(L[g], g, k + 1)
                      /\ prev'[At(L[g], g, k + 1)] = At(L[g], g, k)
    BY <1>6, <1>11 DEF Thread, At
  <2>1. /\ next[At(L[g], g, k)] = At(L[g], g, k + 1)
        /\ prev[At(L[g], g, k + 1)] = At(L[g], g, k)
        /\ At(L[g], g, k) \in linked /\ At(L[g], g, k + 1) \in linked
    BY Step
  <2>2. /\ k \in 0 .. Len(L[g]) + 1 /\ k + 1 \in 0 .. Len(L[g]) + 1
        /\ i \in 0 .. Len(s) + 1 /\ i - 1 \in 0 .. Len(s) + 1
        /\ Len(s) \in 0 .. Len(s) + 1 /\ 0 \in 0 .. Len(s) + 1
    BY <1>1, RingBasics
  <2>3. /\ At(L[g], g, k) # a /\ At(L[g], g, k) # z
        /\ At(L[g], g, k + 1) # x /\ At(L[g], g, k + 1) # h
    BY <1>1, <1>11, <2>2, OnePlace
  <2> QED
    BY <1>7, <2>1, <2>3
(* Where an element of the new queues was.                                 *)
<1>12. ASSUME NEW f \in InUse \cup {m}, NEW k \in 1 .. Len(M[f])
       PROVE  \E e \in InUse : \E j \in 1 .. Len(L[e]) :
                /\ M[f][k] = L[e][j]
                /\ f = IF e = h /\ j >= i THEN m ELSE e
                /\ k = IF e = h /\ j >= i THEN j - i + 1 ELSE j
  <2>1. CASE f # h /\ f # m
    BY <1>6, <2>1
  <2>2. CASE f = h
    <3> HIDE DEF s, u
    <3>1. k \in 1 .. Len(s) /\ ~(k >= i) /\ M[f][k] = s[k]
      BY <1>1, <1>3, <1>6, <2>2
    <3> QED
      BY <2>2, <3>1 DEF s
  <2>3. CASE f = m
    <3> HIDE DEF s, v
    <3>1. /\ i + k - 1 \in 1 .. Len(s) /\ i + k - 1 >= i /\ M[f][k] = s[i + k - 1]
          /\ k = i + k - 1 - i + 1
      <4>1. k \in 1 .. Len(s) - i + 1 /\ M[f][k] = v[k]
        BY <1>4, <1>6, <2>3
      <4> QED
        BY <1>1, <1>4, <4>1
    <3> QED
      BY <2>3, <3>1 DEF s
  <2> QED
    BY <2>1, <2>2, <2>3
<1>13. Members(M)'
  <2>1. ASSUME NEW c \in Node, c \in linked'
        PROVE  \E f \in InUse \cup {m} : \E k \in 1 .. Len(M[f]) : M[f][k] = c
    <3>1. c \in linked
      BY <1>2, <1>5, <2>1
    <3>2. PICK g \in InUse : \E k \in 1 .. Len(L[g]) : L[g][k] = c
      BY <3>1 DEF Ring, Members
    <3>3. PICK k \in 1 .. Len(L[g]) : L[g][k] = c
      BY <3>2
    <3>4. CASE g # h
      BY <1>6, <3>3, <3>4
    <3>5. CASE g = h /\ k < i
      <4>1. k \in 1 .. Len(u) /\ u[k] = c
        BY <1>1, <1>3, <3>3, <3>5
      <4> QED
        BY <1>6, <4>1
    <3>6. CASE g = h /\ k >= i
      <4> HIDE DEF s, v
      <4>1. k \in 1 .. Len(s) /\ s[k] = c
        BY <3>3, <3>6 DEF s
      <4>2. /\ k - i + 1 \in 1 .. Len(v) /\ k - i + 1 \in 1 .. Len(s) - i + 1
            /\ i + (k - i + 1) - 1 = k
        BY <1>1, <1>4, <3>6, <4>1
      <4>3. v[k - i + 1] = c
        BY <1>4, <4>1, <4>2
      <4> QED
        BY <1>6, <4>2, <4>3
    <3> QED
      <4>1. k \in Nat
        BY RingBasics
      <4> QED
        BY <1>1, <3>4, <3>5, <3>6, <4>1
  <2>2. ASSUME NEW f \in InUse \cup {m}, NEW k \in 1 .. Len(M[f]) PROVE M[f][k] \in linked'
    <3>1. PICK e \in InUse : \E j \in 1 .. Len(L[e]) : M[f][k] = L[e][j]
      BY <1>12
    <3> QED
      BY <1>5, <3>1, RingBasics
  <2> QED
    BY <1>5, <2>1, <2>2 DEF Members
<1>14. Disjoint(M)'
  <2> SUFFICES ASSUME NEW e \in InUse \cup {m}, NEW g \in InUse \cup {m},
                      NEW j \in 1 .. Len(M[e]), NEW k \in 1 .. Len(M[g]),
                      M[e][j] = M[g][k]
               PROVE  e = g /\ j = k
    BY <1>5 DEF Disjoint
  <2>1. PICK c \in InUse : \E o \in 1 .. Len(L[c]) :
                /\ M[e][j] = L[c][o]
                /\ e = IF c = h /\ o >= i THEN m ELSE c
                /\ j = IF c = h /\ o >= i THEN o - i + 1 ELSE o
    BY <1>12
  <2>2. PICK o \in 1 .. Len(L[c]) :
                /\ M[e][j] = L[c][o]
                /\ e = IF c = h /\ o >= i THEN m ELSE c
                /\ j = IF c = h /\ o >= i THEN o - i + 1 ELSE o
    BY <2>1
  <2>3. PICK d \in InUse : \E r \in 1 .. Len(L[d]) :
                /\ M[g][k] = L[d][r]
                /\ g = IF d = h /\ r >= i THEN m ELSE d
                /\ k = IF d = h /\ r >= i THEN r - i + 1 ELSE r
    BY <1>12
  <2>4. PICK r \in 1 .. Len(L[d]) :
                /\ M[g][k] = L[d][r]
                /\ g = IF d = h /\ r >= i THEN m ELSE d
                /\ k = IF d = h /\ r >= i THEN r - i + 1 ELSE r
    BY <2>3
  <2>5. L[c][o] = L[d][r]
    BY <2>2, <2>4
  <2>6. c = d /\ o = r
    BY <2>5 DEF Ring, Disjoint
  <2> QED
    BY <2>2, <2>4, <2>6
<1>15. ASSUME NEW g \in InUse' PROVE Thread(M[g], g)'
  BY <1>5, <1>9, <1>10, <1>11
<1>16. M \in [InUse' -> Seq(Node)]
  BY <1>5, <1>6
<1>17. Ring(M)'
  BY <1>13, <1>14, <1>15, <1>16 DEF Ring
<1> QED
  BY <1>5, <1>7, <1>17 DEF M

(* Add: the elements of m come after those of h, and m is in use no more.  *)
LEMMA AddKeeps ==
  ASSUME LinkType, NEW L, Ring(L), NEW h \in InUse, NEW m \in InUse, h # m,
         Queue_add(h, m)
  PROVE  LinkType' /\ InUse' = InUse \ {m} /\ Ring(Joined(L, h, m))'
<1> DEFINE s == L[h]
           t == L[m]
           u == s \o t
           M == Joined(L, h, m)
           z == At(s, h, Len(s))
           b == At(t, m, 1)
           y == At(t, m, Len(t))
<1>1. /\ s \in Seq(Node) /\ Len(s) \in Nat /\ \A k \in 1 .. Len(s) : s[k] \in Node
      /\ t \in Seq(Node) /\ Len(t) \in Nat /\ \A k \in 1 .. Len(t) : t[k] \in Node
      /\ h \in linked /\ h \in Cell /\ h \notin Node
      /\ m \in linked /\ m \in Cell /\ m \notin Node
  BY RingBasics DEF Cell
<1>2. /\ u \in Seq(Node) /\ Len(u) = Len(s) + Len(t)
      /\ \A k \in 1 .. Len(s) + Len(t) : u[k] = IF k <= Len(s) THEN s[k] ELSE t[k - Len(s)]
  <2> HIDE DEF s, t
  <2> QED
    BY <1>1, ConcatProperties
<1>3. /\ \A k \in 0 .. Len(s) : At(u, h, k) = At(s, h, k)
      /\ \A k \in 1 .. Len(t) : At(u, h, Len(s) + k) = At(t, m, k)
      /\ At(u, h, Len(s) + Len(t) + 1) = h
  <2> HIDE DEF s, t, u
  <2>1. ASSUME NEW k \in 0 .. Len(s) PROVE At(u, h, k) = At(s, h, k)
    BY <1>1, <1>2 DEF At
  <2>2. ASSUME NEW k \in 1 .. Len(t) PROVE At(u, h, Len(s) + k) = At(t, m, k)
    <3>1. /\ Len(s) + k \in 1 .. Len(s) + Len(t) /\ ~(Len(s) + k <= Len(s))
          /\ Len(s) + k - Len(s) = k
      BY <1>1
    <3>2. u[Len(s) + k] = t[k]
      BY <1>2, <3>1
    <3> QED
      BY <1>2, <3>1, <3>2 DEF At
  <2>3. At(u, h, Len(s) + Len(t) + 1) = h
    BY <1>1, <1>2 DEF At
  <2> QED
    BY <2>1, <2>2, <2>3
<1>4. InUse' = InUse \ {m} /\ linked' = linked \ {m} /\ InUse \subseteq linked
  BY DEF Queue_add, InUse
<1>5. /\ M \in [InUse \ {m} -> Seq(Node)] /\ M[h] = u
      /\ \A g \in InUse : g # h /\ g # m => M[g] = L[g]
  BY <1>2 DEF Ring, Joined
<1> HIDE DEF M
<1>6. /\ next[m] = b /\ prev[m] = y /\ prev[h] = z
      /\ b = m <=> Len(t) = 0
      /\ z \in linked \cap Cell /\ b \in linked \cap Cell /\ y \in linked \cap Cell
      /\ Len(t) = 0 => y = m
  <2>1. Len(s) \in 0 .. Len(s) + 1 /\ 1 \in 0 .. Len(t) + 1 /\ Len(t) \in 0 .. Len(t) + 1
    BY <1>1
  <2>2. Len(t) # 0 => 1 \in 1 .. Len(t)
    BY <1>1
  <2>3. b = m <=> Len(t) = 0
    BY <1>1, <2>2 DEF At
  <2>4. Len(t) = 0 => y = m
    BY <1>1 DEF At
  <2> QED
    BY <2>1, <2>3, <2>4, Links
<1>7. z # m /\ z # y /\ h # b
  <2>1. /\ Len(s) \in 0 .. Len(s) + 1 /\ 0 \in 0 .. Len(s) + 1
        /\ 1 \in 0 .. Len(t) + 1 /\ Len(t) \in 0 .. Len(t) + 1
    BY <1>1
  <2>2. h = At(s, h, 0) /\ m = At(t, m, Len(t) + 1) /\ Len(t) + 1 \in 0 .. Len(t) + 1
    BY <1>1, Links
  <2> QED
    BY <2>1, <2>2, OnePlace
<1>8. /\ \A c \in linked : c # z /\ c # y => next'[c] = next[c]
      /\ \A c \in linked : c # b /\ c # h => prev'[c] = prev[c]
      /\ Len(t) = 0 => next'[z] = h /\ prev'[h] = z
      /\ Len(t) # 0 => next'[z] = b /\ prev'[b] = z /\ next'[y] = h /\ prev'[h] = y
      /\ LinkType'
  <2> HIDE DEF s, t, z, b, y
  <2>1. CASE Len(t) = 0
    <3>1. /\ prev' = [prev EXCEPT ![m] = z, ![h] = z]
          /\ next' = [next EXCEPT ![z] = m, ![z] = h]
      BY <1>6, <2>1 DEF Queue_add
    <3>2. /\ prev' \in [Cell -> Cell \cup {Null}] /\ next' \in [Cell -> Cell \cup {Null}]
          /\ \A c \in Cell : c # z => next'[c] = next[c]
          /\ \A c \in Cell : c # m /\ c # h => prev'[c] = prev[c]
          /\ next'[z] = h /\ prev'[h] = z
      BY <1>1, <1>6, <3>1 DEF LinkType
    <3> QED
      BY <1>4, <1>6, <2>1, <3>2 DEF LinkType
  <2>2. CASE Len(t) # 0
    <3>1. /\ prev' = [prev EXCEPT ![b] = z, ![h] = y]
          /\ next' = [next EXCEPT ![z] = b, ![y] = h]
      BY <1>6, <2>2 DEF Queue_add
    <3>2. /\ prev' \in [Cell -> Cell \cup {Null}] /\ next' \in [Cell -> Cell \cup {Null}]
          /\ \A c \in Cell : c # z /\ c # y => next'[c] = next[c]
          /\ \A c \in Cell : c # b /\ c # h => prev'[c] = prev[c]
          /\ next'[z] = b /\ next'[y] = h /\ prev'[b] = z /\ prev'[h] = y
      BY <1>1, <1>6, <1>7, <3>1 DEF LinkType
    <3> QED
      BY <1>4, <1>6, <2>2, <3>2 DEF LinkType
  <2> QED
    BY <2>1, <2>2
<1>9. ASSUME NEW j \in 0 .. Len(s), j # Len(s)
      PROVE  /\ next'[At(s, h, j)] = At(s, h, j + 1)
             /\ prev'[At(s, h, j + 1)] = At(s, h, j)
  <2>1. /\ next[At(s, h, j)] = At(s, h, j + 1)
        /\ prev[At(s, h, j + 1)] = At(s, h, j)
        /\ At(s, h, j) \in linked /\ At(s, h, j + 1) \in linked
    BY Step
  <2>2. /\ Len(s) \in 0 .. Len(s) /\ Len(s) + 1 \in 1 .. Len(s) + 1
        /\ j + 1 \in 1 .. Len(s) + 1 /\ j + 1 # Len(s) + 1
        /\ j \in 0 .. Len(s) + 1 /\ j + 1 \in 0 .. Len(s) + 1
        /\ 1 \in 0 .. Len(t) + 1 /\ Len(t) \in 0 .. Len(t) + 1
        /\ h = At(s, h, Len(s) + 1)
    BY <1>1, <1>9, Links
  <2>3. At(s, h, j) # z /\ At(s, h, j + 1) # h
    BY <1>9, <2>2, OneTurn
  <2>4. At(s, h, j) # y /\ At(s, h, j + 1) # b
    BY <2>2, OnePlace
  <2> QED
    BY <1>8, <2>1, <2>3, <2>4
<1>10. ASSUME NEW j \in 1 .. Len(t), j # Len(t)
       PROVE  /\ next'[At(t, m, j)] = At(t, m, j + 1)
              /\ prev'[At(t, m, j + 1)] = At(t, m, j)
  <2>1. j \in 0 .. Len(t)
    BY <1>1
  <2>2. /\ next[At(t, m, j)] = At(t, m, j + 1)
        /\ prev[At(t, m, j + 1)] = At(t, m, j)
        /\ At(t, m, j) \in linked /\ At(t, m, j + 1) \in linked
    BY <2>1, Step
  <2>3. /\ Len(t) \in 0 .. Len(t) /\ 1 \in 1 .. Len(t) + 1
        /\ j + 1 \in 1 .. Len(t) + 1 /\ j + 1 # 1
        /\ j \in 0 .. Len(t) + 1 /\ j + 1 \in 0 .. Len(t) + 1
        /\ 0 \in 0 .. Len(s) + 1 /\ Len(s) \in 0 .. Len(s) + 1
        /\ h = At(s, h, 0)
    BY <1>1, <1>10, Links
  <2>4. At(t, m, j) # y /\ At(t, m, j + 1) # b
    BY <1>10, <2>1, <2>3, OneTurn
  <2>5. At(t, m, j) # z /\ At(t, m, j + 1) # h
    BY <2>3, OnePlace
  <2> QED
    BY <1>8, <2>2, <2>4, <2>5
<1>11. Thread(M[h], h)'
  <2> HIDE DEF u, s, t
  <2> SUFFICES ASSUME NEW k \in 0 .. Len(s) + Len(t)
               PROVE  /\ next'[At(u, h, k)] = At(u, h, k + 1)
                      /\ prev'[At(u, h, k + 1)] = At(u, h, k)
    BY <1>1, <1>2, <1>5 DEF Thread, At
  <2>1. CASE k < Len(s)
    <3>1. k \in 0 .. Len(s) /\ k + 1 \in 0 .. Len(s) /\ k # Len(s)
      BY <1>1, <2>1
    <3> QED
      BY <1>3, <1>9, <3>1
  <2>2. CASE k = Len(s) /\ Len(t) = 0
    <3>1. At(u, h, k) = z /\ At(u, h, k + 1) = h
      BY <1>1, <1>3, <2>2
    <3> QED
      BY <1>8, <2>2, <3>1
  <2>3. CASE k = Len(s) /\ Len(t) # 0
    <3>1. Len(s) \in 0 .. Len(s) /\ 1 \in 1 .. Len(t)
      BY <1>1, <2>3
    <3>2. At(u, h, k) = z /\ At(u, h, k + 1) = b
      BY <1>3, <2>3, <3>1
    <3> QED
      BY <1>8, <2>3, <3>2
  <2>4. CASE k > Len(s) /\ k # Len(s) + Len(t)
    <3>1. PICK j \in 1 .. Len(t) : k = Len(s) + j /\ j # Len(t) /\ j + 1 \in 1 .. Len(t)
      <4>1. k - Len(s) \in 1 .. Len(t) /\ k = Len(s) + (k - Len(s))
        BY <1>1, <2>4
      <4>2. k - Len(s) # Len(t) /\ k - Len(s) + 1 \in 1 .. Len(t)
        BY <1>1, <2>4
      <4> QED
        BY <4>1, <4>2
    <3>2. k + 1 = Len(s) + (j + 1)
      BY <1>1, <3>1
    <3>3. At(u, h, k) = At(t, m, j) /\ At(u, h, k + 1) = At(t, m, j + 1)
      BY <1>3, <3>1, <3>2
    <3> QED
      BY <1>10, <3>1, <3>3
  <2>5. CASE k > Len(s) /\ k = Len(s) + Len(t)
    <3>1. Len(t) \in 1 .. Len(t) /\ Len(t) # 0
      BY <1>1, <2>5
    <3>2. At(u, h, k) = y /\ At(u, h, k + 1) = h
      BY <1>3, <2>5, <3>1
    <3> QED
      BY <1>8, <3>1, <3>2
  <2> QED
    BY <1>1, <2>1, <2>2, <2>3, <2>4, <2>5
<1>12. ASSUME NEW g \in InUse, g # h, g # m PROVE Thread(M[g], g)'
  <2> SUFFICES ASSUME NEW k \in 0 .. Len(L[g])
               PROVE  /\ next'[At(L[g], g, k)] = At(L[g], g, k + 1)
                      /\ prev'[At(L[g], g, k + 1)] = At(L[g], g, k)
    BY <1>5, <1>12 DEF Thread, At
  <2>1. /\ next[At(L[g], g, k)] = At(L[g], g, k + 1)
        /\ prev[At(L[g], g, k + 1)] = At(L[g], g, k)
        /\ At(L[g], g, k) \in linked /\ At(L[g], g, k + 1) \in linked
    BY Step
  <2>2. /\ k \in 0 .. Len(L[g]) + 1 /\ k + 1 \in 0 .. Len(L[g]) + 1
        /\ 0 \in 0 .. Len(s) + 1 /\ Len(s) \in 0 .. Len(s) + 1 /\ h = At(s, h, 0)
        /\ 1 \in 0 .. Len(t) + 1 /\ Len(t) \in 0 .. Len(t) + 1
    <3>1. Len(L[g]) \in Nat
      BY RingBasics
    <3>2. h = At(s, h, 0)
      BY Links
    <3> HIDE DEF s, t
    <3> QED
      BY <1>1, <3>1, <3>2
  <2>3. At(L[g], g, k) # z /\ At(L[g], g, k + 1) # h
    <3> HIDE DEF t
    <3>1. At(L[g], g, k) # z
      BY <1>12, <2>2, OnePlace
    <3>2. At(L[g], g, k + 1) # h
      BY <1>12, <2>2, OnePlace
    <3> QED
      BY <3>1, <3>2
  <2>4. At(L[g], g, k) # y /\ At(L[g], g, k + 1) # b
    BY <1>12, <2>2, OnePlace
  <2> QED
    BY <1>8, <2>1, <2>3, <2>4
<1>13. ASSUME NEW f \in InUse \ {m}, NEW k \in 1 .. Len(M[f])
       PROVE  \E e \in InUse : \E j \in 1 .. Len(L[e]) :
                /\ M[f][k] = L[e][j]
                /\ f = IF e = m THEN h ELSE e
                /\ k = IF e = m THEN Len(s) + j ELSE j
  <2>1. CASE f # h
    BY <1>5, <2>1
  <2>2. CASE f = h
    <3> HIDE DEF s, t, u
    <3>1. k \in 1 .. Len(s) + Len(t) /\ M[f][k] = u[k]
      BY <1>2, <1>5, <2>2
    <3>2. CASE k <= Len(s)
      <4>1. k \in 1 .. Len(s) /\ M[f][k] = s[k]
        BY <1>1, <1>2, <3>1, <3>2
      <4> QED
        BY <2>2, <3>2, <4>1 DEF s
    <3>3. CASE ~(k <= Len(s))
      <4>1. k - Len(s) \in 1 .. Len(t) /\ M[f][k] = t[k - Len(s)] /\ k = Len(s) + (k - Len(s))
        BY <1>1, <1>2, <3>1, <3>3
      <4> QED
        BY <2>2, <4>1 DEF t
    <3> QED
      BY <3>2, <3>3
  <2> QED
    BY <2>1, <2>2
<1>14. Members(M)'
  <2>1. ASSUME NEW c \in Node, c \in linked'
        PROVE  \E f \in InUse \ {m} : \E k \in 1 .. Len(M[f]) : M[f][k] = c
    <3>1. c \in linked
      BY <1>4, <2>1
    <3>2. PICK g \in InUse : \E k \in 1 .. Len(L[g]) : L[g][k] = c
      BY <3>1 DEF Ring, Members
    <3>3. PICK k \in 1 .. Len(L[g]) : L[g][k] = c
      BY <3>2
    <3>4. CASE g # h /\ g # m
      BY <1>5, <3>3, <3>4
    <3>5. CASE g = h
      <4> HIDE DEF s, t, u
      <4>1. k \in 1 .. Len(s) /\ s[k] = c
        BY <3>3, <3>5 DEF s
      <4>2. k \in 1 .. Len(u) /\ u[k] = c
        BY <1>1, <1>2, <4>1
      <4> QED
        BY <1>5, <4>2
    <3>6. CASE g = m
      <4> HIDE DEF s, t, u
      <4>1. k \in 1 .. Len(t) /\ t[k] = c
        BY <3>3, <3>6 DEF t
      <4>2. /\ Len(s) + k \in 1 .. Len(s) + Len(t) /\ ~(Len(s) + k <= Len(s))
            /\ Len(s) + k - Len(s) = k
        BY <1>1, <4>1
      <4>3. Len(s) + k \in 1 .. Len(u) /\ u[Len(s) + k] = c
        BY <1>2, <4>1, <4>2
      <4> QED
        BY <1>5, <4>3
    <3> QED
      BY <3>4, <3>5, <3>6
  <2>2. ASSUME NEW f \in InUse \ {m}, NEW k \in 1 .. Len(M[f]) PROVE M[f][k] \in linked'
    <3>1. PICK e \in InUse : \E j \in 1 .. Len(L[e]) : M[f][k] = L[e][j]
      BY <1>13
    <3> QED
      BY <1>1, <1>4, <3>1, RingBasics
  <2> QED
    BY <1>4, <2>1, <2>2 DEF Members
<1>15. Disjoint(M)'
  <2> SUFFICES ASSUME NEW e \in InUse \ {m}, NEW g \in InUse \ {m},
                      NEW j \in 1 .. Len(M[e]), NEW k \in 1 .. Len(M[g]),
                      M[e][j] = M[g][k]
               PROVE  e = g /\ j = k
    BY <1>4 DEF Disjoint
  <2>1. PICK c \in InUse : \E o \in 1 .. Len(L[c]) :
                /\ M[e][j] = L[c][o]
                /\ e = IF c = m THEN h ELSE c
                /\ j = IF c = m THEN Len(s) + o ELSE o
    BY <1>13
  <2>2. PICK o \in 1 .. Len(L[c]) :
                /\ M[e][j] = L[c][o]
                /\ e = IF c = m THEN h ELSE c
                /\ j = IF c = m THEN Len(s) + o ELSE o
    BY <2>1
  <2>3. PICK d \in InUse : \E r \in 1 .. Len(L[d]) :
                /\ M[g][k] = L[d][r]
                /\ g = IF d = m THEN h ELSE d
                /\ k = IF d = m THEN Len(s) + r ELSE r
    BY <1>13
  <2>4. PICK r \in 1 .. Len(L[d]) :
                /\ M[g][k] = L[d][r]
                /\ g = IF d = m THEN h ELSE d
                /\ k = IF d = m THEN Len(s) + r ELSE r
    BY <2>3
  <2>5. L[c][o] = L[d][r]
    BY <2>2, <2>4
  <2>6. c = d /\ o = r
    BY <2>5 DEF Ring, Disjoint
  <2> QED
    BY <2>2, <2>4, <2>6
<1>16. ASSUME NEW g \in InUse' PROVE Thread(M[g], g)'
  BY <1>4, <1>11, <1>12
<1>17. M \in [InUse' -> Seq(Node)]
  BY <1>4, <1>5
<1>18. Ring(M)'
  BY <1>14, <1>15, <1>16, <1>17 DEF Ring
<1> QED
  BY <1>4, <1>8, <1>18 DEF M

-----------------------------------------------------------------------------
(* Following the links.  Recursion over the natural numbers: what is first *)
(* false somewhere is false there and true before.                         *)
LEMMA LeastNatural ==
  ASSUME NEW T \in SUBSET Nat, T # {}
  PROVE  \E x \in T : \A y \in T : x <= y
<1>1. \A x, y \in Nat : <<y, x>> \notin OpToRel(<, Nat) <=> x <= y
  BY DEF OpToRel
<1>2. PICK x \in T : \A y \in T : <<y, x>> \notin OpToRel(<, Nat)
  BY NatLessThanWellFounded, WFMin
<1> QED
  BY <1>1, <1>2

LEMMA ByInduction ==
  ASSUME NEW T \in SUBSET Nat, 0 \in T, \A k \in Nat : k \in T => k + 1 \in T
  PROVE  T = Nat
<1> SUFFICES ASSUME Nat \ T # {} PROVE FALSE
  OBVIOUS
<1>1. PICK x \in Nat \ T : \A y \in Nat \ T : x <= y
  BY LeastNatural
<1>2. x # 0 /\ x - 1 \in Nat /\ x - 1 + 1 = x /\ ~(x <= x - 1)
  BY <1>1
<1> QED
  BY <1>1, <1>2

(* A function can be applied again and again.                              *)
Iterates(f, g, c) == f[0] = c /\ \A k \in Nat : f[k + 1] = g[f[k]]

LEMMA Iterated ==
  ASSUME NEW S, NEW g \in [S -> S], NEW c \in S
  PROVE  \E f \in [Nat -> S] : Iterates(f, g, c)
<1> DEFINE Path(f, m) == /\ f \in [0 .. m -> S] /\ f[0] = c
                         /\ \A k \in 1 .. m : f[k] = g[f[k - 1]]
           T == {m \in Nat : \E f : Path(f, m)}
<1>1. 0 \in T
  <2>1. Path([k \in 0 .. 0 |-> c], 0)
    OBVIOUS
  <2> QED
    BY <2>1
<1>2. ASSUME NEW m \in Nat, m \in T PROVE m + 1 \in T
  <2>1. PICK f : Path(f, m)
    BY <1>2
  <2> DEFINE e == [k \in 0 .. m + 1 |-> IF k = m + 1 THEN g[f[m]] ELSE f[k]]
  <2>2. e \in [0 .. m + 1 -> S] /\ e[0] = c
    BY <2>1
  <2>3. ASSUME NEW k \in 1 .. m + 1 PROVE e[k] = g[e[k - 1]]
    BY <2>1
  <2>4. Path(e, m + 1)
    BY <2>2, <2>3
  <2> HIDE DEF Path, e
  <2> QED
    BY <2>4
<1>3. T = Nat
  <2> HIDE DEF T
  <2>1. T \in SUBSET Nat
    BY DEF T
  <2> QED
    BY <1>1, <1>2, <2>1, ByInduction
<1>4. ASSUME NEW e, NEW f, NEW a \in Nat, NEW b \in Nat, Path(e, a), Path(f, b), a <= b
      PROVE  e[a] = f[a]
  <2> DEFINE U == {k \in Nat : k <= a => e[k] = f[k]}
  <2>1. 0 \in U
    BY <1>4
  <2>2. ASSUME NEW k \in Nat, k \in U PROVE k + 1 \in U
    <3> SUFFICES ASSUME k + 1 <= a PROVE e[k + 1] = f[k + 1]
      OBVIOUS
    <3>1. k + 1 \in 1 .. a /\ k + 1 \in 1 .. b /\ k + 1 - 1 = k /\ k <= a
      BY <1>4
    <3>2. e[k + 1] = g[e[k]] /\ f[k + 1] = g[f[k]] /\ e[k] = f[k]
      BY <1>4, <2>2, <3>1
    <3> QED
      BY <3>2
  <2>3. U = Nat
    <3> HIDE DEF U
    <3>1. U \in SUBSET Nat
      BY DEF U
    <3> QED
      BY <2>1, <2>2, <3>1, ByInduction
  <2> QED
    BY <2>3
<1> DEFINE p_(m) == CHOOSE f : Path(f, m)
           F == [m \in Nat |-> p_(m)[m]]
<1>5. \A m \in Nat : Path(p_(m), m)
  <2> HIDE DEF Path
  <2> QED
    BY <1>3
<1> HIDE DEF p_
<1>6. F \in [Nat -> S] /\ F[0] = c
  BY <1>5
<1>7. ASSUME NEW k \in Nat PROVE F[k + 1] = g[F[k]]
  <2>1. Path(p_(k), k) /\ Path(p_(k + 1), k + 1) /\ k <= k + 1
    BY <1>5
  <2>2. p_(k)[k] = p_(k + 1)[k]
    <3> HIDE DEF Path
    <3> QED
      BY <1>4, <2>1
  <2>3. p_(k + 1)[k + 1] = g[p_(k + 1)[k]]
    <3>1. k + 1 \in 1 .. k + 1 /\ k + 1 - 1 = k
      OBVIOUS
    <3> QED
      BY <2>1, <3>1
  <2> QED
    BY <2>2, <2>3
<1> HIDE DEF F
<1> QED
  BY <1>6, <1>7 DEF Iterates

LEMMA HopIs ==
  ASSUME LinkType, NEW h \in Cell
  PROVE  /\ Hop(h) \in [Nat -> Cell \cup {Null}] /\ Hop(h)[0] = h
         /\ \A k \in Nat : Hop(h)[k + 1] = IF Hop(h)[k] = Null THEN Null
                                           ELSE next[Hop(h)[k]]
<1> DEFINE S == Cell \cup {Null}
           g == [x \in S |-> IF x = Null THEN Null ELSE next[x]]
<1>1. g \in [S -> S]
  BY DEF LinkType
<1> HIDE DEF g
<1>2. PICK f \in [Nat -> S] : Iterates(f, g, h)
  <2>1. h \in S
    OBVIOUS
  <2> HIDE DEF S
  <2> QED
    BY <1>1, <2>1, Iterated
<1> DEFINE R(e) == [k \in Nat |-> IF k = 0 THEN h ELSE IF e[k - 1] = Null THEN Null
                                  ELSE next[e[k - 1]]]
<1>3. f = R(f)
  <2>1. ASSUME NEW k \in Nat PROVE f[k] = R(f)[k]
    <3>1. CASE k = 0
      BY <1>2, <3>1 DEF Iterates
    <3>2. CASE k # 0
      <4>1. k - 1 \in Nat /\ k - 1 + 1 = k
        BY <3>2
      <4>2. f[k] = g[f[k - 1]] /\ f[k - 1] \in S
        BY <1>2, <4>1 DEF Iterates
      <4> QED
        BY <3>2, <4>2 DEF g
    <3> QED
      BY <3>1, <3>2
  <2> QED
    BY <2>1
<1>4. Hop(h) = R(Hop(h))
  BY <1>3 DEF Hop
<1> DEFINE H == Hop(h)
<1> HIDE DEF H
<1>5. H = R(H)
  BY <1>4 DEF H
<1>6. H[0] = h /\ \A k \in Nat : H[k + 1] = IF H[k] = Null THEN Null ELSE next[H[k]]
  <2>1. \A k \in Nat : k + 1 \in Nat /\ k + 1 # 0 /\ k + 1 - 1 = k
    OBVIOUS
  <2> QED
    BY <1>5, <2>1
<1>7. H \in [Nat -> S]
  <2> DEFINE U == {k \in Nat : H[k] \in S}
  <2>1. 0 \in U
    BY <1>6
  <2>2. ASSUME NEW k \in Nat, k \in U PROVE k + 1 \in U
    <3>1. H[k] \in S /\ (H[k] # Null => next[H[k]] \in S)
      BY <2>2 DEF LinkType
    <3>2. H[k + 1] = IF H[k] = Null THEN Null ELSE next[H[k]]
      BY <1>6
    <3>3. H[k + 1] \in S
      BY <3>1, <3>2
    <3> QED
      BY <3>3
  <2>3. U = Nat
    <3> HIDE DEF U
    <3>1. U \in SUBSET Nat
      BY DEF U
    <3> QED
      BY <2>1, <2>2, <3>1, ByInduction
  <2> QED
    BY <1>5, <2>3
<1> QED
  BY <1>6, <1>7 DEF H

LEMMA CellsFinite == IsFiniteSet(Cell) /\ Cardinality(Cell) \in Nat
<1>1. IsFiniteSet(Cell)
  BY QueueAssumption, FS_Union DEF Cell
<1> QED
  BY <1>1, FS_CardinalityType

(* A ring is no longer than there are cells, so that whoever walks along   *)
(* it comes to the head in as many steps as there are places.              *)
LEMMA RoomForAll ==
  ASSUME NEW L, Ring(L), NEW h \in InUse
  PROVE  Cardinality(Cell) \in Nat /\ Len(L[h]) + 1 <= Cardinality(Cell)
<1> DEFINE P == 0 .. Len(L[h])
           f == [k \in P |-> At(L[h], h, k)]
<1>1. Len(L[h]) \in Nat
  BY RingBasics
<1>2. IsFiniteSet(Cell) /\ Cardinality(Cell) \in Nat
  BY CellsFinite
<1>3. IsFiniteSet(P) /\ Cardinality(P) = Len(L[h]) + 1
  <2>1. ASSUME NEW m \in Nat PROVE IsFiniteSet(0 .. m) /\ Cardinality(0 .. m) = m + 1
    BY FS_Interval
  <2> QED
    BY <1>1, <2>1
<1>4. f \in [P -> Cell]
  BY Step
<1>5. ASSUME NEW j \in P, NEW k \in P, f[j] = f[k] PROVE j = k
  BY <1>5, OneTurn
<1>6. ~(Cardinality(Cell) < Cardinality(P))
  <2> HIDE DEF f, P
  <2> QED
    BY <1>2, <1>3, <1>4, <1>5, FS_PigeonHole
<1> QED
  BY <1>1, <1>2, <1>3, <1>6

LEMMA HopAt ==
  ASSUME LinkType, NEW L, Ring(L), NEW h \in InUse
  PROVE  \A k \in 0 .. Len(L[h]) + 1 : Hop(h)[k] = At(L[h], h, k)
<1> DEFINE H == Hop(h)
           T == {k \in Nat : k <= Len(L[h]) + 1 => H[k] = At(L[h], h, k)}
<1>1. Len(L[h]) \in Nat /\ h \in Cell /\ Null \notin Cell
  BY RingBasics, QueueAssumption DEF Cell
<1>2. H[0] = h /\ \A k \in Nat : H[k + 1] = IF H[k] = Null THEN Null ELSE next[H[k]]
  BY <1>1, HopIs
<1> HIDE DEF H
<1>3. 0 \in T
  BY <1>1, <1>2 DEF At
<1>4. ASSUME NEW k \in Nat, k \in T PROVE k + 1 \in T
  <2> SUFFICES ASSUME k + 1 <= Len(L[h]) + 1 PROVE H[k + 1] = At(L[h], h, k + 1)
    OBVIOUS
  <2>1. k \in 0 .. Len(L[h]) /\ H[k] = At(L[h], h, k)
    BY <1>1, <1>4
  <2>2. next[At(L[h], h, k)] = At(L[h], h, k + 1) /\ At(L[h], h, k) \in Cell
    BY <2>1, Step
  <2> QED
    BY <1>1, <1>2, <2>1, <2>2
<1>5. T = Nat
  <2> HIDE DEF T
  <2>1. T \in SUBSET Nat
    BY DEF T
  <2> QED
    BY <1>3, <1>4, <2>1, ByInduction
<1> QED
  BY <1>1, <1>5 DEF H

LEMMA MinIs ==
  ASSUME NEW T \in SUBSET Nat, NEW m \in T, \A k \in T : m <= k
  PROVE  Min(T) = m
<1>1. \A x \in T : (\A y \in T : x <= y) => x = m
  OBVIOUS
<1> DEFINE c == CHOOSE x \in T : \A y \in T : x <= y
<1>2. c \in T /\ \A y \in T : c <= y
  OBVIOUS
<1>3. Min(T) = c
  BY DEF Min
<1> HIDE DEF c
<1> QED
  BY <1>1, <1>2, <1>3

(* The elements that following next finds are those of the ring.           *)
LEMMA ElementsAre ==
  ASSUME LinkType, NEW L, Ring(L), NEW h \in InUse
  PROVE  Elements(h) = L[h]
<1> DEFINE s == L[h]
           N == Cardinality(Cell)
           H == Hop(h)
           T == {k \in 1 .. N : H[k] \in {h, Null}} \cup {N}
<1>1. /\ s \in Seq(Node) /\ Len(s) \in Nat /\ h \notin Node /\ Null \notin Cell
      /\ \A k \in 1 .. Len(s) : s[k] \in Node
      /\ N \in Nat /\ Len(s) + 1 <= N
  BY RingBasics, RoomForAll, QueueAssumption
<1>2. \A k \in 0 .. Len(s) + 1 : H[k] = At(s, h, k)
  BY HopAt
<1>3. Elements(h) = [k \in 1 .. Min(T) - 1 |-> H[k]]
  BY DEF Elements
<1>4. s = [k \in 1 .. Len(s) |-> s[k]]
  <2> HIDE DEF s
  <2> QED
    BY <1>1
<1> HIDE DEF H, N, s
<1>5. Min(T) = Len(s) + 1
  <2>1. Len(s) + 1 \in T
    BY <1>1, <1>2 DEF At
  <2>2. ASSUME NEW k \in T PROVE Len(s) + 1 <= k
    <3> SUFFICES ASSUME k \in 1 .. Len(s) PROVE FALSE
      BY <1>1
    <3>1. H[k] \in Node /\ k # N
      BY <1>1, <1>2 DEF At
    <3> QED
      BY <1>1, <3>1 DEF Cell
  <2>3. T \in SUBSET Nat
    BY <1>1
  <2> HIDE DEF T
  <2> QED
    BY <2>1, <2>2, <2>3, MinIs
<1> HIDE DEF T
<1>6. Elements(h) = [k \in 1 .. Len(s) |-> H[k]]
  <2>1. Len(s) + 1 - 1 = Len(s)
    BY <1>1
  <2> QED
    BY <1>3, <1>5, <2>1
<1>7. \A k \in 1 .. Len(s) : H[k] = s[k]
  BY <1>1, <1>2 DEF At
<1>8. Elements(h) = s
  BY <1>4, <1>6, <1>7
<1> QED
  BY <1>8 DEF s

LEMMA ListsAre ==
  ASSUME LinkType, NEW L, Ring(L)
  PROVE  Lists = L
<1>1. L \in [InUse -> Seq(Node)]
  BY DEF Ring
<1> QED
  BY <1>1, ElementsAre DEF Lists

(* Queue_middle's slower pointer has made half the steps.                  *)
LEMMA MiddleIs ==
  ASSUME LinkType, NEW L, Ring(L), NEW h \in InUse
  PROVE  IF Queue_empty(h) THEN Elements(h) = <<>>
         ELSE Queue_middle(h) = Elements(h)[(Len(Elements(h)) \div 2) + 1]
<1> DEFINE s == L[h]
           N == Cardinality(Cell)
           H == Hop(h)
           z == prev[h]
           T == {k \in 1 .. N : Reaches(H, k, z)}
<1>1. /\ s \in Seq(Node) /\ Len(s) \in Nat /\ h \notin Node
      /\ \A k \in 1 .. Len(s) : s[k] \in Node
      /\ N \in Nat /\ Len(s) + 1 <= N
  BY RingBasics, RoomForAll
<1>2. \A k \in 0 .. Len(s) + 1 : H[k] = At(s, h, k)
  BY HopAt
<1>3. Elements(h) = s
  BY ElementsAre
<1>4. z = At(s, h, Len(s))
  BY Links
<1>5. \A j, k \in 0 .. Len(s) : At(s, h, j) = At(s, h, k) => j = k
  BY OneTurn
<1>6. Queue_middle(h) = IF H[1] = z THEN H[1] ELSE H[1 + Min(T)]
  BY DEF Queue_middle
<1>7. Queue_empty(h) <=> h = z
  BY DEF Queue_empty
<1> HIDE DEF H, N, s, z
<1>8. CASE Len(s) = 0
  <2>1. s = <<>>
    BY <1>1, <1>8
  <2>2. h = z
    BY <1>1, <1>4, <1>8 DEF At
  <2> QED
    BY <1>3, <1>7, <2>1, <2>2
<1>9. CASE Len(s) # 0
  <2>1. z = s[Len(s)] /\ z # h
    BY <1>1, <1>4, <1>9 DEF At
  <2>2. Queue_middle(h) = s[(Len(s) \div 2) + 1]
    <3>1. CASE Len(s) = 1
      <4>1. H[1] = s[1] /\ (Len(s) \div 2) + 1 = 1
        BY <1>1, <1>2, <3>1 DEF At
      <4> QED
        BY <1>6, <2>1, <3>1, <4>1
    <3>2. CASE Len(s) > 1
      <4> DEFINE m == Len(s) \div 2
      <4>1. /\ m \in Nat /\ m >= 1 /\ m + 1 <= Len(s) /\ m <= N
            /\ 2 * m = Len(s) \/ 2 * m + 1 = Len(s)
        BY <1>1, <3>2
      <4> HIDE DEF m
      <4>2. H[1] # z
        <5>1. 1 \in 0 .. Len(s) /\ 1 \in 0 .. Len(s) + 1 /\ Len(s) \in 0 .. Len(s) /\ 1 # Len(s)
          BY <1>1, <3>2
        <5> QED
          BY <1>2, <1>4, <1>5, <5>1
      <4>3. Min(T) = m
        <5>1. m \in T
          <6>1. 2 * m \in 0 .. Len(s) + 1 /\ 2 * m + 1 \in 0 .. Len(s) + 1
            BY <1>1, <4>1
          <6>2. z = H[2 * m] \/ z = H[2 * m + 1]
            BY <1>2, <1>4, <4>1, <6>1
          <6> QED
            BY <1>1, <4>1, <6>2 DEF Reaches
        <5>2. ASSUME NEW k \in T PROVE m <= k
          <6> SUFFICES ASSUME k < m PROVE FALSE
            BY <1>1, <4>1
          <6>1. /\ 2 * k \in 0 .. Len(s) /\ 2 * k + 1 \in 0 .. Len(s)
                /\ 2 * k # Len(s) /\ 2 * k + 1 # Len(s) /\ Len(s) \in 0 .. Len(s)
                /\ 2 * k \in 0 .. Len(s) + 1 /\ 2 * k + 1 \in 0 .. Len(s) + 1
            BY <1>1, <4>1
          <6>2. z # H[2 * k] /\ z # H[2 * k + 1]
            BY <1>2, <1>4, <1>5, <6>1
          <6> QED
            BY <6>2 DEF Reaches
        <5>3. T \in SUBSET Nat
          BY <1>1
        <5> HIDE DEF T
        <5> QED
          BY <5>1, <5>2, <5>3, MinIs
      <4>4. 1 + m \in 1 .. Len(s) /\ 1 + m \in 0 .. Len(s) + 1 /\ 1 + m = m + 1
        BY <1>1, <4>1
      <4>5. H[1 + m] = s[m + 1]
        BY <1>2, <4>4 DEF At
      <4> HIDE DEF T
      <4> QED
        BY <1>6, <4>2, <4>3, <4>5 DEF m
    <3>3. Len(s) = 1 \/ Len(s) > 1
      BY <1>1, <1>9
    <3> QED
      BY <3>1, <3>2, <3>3
  <2> QED
    BY <1>3, <1>7, <2>1, <2>2
<1> QED
  BY <1>8, <1>9

-----------------------------------------------------------------------------
(* The macros, as what they do to Lists.  A queue is the same after its    *)
(* links change as the ring that is then there.                            *)
Rings == LinkType /\ Ring(Lists)

LEMMA RingIsLists == LinkType => \A L : Ring(L) => Rings /\ Lists = L
BY ListsAre DEF Rings

LEMMA RingNext ==
  ASSUME LinkType', NEW M, Ring(M)' PROVE Rings' /\ Lists' = M
<1>1. (LinkType => \A L : Ring(L) => Rings /\ Lists = L)'
  BY RingIsLists, PTL
<1> QED
  BY <1>1

LEMMA DoInit ==
  ASSUME Rings, NEW m \in Sentinel \ linked, Queue_init(m)
  PROVE  Rings' /\ InUse' = InUse \cup {m} /\ Lists' = Opened(Lists, m)
<1>1. PICK L : L = Lists
  OBVIOUS
<1>2. LinkType /\ Ring(L)
  BY <1>1 DEF Rings
<1>3. LinkType' /\ InUse' = InUse \cup {m} /\ Ring(Opened(L, m))'
  BY <1>2, InitKeeps
<1>4. Rings' /\ Lists' = Opened(L, m)
  BY <1>3, RingNext
<1> QED
  BY <1>1, <1>3, <1>4

LEMMA DoAfter ==
  ASSUME Rings, NEW h \in InUse, NEW k \in 0 .. Len(Lists[h]), NEW x \in Node \ linked,
         Queue_insert_after(At(Lists[h], h, k), x)
  PROVE  /\ Rings' /\ InUse' = InUse
         /\ Lists' = [Lists EXCEPT ![h] = InsertAt(Lists[h], k + 1, x)]
<1>1. PICK L : L = Lists
  OBVIOUS
<1>2. LinkType /\ Ring(L) /\ k \in 0 .. Len(L[h])
  BY <1>1 DEF Rings
<1>3. Between(At(L[h], h, k), At(L[h], h, k + 1), x)
  <2>1. next[At(L[h], h, k)] = At(L[h], h, k + 1)
    BY <1>2, Step
  <2> QED
    BY <1>1, <2>1 DEF Between, Queue_insert_after, Queue_insert_head
<1>4. k + 1 \in 1 .. Len(L[h]) + 1 /\ k + 1 - 1 = k
  BY <1>2, RingBasics
<1>5. LinkType' /\ InUse' = InUse /\ Ring([L EXCEPT ![h] = InsertAt(L[h], k + 1, x)])'
  BY <1>2, <1>3, <1>4, InsertKeeps
<1>6. Rings' /\ Lists' = [L EXCEPT ![h] = InsertAt(L[h], k + 1, x)]
  BY <1>5, RingNext
<1> QED
  BY <1>1, <1>5, <1>6

LEMMA DoTail ==
  ASSUME Rings, NEW h \in InUse, NEW x \in Node \ linked, Queue_insert_tail(h, x)
  PROVE  /\ Rings' /\ InUse' = InUse
         /\ Lists' = [Lists EXCEPT ![h] = InsertAt(Lists[h], Len(Lists[h]) + 1, x)]
<1>1. PICK L : L = Lists
  OBVIOUS
<1>2. LinkType /\ Ring(L)
  BY <1>1 DEF Rings
<1> DEFINE k == Len(L[h]) + 1
           z == At(L[h], h, k - 1)
<1>3. k \in 1 .. Len(L[h]) + 1 /\ k - 1 = Len(L[h])
  BY <1>2, RingBasics
<1>4. Between(z, At(L[h], h, k), x)
  <2>1. At(L[h], h, k) = h /\ prev[h] = z
    BY <1>2, <1>3, Links
  <2>2. x # h /\ x \in Cell /\ h \in Cell /\ z \in linked /\ z \in Cell
    <3>1. Len(L[h]) \in 0 .. Len(L[h]) + 1
      BY <1>2, RingBasics
    <3> QED
      BY <1>2, <1>3, <3>1, Links, RingBasics DEF Cell
  <2> HIDE DEF k, z
  <2> QED
    BY <1>2, <2>1, <2>2 DEF Between, Queue_insert_tail, LinkType
<1>5. LinkType' /\ InUse' = InUse /\ Ring([L EXCEPT ![h] = InsertAt(L[h], k, x)])'
  <2> HIDE DEF k
  <2> QED
    BY <1>2, <1>3, <1>4, InsertKeeps DEF z
<1>6. Rings' /\ Lists' = [L EXCEPT ![h] = InsertAt(L[h], k, x)]
  <2> HIDE DEF k
  <2> QED
    BY <1>5, RingNext
<1> QED
  BY <1>1, <1>5, <1>6

LEMMA DoRemove ==
  ASSUME Rings, NEW h \in InUse, NEW k \in 1 .. Len(Lists[h]), Queue_remove(Lists[h][k])
  PROVE  /\ Rings' /\ InUse' = InUse
         /\ Lists' = [Lists EXCEPT ![h] = RemoveAt(Lists[h], k)]
<1>1. PICK L : L = Lists
  OBVIOUS
<1>2. LinkType /\ Ring(L) /\ k \in 1 .. Len(L[h]) /\ Queue_remove(L[h][k])
  BY <1>1 DEF Rings
<1>3. LinkType' /\ InUse' = InUse /\ Ring([L EXCEPT ![h] = RemoveAt(L[h], k)])'
  BY <1>2, RemoveKeeps
<1>4. Rings' /\ Lists' = [L EXCEPT ![h] = RemoveAt(L[h], k)]
  BY <1>3, RingNext
<1> QED
  BY <1>1, <1>3, <1>4

LEMMA DoSplit ==
  ASSUME Rings, NEW h \in InUse, NEW k \in 1 .. Len(Lists[h]), NEW m \in Sentinel \ linked,
         Queue_split(h, Lists[h][k], m)
  PROVE  /\ Rings' /\ InUse' = InUse \cup {m}
         /\ Lists' = Divided(Lists, h, k, m)
<1>1. PICK L : L = Lists
  OBVIOUS
<1>2. LinkType /\ Ring(L) /\ k \in 1 .. Len(L[h]) /\ Queue_split(h, L[h][k], m)
  BY <1>1 DEF Rings
<1>3. LinkType' /\ InUse' = InUse \cup {m} /\ Ring(Divided(L, h, k, m))'
  BY <1>2, SplitKeeps
<1>4. Rings' /\ Lists' = Divided(L, h, k, m)
  BY <1>3, RingNext
<1> QED
  BY <1>1, <1>3, <1>4

LEMMA DoAdd ==
  ASSUME Rings, NEW h \in InUse, NEW m \in InUse, h # m, Queue_add(h, m)
  PROVE  Rings' /\ InUse' = InUse \ {m} /\ Lists' = Joined(Lists, h, m)
<1>1. PICK L : L = Lists
  OBVIOUS
<1>2. LinkType /\ Ring(L)
  BY <1>1 DEF Rings
<1>3. LinkType' /\ InUse' = InUse \ {m} /\ Ring(Joined(L, h, m))'
  BY <1>2, AddKeeps
<1>4. Rings' /\ Lists' = Joined(L, h, m)
  BY <1>3, RingNext
<1> QED
  BY <1>1, <1>3, <1>4

(* The element that a macro is called with is somewhere in the lists.      *)
LEMMA Somewhere ==
  ASSUME Rings, NEW x \in Node \cap linked
  PROVE  \E h \in InUse : \E k \in 1 .. Len(Lists[h]) : x = Lists[h][k]
BY DEF Rings, Ring, Members

(* Who comes from x to h along next is in the queue of h.                  *)
LEMMA LeadsToIs ==
  ASSUME Rings, NEW h \in InUse, NEW x \in Node \cap linked, LeadsTo(x, h)
  PROVE  \E k \in 1 .. Len(Lists[h]) : x = Lists[h][k]
<1>1. PICK g \in InUse : \E k \in 1 .. Len(Lists[g]) : x = Lists[g][k]
  BY Somewhere
<1>2. PICK L : L = Lists
  OBVIOUS
<1>3. LinkType /\ Ring(L) /\ Len(L[g]) \in Nat
  BY <1>2, RingBasics DEF Rings
<1> DEFINE S == {At(L[g], g, k) : k \in 0 .. Len(L[g])}
<1>4. x \in S
  <2>1. PICK k \in 1 .. Len(L[g]) : x = L[g][k]
    BY <1>1, <1>2
  <2>2. k \in 0 .. Len(L[g]) /\ x = At(L[g], g, k)
    BY <1>3, <2>1 DEF At
  <2> QED
    BY <2>2
<1>5. S \in SUBSET linked
  BY <1>3, Step
<1>6. ASSUME NEW c \in S PROVE next[c] \in S
  <2>1. PICK k \in 0 .. Len(L[g]) : c = At(L[g], g, k)
    OBVIOUS
  <2>2. next[c] = At(L[g], g, k + 1)
    BY <1>3, <2>1, Step
  <2>3. CASE k = Len(L[g])
    <3>1. At(L[g], g, k + 1) = At(L[g], g, 0) /\ 0 \in 0 .. Len(L[g])
      BY <1>3, <2>3 DEF At
    <3> QED
      BY <2>2, <3>1
  <2>4. CASE k # Len(L[g])
    <3>1. k + 1 \in 0 .. Len(L[g])
      BY <1>3, <2>4
    <3> QED
      BY <2>2, <3>1
  <2> QED
    BY <2>3, <2>4
<1>7. h \in S
  <2> HIDE DEF S
  <2> QED
    BY <1>4, <1>5, <1>6 DEF LeadsTo
<1>8. PICK k \in 0 .. Len(L[g]) : h = At(L[g], g, k)
  BY <1>7
<1>9. h = g
  <2>1. h = At(L[h], h, 0) /\ 0 \in 0 .. Len(L[h]) + 1 /\ k \in 0 .. Len(L[g]) + 1
    BY <1>3, RingBasics, Links
  <2> QED
    BY <1>3, <1>8, <2>1, OnePlace
<1> QED
  BY <1>1, <1>9

-----------------------------------------------------------------------------
(* The macros, as the operations of QueueList.                             *)
LEMMA Domain ==
  ASSUME Rings
  PROVE  /\ Lists \in [InUse -> Seq(Node)] /\ DOMAIN Lists = InUse
         /\ \A h \in InUse :
              /\ Lists[h] \in Seq(Node) /\ Len(Lists[h]) \in Nat
              /\ DOMAIN Lists[h] = 1 .. Len(Lists[h])
              /\ \A k \in 1 .. Len(Lists[h]) : Lists[h][k] \in Node /\ Lists[h][k] \in linked
         /\ QL!Used = InUse
         /\ InUse \subseteq Sentinel /\ InUse \subseteq linked
<1>1. Lists \in [InUse -> Seq(Node)] /\ DOMAIN Lists = InUse
  BY DEF Rings, Ring
<1>2. \A h \in InUse : Lists[h] \in Seq(Node) /\ DOMAIN Lists[h] = 1 .. Len(Lists[h])
  BY <1>1
<1>3. ASSUME NEW h \in InUse
      PROVE  /\ Len(Lists[h]) \in Nat
             /\ \A k \in 1 .. Len(Lists[h]) : Lists[h][k] \in Node /\ Lists[h][k] \in linked
  <2>1. PICK L : L = Lists
    OBVIOUS
  <2> QED
    BY <2>1, RingBasics DEF Rings
<1> QED
  BY <1>1, <1>2, <1>3 DEF QL!Used, InUse

LEMMA WhereIs ==
  ASSUME Rings, NEW h \in InUse, NEW k \in 1 .. Len(Lists[h])
  PROVE  QL!Where(Lists[h][k]) = h /\ QL!IndexOf(Lists[h][k]) = k
<1> DEFINE x == Lists[h][k]
           w == QL!Where(x)
           i == QL!IndexOf(x)
<1>1. \A g \in InUse : \A j \in 1 .. Len(Lists[g]) : Lists[g][j] = x => g = h /\ j = k
  BY DEF Rings, Ring, Disjoint
<1>2. \A g \in InUse : QL!Contains(Lists[g], x) <=> g = h
  BY <1>1 DEF QL!Contains
<1>3. w = CHOOSE g \in InUse : QL!Contains(Lists[g], x)
  BY Domain DEF QL!Where
<1>4. w = h
  BY <1>2, <1>3
<1>5. i = CHOOSE j \in DOMAIN Lists[w] : Lists[w][j] = x
  BY DEF QL!IndexOf
<1>6. DOMAIN Lists[w] = 1 .. Len(Lists[h]) /\ Lists[w] = Lists[h]
  BY <1>4, Domain
<1>7. i = k
  BY <1>1, <1>5, <1>6
<1> QED
  BY <1>4, <1>7

LEMMA InsertAtHead ==
  ASSUME NEW s \in Seq(Node), NEW x \in Node
  PROVE  InsertAt(s, 1, x) = <<x>> \o s
<1>1. Len(s) \in Nat /\ \A k \in 1 .. Len(s) : s[k] \in Node
  BY LenProperties
<1>2. <<x>> \in Seq(Node) /\ Len(<<x>>) = 1 /\ <<x>>[1] = x
  OBVIOUS
<1> DEFINE m == <<x>>
           t == m \o s
           u == InsertAt(s, 1, x)
<1> HIDE DEF m
<1>3. /\ t \in Seq(Node) /\ Len(t) = Len(m) + Len(s)
      /\ \A k \in 1 .. Len(m) + Len(s) : t[k] = IF k <= Len(m) THEN m[k] ELSE s[k - Len(m)]
  BY <1>2, ConcatProperties DEF m
<1>4. /\ u \in Seq(Node) /\ Len(u) = Len(s) + 1
      /\ \A k \in 1 .. Len(s) + 1 : u[k] = IF k < 1 THEN s[k]
                                           ELSE IF k = 1 THEN x ELSE s[k - 1]
  BY <1>1, InsertAtIs
<1>5. Len(m) = 1 /\ m[1] = x
  BY <1>2 DEF m
<1> HIDE DEF t, u
<1>6. Len(t) = Len(u) /\ \A k \in 1 .. Len(u) : t[k] = u[k]
  <2>1. Len(t) = Len(u)
    BY <1>1, <1>3, <1>4, <1>5
  <2>2. ASSUME NEW k \in 1 .. Len(u) PROVE t[k] = u[k]
    <3>1. /\ k \in 1 .. Len(m) + Len(s) /\ k \in 1 .. Len(s) + 1 /\ ~(k < 1)
          /\ k <= Len(m) <=> k = 1
          /\ k = 1 => k \in 1 .. 1
          /\ k - Len(m) = k - 1
      BY <1>1, <1>4, <1>5
    <3>2. t[k] = IF k = 1 THEN x ELSE s[k - 1]
      BY <1>3, <1>5, <3>1
    <3> QED
      BY <1>4, <3>1, <3>2
  <2> QED
    BY <2>1, <2>2
<1>7. t = u
  BY <1>3, <1>4, <1>6, SeqEqual
<1> QED
  BY <1>7 DEF t, u, m

LEMMA InsertAtTail ==
  ASSUME NEW s \in Seq(Node), NEW x \in Node
  PROVE  InsertAt(s, Len(s) + 1, x) = Append(s, x)
<1> DEFINE t == Append(s, x)
           u == InsertAt(s, Len(s) + 1, x)
<1>1. Len(s) \in Nat /\ Len(s) + 1 \in Nat /\ 1 <= Len(s) + 1 /\ Len(s) + 1 <= Len(s) + 1
  BY LenProperties
<1>2. /\ t \in Seq(Node) /\ Len(t) = Len(s) + 1
      /\ \A k \in 1 .. Len(s) : t[k] = s[k]
      /\ t[Len(s) + 1] = x
  BY AppendProperties
<1>3. /\ u \in Seq(Node) /\ Len(u) = Len(s) + 1
      /\ \A k \in 1 .. Len(s) + 1 : u[k] = IF k < Len(s) + 1 THEN s[k]
                                           ELSE IF k = Len(s) + 1 THEN x ELSE s[k - 1]
  BY <1>1, InsertAtIs
<1> HIDE DEF t, u
<1>4. Len(t) = Len(u) /\ \A k \in 1 .. Len(u) : t[k] = u[k]
  BY <1>1, <1>2, <1>3
<1>5. t = u
  BY <1>2, <1>3, <1>4, SeqEqual
<1> QED
  BY <1>5 DEF t, u

LEMMA SameOperators ==
  /\ \A s, i, x : QL!InsertAt(s, i, x) = InsertAt(s, i, x)
  /\ \A s, i : QL!RemoveAt(s, i) = RemoveAt(s, i)
BY DEF QL!InsertAt, QL!RemoveAt, InsertAt, RemoveAt

(* One head of the lists is changed.                                       *)
LEMMA ChangeOne ==
  ASSUME Rings, NEW h \in InUse, NEW t, Lists' = [Lists EXCEPT ![h] = t]
  PROVE  QL!Change([k \in {h} |-> t], {})
<1>1. PICK L : L = Lists
  OBVIOUS
<1>2. L \in [InUse -> Seq(Node)]
  BY <1>1, Domain
<1> DEFINE c == [k \in {h} |-> t]
<1>3. [L EXCEPT ![h] = t] = [g \in (DOMAIN L \cup DOMAIN c) \ {} |->
                               IF g \in DOMAIN c THEN c[g] ELSE L[g]]
  BY <1>2
<1> QED
  BY <1>1, <1>3 DEF QL!Change

LEMMA IsNew ==
  ASSUME Rings, NEW m \in Sentinel \ linked, Queue_init(m)
  PROVE  QL!New(m)
<1>1. PICK L : L = Lists
  OBVIOUS
<1>2. L \in [InUse -> Seq(Node)]
  BY <1>1, Domain
<1>3. Lists' = Opened(L, m)
  BY <1>1, DoInit
<1> DEFINE c == [k \in {m} |-> <<>>]
<1>4. Opened(L, m) = [g \in (DOMAIN L \cup DOMAIN c) \ {} |->
                        IF g \in DOMAIN c THEN c[g] ELSE L[g]]
  BY <1>2 DEF Opened
<1> QED
  BY <1>1, <1>3, <1>4 DEF QL!New, QL!Change

LEMMA IsInsertFirst ==
  ASSUME Rings, NEW h \in InUse, NEW x \in Node \ linked, Queue_insert_head(h, x)
  PROVE  QL!InsertFirst(h, x)
<1>1. Lists[h] \in Seq(Node) /\ 0 \in 0 .. Len(Lists[h]) /\ 0 + 1 = 1
  BY Domain
<1>2. h = At(Lists[h], h, 0)
  BY <1>1 DEF At
<1>3. Lists' = [Lists EXCEPT ![h] = InsertAt(Lists[h], 1, x)]
  BY <1>1, <1>2, DoAfter DEF Queue_insert_after
<1>4. Lists' = [Lists EXCEPT ![h] = <<x>> \o Lists[h]]
  BY <1>1, <1>3, InsertAtHead
<1>5. QL!Change([k \in {h} |-> <<x>> \o Lists[h]], {})
  BY <1>4, ChangeOne
<1> QED
  BY <1>5 DEF QL!InsertFirst

LEMMA IsInsertLast ==
  ASSUME Rings, NEW h \in InUse, NEW x \in Node \ linked, Queue_insert_tail(h, x)
  PROVE  QL!InsertLast(h, x)
<1>1. Lists[h] \in Seq(Node)
  BY Domain
<1>2. Lists' = [Lists EXCEPT ![h] = InsertAt(Lists[h], Len(Lists[h]) + 1, x)]
  BY DoTail
<1>3. Lists' = [Lists EXCEPT ![h] = Append(Lists[h], x)]
  BY <1>1, <1>2, InsertAtTail
<1>4. QL!Change([k \in {h} |-> Append(Lists[h], x)], {})
  BY <1>3, ChangeOne
<1> QED
  BY <1>4 DEF QL!InsertLast

LEMMA IsInsertAfter ==
  ASSUME Rings, NEW y \in Node \cap linked, NEW x \in Node \ linked,
         Queue_insert_after(y, x)
  PROVE  QL!InsertAfter(y, x)
<1>1. PICK h \in InUse : \E k \in 1 .. Len(Lists[h]) : y = Lists[h][k]
  BY Somewhere
<1>2. PICK k \in 1 .. Len(Lists[h]) : y = Lists[h][k]
  BY <1>1
<1>3. k \in 0 .. Len(Lists[h]) /\ y = At(Lists[h], h, k)
  BY <1>2, Domain DEF At
<1>4. Lists' = [Lists EXCEPT ![h] = InsertAt(Lists[h], k + 1, x)]
  BY <1>3, DoAfter
<1>5. QL!Where(y) = h /\ QL!IndexOf(y) = k
  BY <1>2, WhereIs
<1>6. QL!Change([g \in {h} |-> InsertAt(Lists[h], k + 1, x)], {})
  BY <1>4, ChangeOne
<1>7. [g \in {QL!Where(y)} |-> QL!InsertAt(Lists[g], QL!IndexOf(y) + 1, x)]
        = [g \in {h} |-> InsertAt(Lists[h], k + 1, x)]
  BY <1>5, SameOperators
<1> QED
  BY <1>6, <1>7 DEF QL!InsertAfter

LEMMA IsDelete ==
  ASSUME Rings, NEW x \in Node \cap linked, Queue_remove(x)
  PROVE  QL!Delete(x)
<1>1. PICK h \in InUse : \E k \in 1 .. Len(Lists[h]) : x = Lists[h][k]
  BY Somewhere
<1>2. PICK k \in 1 .. Len(Lists[h]) : x = Lists[h][k]
  BY <1>1
<1>3. Lists' = [Lists EXCEPT ![h] = RemoveAt(Lists[h], k)]
  BY <1>2, DoRemove
<1>4. QL!Where(x) = h /\ QL!IndexOf(x) = k
  BY <1>2, WhereIs
<1>5. QL!Change([g \in {h} |-> RemoveAt(Lists[h], k)], {})
  BY <1>3, ChangeOne
<1>6. [g \in {QL!Where(x)} |-> QL!RemoveAt(Lists[g], QL!IndexOf(x))]
        = [g \in {h} |-> RemoveAt(Lists[h], k)]
  BY <1>4, SameOperators
<1> QED
  BY <1>5, <1>6 DEF QL!Delete

LEMMA IsSplit ==
  ASSUME Rings, NEW h \in InUse, NEW m \in Sentinel \ linked,
         NEW k \in 1 .. Len(Lists[h]), Queue_split(h, Lists[h][k], m)
  PROVE  QL!Split(h, Lists[h][k], m)
<1>1. PICK L : L = Lists
  OBVIOUS
<1>2. L \in [InUse -> Seq(Node)] /\ m \notin InUse
  BY <1>1, Domain
<1>3. Lists' = Divided(L, h, k, m)
  BY <1>1, DoSplit
<1>4. QL!IndexOf(Lists[h][k]) = k
  BY WhereIs
<1> DEFINE c == [g \in {h, m} |-> IF g = h THEN SubSeq(L[h], 1, k - 1)
                                           ELSE SubSeq(L[h], k, Len(L[h]))]
<1>5. Divided(L, h, k, m) = [g \in (DOMAIN L \cup DOMAIN c) \ {} |->
                               IF g \in DOMAIN c THEN c[g] ELSE L[g]]
  BY <1>2 DEF Divided
<1> QED
  BY <1>1, <1>3, <1>4, <1>5 DEF QL!Split, QL!Change

LEMMA IsAdd ==
  ASSUME Rings, NEW h \in InUse, NEW m \in InUse, h # m, Queue_add(h, m)
  PROVE  QL!Add(h, m)
<1>1. PICK L : L = Lists
  OBVIOUS
<1>2. L \in [InUse -> Seq(Node)]
  BY <1>1, Domain
<1>3. Lists' = Joined(L, h, m)
  BY <1>1, DoAdd
<1> DEFINE c == [g \in {h} |-> L[h] \o L[m]]
<1>4. Joined(L, h, m) = [g \in (DOMAIN L \cup DOMAIN c) \ {m} |->
                           IF g \in DOMAIN c THEN c[g] ELSE L[g]]
  BY <1>2 DEF Joined
<1> QED
  BY <1>1, <1>3, <1>4 DEF QL!Add, QL!Change

-----------------------------------------------------------------------------
(* Queue_sort.  The first m of the elements s are in order; and if nothing *)
(* has gone before the sentinel they are the first m of b, those that      *)
(* compare equal in the order they have there.                             *)
Sorting(s, m) == \A j, k \in 1 .. m : j < k => Rank[s[j]] <= Rank[s[k]]

Stable(s, b, m) ==
  /\ \A j \in 1 .. m : \A c \in 1 .. Len(b) : s[j] = b[c] => c <= m
  /\ \A j, k \in 1 .. m : \A c, d \in 1 .. Len(b) :
       j < k /\ Rank[s[j]] = Rank[s[k]] /\ s[j] = b[c] /\ s[k] = b[d] => c < d

(* Where the loop is: the elements before place i have been sorted, and q  *)
(* is the element at that place.                                           *)
OuterAt(s, i) ==
  /\ i \in 1 .. Len(s) + 1 /\ q = At(s, queue, i)
  /\ Sorting(s, i - 1)
  /\ Len(s) = Len(before)
  /\ \A x \in Node : (\E k \in 1 .. Len(s) : s[k] = x)
                       <=> (\E k \in 1 .. Len(before) : before[k] = x)
  /\ ~passed => /\ Stable(s, before, i - 1)
                /\ \A k \in i .. Len(s) : s[k] = before[k]

(* q has been taken from place i, where n is now.                          *)
Taken(s, i) ==
  /\ i \in 1 .. Len(s) + 1 /\ n = At(s, queue, i)
  /\ q \in Node \ linked
  /\ Sorting(s, i - 1)
  /\ Len(s) + 1 = Len(before)
  /\ \A x \in Node : x = q \/ (\E k \in 1 .. Len(s) : s[k] = x)
                       <=> (\E k \in 1 .. Len(before) : before[k] = x)
  /\ ~passed => /\ Stable(s, before, i - 1)
                /\ q = before[i]
                /\ \A k \in i .. Len(s) : s[k] = before[k + 1]

(* It is compared with p, the element at place j, and comes before all     *)
(* that lie between.  Only past the sentinel is p an element that has not  *)
(* been sorted.                                                            *)
CompareAt(s, i, j) ==
  /\ Taken(s, i)
  /\ j \in 0 .. Len(s) /\ p = At(s, queue, j)
  /\ \A k \in j + 1 .. i - 1 : Rank[q] < Rank[s[k]]
  /\ j = 0 \/ j >= i => i = 1
  /\ j >= i => passed

SortInv ==
  /\ pc \in {"idle", "outer", "compare"} /\ passed \in BOOLEAN
  /\ pc # "idle" =>
       /\ queue \in InUse
       /\ before \in Seq(Node)
       /\ \A c, d \in 1 .. Len(before) : before[c] = before[d] => c = d
  /\ pc = "outer" => \E i \in 1 .. Len(Lists[queue]) + 1 : OuterAt(Lists[queue], i)
  /\ pc = "compare" =>
       \E i \in 1 .. Len(Lists[queue]) + 1 : \E j \in 0 .. Len(Lists[queue]) :
         CompareAt(Lists[queue], i, j)

IInv == Rings /\ SortInv

(* What InsertAt gives, x after place j; and where x belongs among the     *)
(* first i - 1 elements.                                                   *)
Inserted(t, s, j, x) ==
  /\ t \in Seq(Node) /\ Len(t) = Len(s) + 1
  /\ \A k \in 1 .. Len(s) + 1 : t[k] = IF k < j + 1 THEN s[k]
                                       ELSE IF k = j + 1 THEN x ELSE s[k - 1]

Belongs(s, i, j, x) ==
  /\ j # 0 => Rank[s[j]] <= Rank[x]
  /\ \A k \in j + 1 .. i - 1 : Rank[x] < Rank[s[k]]

(* What taking q out and putting it in after place j does to the order.    *)
LEMMA SortingInsert ==
  ASSUME NEW s \in Seq(Node), NEW x \in Node, NEW i \in Nat, 1 <= i, i <= Len(s) + 1,
         NEW j \in Nat, j < i, NEW t, Inserted(t, s, j, x),
         Sorting(s, i - 1), Belongs(s, i, j, x)
  PROVE  Sorting(t, i)
<1> USE DEF Inserted, Belongs
<1>1. Len(s) \in Nat /\ \A k \in 1 .. Len(s) : s[k] \in Node /\ Rank[s[k]] \in Int
  BY LenProperties, QueueAssumption
<1>2. Rank[x] \in Int
  BY QueueAssumption
<1>3. \A k \in 1 .. j : Rank[s[k]] <= Rank[x]
  <2> SUFFICES ASSUME NEW k \in 1 .. j PROVE Rank[s[k]] <= Rank[x]
    OBVIOUS
  <2>1. j \in 1 .. i - 1 /\ k \in 1 .. i - 1 /\ j \in 1 .. Len(s) /\ k \in 1 .. Len(s)
    BY <1>1
  <2>2. k < j => Rank[s[k]] <= Rank[s[j]]
    BY <2>1 DEF Sorting
  <2>3. Rank[s[j]] <= Rank[x]
    BY <2>1
  <2> QED
    BY <1>1, <1>2, <2>1, <2>2, <2>3
<1> SUFFICES ASSUME NEW a \in 1 .. i, NEW b \in 1 .. i, a < b PROVE Rank[t[a]] <= Rank[t[b]]
  BY DEF Sorting
<1>4. a \in 1 .. Len(s) + 1 /\ b \in 1 .. Len(s) + 1
  BY <1>1
<1>5. CASE b <= j
  <2>1. /\ a \in 1 .. i - 1 /\ b \in 1 .. i - 1 /\ t[a] = s[a] /\ t[b] = s[b]
    BY <1>4, <1>5
  <2> QED
    BY <2>1 DEF Sorting
<1>6. CASE b = j + 1
  <2>1. a \in 1 .. j /\ t[a] = s[a] /\ t[b] = x
    BY <1>4, <1>6
  <2> QED
    BY <1>3, <2>1
<1>7. CASE a <= j /\ b > j + 1
  <2>1. /\ a \in 1 .. i - 1 /\ b - 1 \in 1 .. i - 1 /\ a < b - 1
        /\ t[a] = s[a] /\ t[b] = s[b - 1]
    BY <1>4, <1>7
  <2> QED
    BY <2>1 DEF Sorting
<1>8. CASE a = j + 1
  <2>1. b - 1 \in j + 1 .. i - 1 /\ t[a] = x /\ t[b] = s[b - 1] /\ b - 1 \in 1 .. Len(s)
    BY <1>1, <1>4, <1>8
  <2>2. Rank[x] < Rank[s[b - 1]]
    BY <2>1
  <2> QED
    BY <1>1, <1>2, <2>1, <2>2
<1>9. CASE a > j + 1
  <2>1. /\ a - 1 \in 1 .. i - 1 /\ b - 1 \in 1 .. i - 1 /\ a - 1 < b - 1
        /\ t[a] = s[a - 1] /\ t[b] = s[b - 1]
    BY <1>4, <1>9
  <2> QED
    BY <2>1 DEF Sorting
<1> QED
  BY <1>5, <1>6, <1>7, <1>8, <1>9

LEMMA StableInsert ==
  ASSUME NEW s \in Seq(Node), NEW x \in Node, NEW i \in Nat, 1 <= i, i <= Len(s) + 1,
         NEW j \in Nat, j < i, NEW t,
         Inserted(t, s, j, x), Belongs(s, i, j, x),
         NEW b \in Seq(Node), Len(b) = Len(s) + 1, b[i] = x,
         \A c, d \in 1 .. Len(b) : b[c] = b[d] => c = d,
         Stable(s, b, i - 1)
  PROVE  Stable(t, b, i)
<1>. /\ \A k \in 1 .. Len(s) + 1 : t[k] = IF k < j + 1 THEN s[k]
                                           ELSE IF k = j + 1 THEN x ELSE s[k - 1]
     /\ \A k \in j + 1 .. i - 1 : Rank[x] < Rank[s[k]]
  BY DEF Inserted, Belongs
<1>1. Len(s) \in Nat /\ \A k \in 1 .. Len(s) : s[k] \in Node /\ Rank[s[k]] \in Int
  BY LenProperties, QueueAssumption
<1>2. Rank[x] \in Int
  BY QueueAssumption
<1>3. ASSUME NEW a \in 1 .. i
      PROVE  \/ a = j + 1 /\ t[a] = x
             \/ a <= j /\ a \in 1 .. i - 1 /\ t[a] = s[a]
             \/ a > j + 1 /\ a - 1 \in 1 .. i - 1 /\ t[a] = s[a - 1]
  <2>1. a \in 1 .. Len(s) + 1
    BY <1>1
  <2> QED
    BY <2>1
<1>4. \A c \in 1 .. Len(b) : x = b[c] => c = i
  BY <1>1
<1>5. \A a \in 1 .. i - 1 : \A c \in 1 .. Len(b) : s[a] = b[c] => c <= i - 1
  BY DEF Stable
<1>6. ASSUME NEW a \in 1 .. i, NEW c \in 1 .. Len(b), t[a] = b[c] PROVE c <= i
  <2>1. CASE t[a] = x
    <3>1. x = b[c]
      BY <1>6, <2>1
    <3>2. c = i
      BY <1>4, <3>1
    <3> QED
      BY <3>2
  <2>2. CASE t[a] # x
    <3>1. PICK f \in 1 .. i - 1 : t[a] = s[f]
      BY <1>3, <2>2
    <3>2. c <= i - 1
      BY <1>5, <1>6, <3>1
    <3> QED
      BY <3>2
  <2> QED
    BY <2>1, <2>2
<1>7. ASSUME NEW f \in 1 .. i - 1, NEW g \in 1 .. i - 1,
             NEW c \in 1 .. Len(b), NEW d \in 1 .. Len(b),
             f < g, Rank[s[f]] = Rank[s[g]], s[f] = b[c], s[g] = b[d]
      PROVE  c < d
  BY <1>7 DEF Stable
<1>8. ASSUME NEW a \in 1 .. i, NEW e \in 1 .. i, NEW c \in 1 .. Len(b), NEW d \in 1 .. Len(b),
             a < e, Rank[t[a]] = Rank[t[e]], t[a] = b[c], t[e] = b[d]
      PROVE  c < d
  <2>1. CASE e <= j
    <3>1. a \in 1 .. i - 1 /\ e \in 1 .. i - 1 /\ t[a] = s[a] /\ t[e] = s[e]
      BY <1>3, <1>8, <2>1
    <3>2. Rank[s[a]] = Rank[s[e]] /\ s[a] = b[c] /\ s[e] = b[d]
      <4>1. t[a] = s[a] /\ t[e] = s[e]
        BY <3>1
      <4>2. Rank[t[a]] = Rank[t[e]] /\ t[a] = b[c] /\ t[e] = b[d]
        BY <1>8
      <4> QED
        BY <4>1, <4>2
    <3> QED
      <4>1. a < e
        BY <1>8
      <4> QED
        BY <1>7, <3>1, <3>2, <4>1
  <2>2. CASE e = j + 1
    <3>1. a \in 1 .. i - 1 /\ t[a] = s[a] /\ t[e] = x
      BY <1>3, <1>8, <2>2
    <3>2. c <= i - 1 /\ d = i
      BY <1>4, <1>5, <1>8, <3>1
    <3> QED
      BY <3>2
  <2>3. CASE a <= j /\ e > j + 1
    <3>1. /\ a \in 1 .. i - 1 /\ e - 1 \in 1 .. i - 1 /\ a < e - 1
          /\ t[a] = s[a] /\ t[e] = s[e - 1]
      BY <1>3, <2>3
    <3>2. Rank[s[a]] = Rank[s[e - 1]] /\ s[a] = b[c] /\ s[e - 1] = b[d]
      BY <1>8, <3>1
    <3> QED
      BY <1>7, <3>1, <3>2
  <2>4. CASE a = j + 1
    <3>1. t[a] = x /\ t[e] = s[e - 1] /\ e - 1 \in j + 1 .. i - 1 /\ e - 1 \in 1 .. Len(s)
      BY <1>1, <1>3, <1>8, <2>4
    <3>2. Rank[x] < Rank[s[e - 1]]
      BY <3>1
    <3> QED
      BY <1>1, <1>2, <1>8, <3>1, <3>2
  <2>5. CASE a > j + 1
    <3>1. a - 1 \in 1 .. i - 1 /\ t[a] = s[a - 1]
      BY <1>3, <2>5
    <3>2. e > j + 1
      BY <1>8, <2>5
    <3>3. e - 1 \in 1 .. i - 1 /\ t[e] = s[e - 1]
      BY <1>3, <3>2
    <3>4. Rank[s[a - 1]] = Rank[s[e - 1]] /\ s[a - 1] = b[c] /\ s[e - 1] = b[d]
      BY <1>8, <3>1, <3>3
    <3>5. a - 1 < e - 1
      BY <1>8
    <3> QED
      BY <1>7, <3>1, <3>3, <3>4, <3>5
  <2> QED
    BY <2>1, <2>2, <2>3, <2>4, <2>5
<1> QED
  BY <1>6, <1>8 DEF Stable

LEMMA SameLists ==
  ASSUME Rings, UNCHANGED links PROVE Rings' /\ InUse' = InUse /\ Lists' = Lists
<1>1. PICK L : L = Lists
  OBVIOUS
<1>2. LinkType /\ Ring(L)
  BY <1>1 DEF Rings
<1>3. LinkType' /\ InUse' = InUse
  BY <1>2 DEF LinkType, InUse, links
<1>4. Ring(L)'
  BY <1>2 DEF Ring, Thread, Disjoint, Members, InUse, links
<1> QED
  BY <1>1, <1>3, <1>4, RingNext

(* The queue is sorted in place.                                           *)
LEMMA SortCallKeeps ==
  ASSUME IInv, NEW h \in InUse, SortCall(h) PROVE IInv'
<1>1. Rings' /\ InUse' = InUse /\ Lists' = Lists
  BY SameLists DEF IInv, SortCall
<1>2. PICK s : s = Lists[h]
  OBVIOUS
<1>3. s \in Seq(Node) /\ Len(s) \in Nat
  BY <1>2, Domain DEF IInv
<1>4. /\ pc' = "outer" /\ queue' = h /\ q' = next[h] /\ before' = s /\ passed' = FALSE
  BY <1>2 DEF SortCall, Lists
<1>5. next[h] = At(s, h, 1)
  BY <1>2, Links DEF IInv, Rings
<1>6. \A c, d \in 1 .. Len(s) : s[c] = s[d] => c = d
  BY <1>2 DEF IInv, Rings, Ring, Disjoint
<1>7. OuterAt(s, 1)'
  <2>1. Sorting(s, 1 - 1) /\ Stable(s, s, 1 - 1)
    BY DEF Sorting, Stable
  <2>2. 1 \in 1 .. Len(s) + 1
    BY <1>3
  <2> QED
    BY <1>4, <1>5, <2>1, <2>2 DEF OuterAt
<1>8. 1 \in 1 .. Len(s) + 1
  BY <1>3
<1>9. Lists'[queue'] = s
  BY <1>1, <1>2, <1>4
<1>10. SortInv'
  <2>1. \E i \in 1 .. Len(Lists'[queue']) + 1 : OuterAt(Lists[queue], i)'
    BY <1>7, <1>8, <1>9
  <2> QED
    BY <1>1, <1>3, <1>4, <1>6, <2>1 DEF SortInv
<1> QED
  BY <1>1, <1>10 DEF IInv

LEMMA SortTakeKeeps ==
  ASSUME IInv, SortTake PROVE IInv'
<1>1. /\ pc = "outer" /\ queue \in InUse /\ before \in Seq(Node) /\ q # queue
      /\ \A c, d \in 1 .. Len(before) : before[c] = before[d] => c = d
  BY DEF IInv, SortInv, SortTake
<1>2. PICK h : h = queue
  OBVIOUS
<1>3. PICK s : s = Lists[h]
  OBVIOUS
<1>4. PICK i \in 1 .. Len(s) + 1 : OuterAt(s, i)
  BY <1>1, <1>2, <1>3 DEF IInv, SortInv
<1>5. s \in Seq(Node) /\ Len(s) \in Nat /\ \A k \in 1 .. Len(s) : s[k] \in Node
  BY <1>1, <1>2, <1>3, Domain DEF IInv
<1>6. i \in 1 .. Len(s) /\ q = s[i] /\ q = At(s, h, i)
  BY <1>1, <1>2, <1>4 DEF OuterAt, At
<1> DEFINE t == RemoveAt(s, i)
<1>7. Rings' /\ InUse' = InUse /\ Lists' = [Lists EXCEPT ![h] = t]
  BY <1>1, <1>2, <1>3, <1>6, DoRemove DEF IInv, SortTake
<1>8. /\ t \in Seq(Node) /\ Len(t) = Len(s) - 1
      /\ \A k \in 1 .. Len(s) - 1 : t[k] = IF k < i THEN s[k] ELSE s[k + 1]
  BY <1>5, <1>6, RemoveAtIs
<1> HIDE DEF t
<1>9. Lists'[h] = t
  BY <1>1, <1>2, <1>7, Domain DEF IInv
<1>10. /\ pc' = "compare" /\ queue' = h /\ q' = s[i] /\ before' = before /\ passed' = passed
       /\ p' = At(s, h, i - 1) /\ n' = At(s, h, i + 1)
  <2>1. i \in 0 .. Len(s) /\ i \in 1 .. Len(s) + 1
    BY <1>5, <1>6
  <2>2. prev[q] = At(s, h, i - 1) /\ next[q] = At(s, h, i + 1)
    BY <1>1, <1>2, <1>3, <1>6, <2>1, Links DEF IInv, Rings
  <2> QED
    BY <1>2, <1>6, <2>2 DEF SortTake
<1>11. At(s, h, i - 1) = At(t, h, i - 1) /\ At(s, h, i + 1) = At(t, h, i)
  BY <1>5, <1>6, <1>8 DEF At
<1>12. \A k \in 1 .. i - 1 : k \in 1 .. Len(t) /\ t[k] = s[k]
  BY <1>5, <1>6, <1>8
<1>13. Taken(t, i)'
  <2>1. i \in 1 .. Len(t) + 1 /\ n' = At(t, h, i)
    BY <1>5, <1>6, <1>8, <1>10, <1>11
  <2>2. q' \in Node \ linked'
    BY <1>5, <1>6, <1>10 DEF SortTake, Queue_remove
  <2>3. Sorting(t, i - 1)
    BY <1>4, <1>12 DEF OuterAt, Sorting
  <2>4. Len(t) + 1 = Len(before)
    BY <1>4, <1>5, <1>8 DEF OuterAt
  <2>5. ASSUME NEW x \in Node
        PROVE  x = s[i] \/ (\E k \in 1 .. Len(t) : t[k] = x)
                 <=> (\E k \in 1 .. Len(before) : before[k] = x)
    <3>1. (\E k \in 1 .. Len(s) : s[k] = x) <=> (\E k \in 1 .. Len(before) : before[k] = x)
      BY <1>4 DEF OuterAt
    <3>2. ASSUME NEW k \in 1 .. Len(t), t[k] = x PROVE \E c \in 1 .. Len(s) : s[c] = x
      <4>1. k \in 1 .. Len(s) /\ k + 1 \in 1 .. Len(s) /\ (t[k] = s[k] \/ t[k] = s[k + 1])
        BY <1>5, <1>8
      <4> QED
        BY <3>2, <4>1
    <3>3. ASSUME NEW c \in 1 .. Len(s), s[c] = x, x # s[i]
          PROVE  \E k \in 1 .. Len(t) : t[k] = x
      <4>1. CASE c < i
        BY <1>5, <1>6, <1>12, <3>3, <4>1
      <4>2. CASE c > i
        <5>1. /\ c - 1 \in 1 .. Len(t) /\ c - 1 \in 1 .. Len(s) - 1
              /\ ~(c - 1 < i) /\ c - 1 + 1 = c
          BY <1>5, <1>6, <1>8, <4>2
        <5>2. t[c - 1] = s[c]
          BY <1>8, <5>1
        <5> QED
          BY <3>3, <5>1, <5>2
      <4>3. c # i
        BY <3>3
      <4>4. c < i \/ c > i
        BY <1>6, <4>3
      <4> QED
        BY <4>1, <4>2, <4>4
    <3> QED
      BY <1>6, <3>1, <3>2, <3>3
  <2>6. ASSUME ~passed
        PROVE  /\ Stable(t, before, i - 1) /\ s[i] = before[i]
               /\ \A k \in i .. Len(t) : t[k] = before[k + 1]
    <3>1. Stable(s, before, i - 1) /\ \A k \in i .. Len(s) : s[k] = before[k]
      BY <1>4, <2>6 DEF OuterAt
    <3>2. Stable(t, before, i - 1)
      BY <1>12, <3>1 DEF Stable
    <3>3. ASSUME NEW k \in i .. Len(t) PROVE t[k] = before[k + 1]
      <4>1. k \in 1 .. Len(s) - 1 /\ ~(k < i) /\ k + 1 \in i .. Len(s)
        BY <1>5, <1>6, <1>8
      <4> QED
        BY <1>8, <3>1, <4>1
    <3>4. i \in i .. Len(s)
      BY <1>5, <1>6
    <3>5. s[i] = before[i]
      BY <3>1, <3>4
    <3> QED
      BY <3>2, <3>3, <3>5
  <2> QED
    BY <1>10, <2>1, <2>2, <2>3, <2>4, <2>5, <2>6 DEF Taken
<1>14. CompareAt(t, i, i - 1)'
  <2>1. i - 1 \in 0 .. Len(t) /\ (i - 1 = 0 => i = 1) /\ ~(i - 1 >= i)
    BY <1>5, <1>6, <1>8
  <2>2. \A k \in i - 1 + 1 .. i - 1 : FALSE
    BY <1>6
  <2> QED
    BY <1>10, <1>11, <1>13, <2>1, <2>2 DEF CompareAt
<1>15. i \in 1 .. Len(t) + 1 /\ i - 1 \in 0 .. Len(t)
  BY <1>5, <1>6, <1>8
<1>16. Lists'[queue'] = t
  BY <1>9, <1>10
<1>17. SortInv'
  <2>1. passed' \in BOOLEAN
    BY <1>10 DEF IInv, SortInv
  <2>2. \E e \in 1 .. Len(Lists'[queue']) + 1 : \E f \in 0 .. Len(Lists'[queue']) :
          CompareAt(Lists[queue], e, f)'
    BY <1>14, <1>15, <1>16
  <2> QED
    BY <1>1, <1>2, <1>7, <1>10, <2>1, <2>2 DEF SortInv
<1> QED
  BY <1>7, <1>17 DEF IInv

LEMMA InsertAfterIs ==
  ASSUME NEW s \in Seq(Node), NEW j \in 0 .. Len(s), NEW x \in Node
  PROVE  Inserted(InsertAt(s, j + 1, x), s, j, x)
<1> DEFINE m == j + 1
<1>1. m \in Nat /\ 1 <= m /\ m <= Len(s) + 1
  BY LenProperties
<1> HIDE DEF m
<1>2. /\ InsertAt(s, m, x) \in Seq(Node) /\ Len(InsertAt(s, m, x)) = Len(s) + 1
      /\ \A k \in 1 .. Len(s) + 1 :
           InsertAt(s, m, x)[k] = IF k < m THEN s[k] ELSE IF k = m THEN x ELSE s[k - 1]
  BY <1>1, InsertAtIs
<1> QED
  BY <1>2 DEF m, Inserted

(* q is put in after place j: among the sorted elements, or, if cmp() led  *)
(* past the sentinel, among the others.                                    *)
LEMMA PutKeeps ==
  ASSUME IInv, pc = "compare", NEW s, s = Lists[queue],
         NEW i \in 1 .. Len(s) + 1, Taken(s, i), NEW j \in 0 .. Len(s),
         PutAfter(At(s, queue, j)),
         \/ /\ j < i /\ (j # 0 => Rank[s[j]] <= Rank[q])
            /\ \A k \in j + 1 .. i - 1 : Rank[q] < Rank[s[k]]
         \/ j >= i /\ i = 1 /\ passed,
         passed' \in BOOLEAN, passed => passed'
  PROVE  IInv'
<1>1. /\ queue \in InUse /\ before \in Seq(Node)
      /\ \A c, d \in 1 .. Len(before) : before[c] = before[d] => c = d
  BY DEF IInv, SortInv
<1>2. PICK h : h = queue
  OBVIOUS
<1>3. PICK x : x = q
  OBVIOUS
<1>4. s \in Seq(Node) /\ Len(s) \in Nat /\ \A k \in 1 .. Len(s) : s[k] \in Node
  BY <1>1, Domain DEF IInv
<1>5. x \in Node /\ x \in Node \ linked
  BY <1>3 DEF Taken
<1> DEFINE t == InsertAt(s, j + 1, x)
<1>6. Rings' /\ InUse' = InUse /\ Lists' = [Lists EXCEPT ![h] = t]
  BY <1>1, <1>2, <1>3, <1>5, DoAfter DEF IInv, PutAfter
<1>7. /\ t \in Seq(Node) /\ Len(t) = Len(s) + 1
      /\ \A k \in 1 .. Len(s) + 1 : t[k] = IF k < j + 1 THEN s[k]
                                           ELSE IF k = j + 1 THEN x ELSE s[k - 1]
  <2>1. Inserted(t, s, j, x)
    BY <1>4, <1>5, InsertAfterIs
  <2> HIDE DEF t
  <2> QED
    BY <2>1 DEF Inserted
<1> HIDE DEF t
<1>8. Lists'[h] = t
  BY <1>1, <1>2, <1>6, Domain DEF IInv
<1>9. /\ pc' = "outer" /\ queue' = h /\ q' = At(s, h, i) /\ before' = before
  BY <1>2 DEF PutAfter, Following, Taken
<1>10. Len(t) = Len(before)
  BY <1>7 DEF Taken
<1>11. ASSUME NEW e \in Node
       PROVE  (\E k \in 1 .. Len(t) : t[k] = e) <=> (\E k \in 1 .. Len(before) : before[k] = e)
  <2>1. e = x \/ (\E k \in 1 .. Len(s) : s[k] = e)
          <=> (\E k \in 1 .. Len(before) : before[k] = e)
    BY <1>3 DEF Taken
  <2>2. ASSUME NEW k \in 1 .. Len(t), t[k] = e
        PROVE  e = x \/ \E c \in 1 .. Len(s) : s[c] = e
    <3>1. CASE k < j + 1
      <4>1. k \in 1 .. Len(s) /\ t[k] = s[k]
        BY <1>4, <1>7, <3>1
      <4> QED
        BY <2>2, <4>1
    <3>2. CASE k = j + 1
      BY <1>7, <2>2, <3>2
    <3>3. CASE k > j + 1
      <4>1. k - 1 \in 1 .. Len(s) /\ t[k] = s[k - 1]
        BY <1>4, <1>7, <3>3
      <4> QED
        BY <2>2, <4>1
    <3> QED
      BY <3>1, <3>2, <3>3
  <2>3. \E k \in 1 .. Len(t) : t[k] = x
    <3>1. j + 1 \in 1 .. Len(t) /\ t[j + 1] = x
      BY <1>4, <1>7
    <3> QED
      BY <3>1
  <2>4. ASSUME NEW c \in 1 .. Len(s), s[c] = e PROVE \E k \in 1 .. Len(t) : t[k] = e
    <3>1. CASE c < j + 1
      <4>1. c \in 1 .. Len(t) /\ t[c] = s[c]
        BY <1>4, <1>7, <3>1
      <4> QED
        BY <2>4, <4>1
    <3>2. CASE c >= j + 1
      <4>1. /\ c + 1 \in 1 .. Len(t) /\ c + 1 \in 1 .. Len(s) + 1
            /\ ~(c + 1 < j + 1) /\ c + 1 # j + 1 /\ c + 1 - 1 = c
        BY <1>4, <1>7, <3>2
      <4>2. t[c + 1] = s[c]
        BY <1>7, <4>1
      <4> QED
        BY <2>4, <4>1, <4>2
    <3> QED
      BY <3>1, <3>2
  <2> QED
    BY <2>1, <2>2, <2>3, <2>4
<1>12. CASE j < i /\ (j # 0 => Rank[s[j]] <= Rank[q])
            /\ \A k \in j + 1 .. i - 1 : Rank[q] < Rank[s[k]]
  <2>1. /\ i \in Nat /\ 1 <= i /\ i <= Len(s) + 1 /\ j \in Nat
        /\ i + 1 \in 1 .. Len(t) + 1 /\ i + 1 - 1 = i
    BY <1>4, <1>7
  <2>2. Sorting(t, i)
    <3>1. Sorting(s, i - 1) /\ Belongs(s, i, j, x)
      BY <1>3, <1>12 DEF Taken, Belongs
    <3>2. Inserted(t, s, j, x)
      BY <1>7 DEF Inserted
    <3> QED
      BY <1>4, <1>5, <1>12, <2>1, <3>1, <3>2, SortingInsert
  <2>3. At(s, h, i) = At(t, h, i + 1)
    <3>1. CASE i = Len(s) + 1
      BY <1>4, <1>7, <3>1 DEF At
    <3>2. CASE i # Len(s) + 1
      <4>1. /\ i \in 1 .. Len(s) /\ i + 1 \in 1 .. Len(s) + 1
            /\ ~(i + 1 < j + 1) /\ i + 1 # j + 1
        BY <1>4, <1>12, <2>1, <3>2
      <4>2. t[i + 1] = s[i + 1 - 1]
        BY <1>7, <4>1
      <4> QED
        BY <1>7, <2>1, <4>1, <4>2 DEF At
    <3> QED
      BY <3>1, <3>2
  <2>4. ASSUME ~passed
        PROVE  Stable(t, before, i) /\ \A k \in i + 1 .. Len(t) : t[k] = before[k]
    <3>1. /\ Stable(s, before, i - 1) /\ x = before[i]
          /\ \A k \in i .. Len(s) : s[k] = before[k + 1]
      BY <1>3, <2>4 DEF Taken
    <3>2. Stable(t, before, i)
      <4>1. Belongs(s, i, j, x) /\ Inserted(t, s, j, x)
        BY <1>3, <1>7, <1>12 DEF Taken, Belongs, Inserted
      <4>2. /\ before \in Seq(Node) /\ Len(before) = Len(s) + 1
            /\ \A c, d \in 1 .. Len(before) : before[c] = before[d] => c = d
        BY <1>1, <1>7, <1>10
      <4>3. before[i] = x
        BY <3>1
      <4> QED
        BY <1>4, <1>5, <1>12, <2>1, <3>1, <4>1, <4>2, <4>3, StableInsert
    <3>3. ASSUME NEW k \in i + 1 .. Len(t) PROVE t[k] = before[k]
      <4>1. /\ k \in 1 .. Len(s) + 1 /\ ~(k < j + 1) /\ k # j + 1
            /\ k - 1 \in i .. Len(s) /\ k - 1 + 1 = k
        BY <1>4, <1>7, <1>12, <2>1
      <4>2. t[k] = s[k - 1]
        BY <1>7, <4>1
      <4> QED
        BY <3>1, <4>1, <4>2
    <3> QED
      BY <3>2, <3>3
  <2>5. OuterAt(t, i + 1)'
    BY <1>9, <1>10, <1>11, <2>1, <2>2, <2>3, <2>4 DEF OuterAt
  <2>6. \E e \in 1 .. Len(Lists'[queue']) + 1 : OuterAt(Lists[queue], e)'
    BY <1>8, <1>9, <2>1, <2>5
  <2>7. SortInv'
    BY <1>1, <1>2, <1>6, <1>9, <2>6 DEF SortInv
  <2> QED
    BY <1>6, <2>7 DEF IInv
<1>13. CASE j >= i /\ i = 1 /\ passed
  <2>1. 1 \in 1 .. Len(t) + 1 /\ 1 - 1 = 0 /\ 1 \in 1 .. Len(s) /\ 1 \in 1 .. Len(t)
        /\ t[1] = s[1]
    BY <1>4, <1>7, <1>13
  <2>2. At(s, h, i) = At(t, h, 1)
    BY <1>13, <2>1 DEF At
  <2>3. Sorting(t, 1 - 1)
    BY DEF Sorting
  <2>4. passed'
    BY <1>13
  <2>5. OuterAt(t, 1)'
    BY <1>9, <1>10, <1>11, <2>1, <2>2, <2>3, <2>4 DEF OuterAt
  <2>6. \E e \in 1 .. Len(Lists'[queue']) + 1 : OuterAt(Lists[queue], e)'
    BY <1>8, <1>9, <2>1, <2>5
  <2>7. SortInv'
    BY <1>1, <1>2, <1>6, <1>9, <2>6 DEF SortInv
  <2> QED
    BY <1>6, <2>7 DEF IInv
<1> QED
  BY <1>12, <1>13

LEMMA SortFoundKeeps ==
  ASSUME IInv, SortFound PROVE IInv'
<1>1. pc = "compare" /\ queue \in InUse /\ Cmp(TRUE) /\ PutAfter(p) /\ passed' = passed
  BY DEF IInv, SortInv, SortFound
<1>2. PICK s : s = Lists[queue]
  OBVIOUS
<1>3. PICK i \in 1 .. Len(s) + 1 : \E j \in 0 .. Len(s) : CompareAt(s, i, j)
  BY <1>1, <1>2 DEF IInv, SortInv
<1>4. PICK j \in 0 .. Len(s) : CompareAt(s, i, j)
  BY <1>3
<1>5. Len(s) \in Nat /\ \A k \in 1 .. Len(s) : s[k] \in Node
  BY <1>1, <1>2, Domain DEF IInv
<1>6. Taken(s, i) /\ p = At(s, queue, j)
  BY <1>4 DEF CompareAt
<1>7. passed \in BOOLEAN
  BY DEF IInv, SortInv
<1>8. CASE j < i
  <2>1. j # 0 => Rank[s[j]] <= Rank[q]
    <3> SUFFICES ASSUME j # 0 PROVE Rank[s[j]] <= Rank[q]
      OBVIOUS
    <3>1. j \in 1 .. Len(s) /\ p = s[j] /\ p \in Node
      BY <1>5, <1>6 DEF At
    <3>2. p # queue
      BY <1>1, <3>1, QueueAssumption DEF InUse
    <3> QED
      BY <1>1, <3>1, <3>2 DEF Cmp, NotGreater
  <2>2. \A k \in j + 1 .. i - 1 : Rank[q] < Rank[s[k]]
    BY <1>4 DEF CompareAt
  <2> QED
    BY <1>1, <1>2, <1>6, <1>7, <1>8, <2>1, <2>2, PutKeeps
<1>9. CASE j >= i
  <2>1. i = 1 /\ passed
    BY <1>4, <1>9 DEF CompareAt
  <2> QED
    BY <1>1, <1>2, <1>6, <1>7, <1>9, <2>1, PutKeeps
<1> QED
  BY <1>5, <1>8, <1>9

(* Back to the element before; from the first place, and from the          *)
(* sentinel of an otherwise empty queue, q goes to the front.              *)
LEMMA SortBackKeeps ==
  ASSUME IInv, SortBack PROVE IInv'
<1>1. /\ pc = "compare" /\ queue \in InUse /\ Cmp(FALSE) /\ before \in Seq(Node)
      /\ passed' = (passed \/ p = queue)
      /\ \A c, d \in 1 .. Len(before) : before[c] = before[d] => c = d
  BY DEF IInv, SortInv, SortBack
<1>2. PICK s : s = Lists[queue]
  OBVIOUS
<1>3. PICK i \in 1 .. Len(s) + 1 : \E j \in 0 .. Len(s) : CompareAt(s, i, j)
  BY <1>1, <1>2 DEF IInv, SortInv
<1>4. PICK j \in 0 .. Len(s) : CompareAt(s, i, j)
  BY <1>3
<1>5. Len(s) \in Nat /\ queue \notin Node /\ \A k \in 1 .. Len(s) : s[k] \in Node
  BY <1>1, <1>2, Domain, QueueAssumption DEF IInv, InUse
<1>6. Taken(s, i) /\ p = At(s, queue, j) /\ q \in Node
  BY <1>4 DEF CompareAt, Taken
<1>7. passed' \in BOOLEAN /\ (passed => passed')
  <2>1. passed \in BOOLEAN
    BY DEF IInv, SortInv
  <2> QED
    BY <1>1, <2>1
<1>8. p = queue <=> j = 0
  BY <1>5, <1>6 DEF At
<1>9. j # 0 => Rank[q] < Rank[s[j]]
  <2> SUFFICES ASSUME j # 0 PROVE Rank[q] < Rank[s[j]]
    OBVIOUS
  <2>1. j \in 1 .. Len(s) /\ p = s[j] /\ p \in Node
    BY <1>5, <1>6 DEF At
  <2>2. ~NotGreater(p, q)
    BY <1>1, <1>8 DEF Cmp
  <2>3. Rank[p] \in Int /\ Rank[q] \in Int
    BY <1>6, <2>1, QueueAssumption
  <2> QED
    BY <2>1, <2>2, <2>3 DEF NotGreater
<1>10. prev[p] = IF j = 0 THEN At(s, queue, Len(s)) ELSE At(s, queue, j - 1)
  <2>1. j # 0 => j \in 1 .. Len(s) + 1
    BY <1>5
  <2> QED
    BY <1>1, <1>2, <1>6, <1>8, <2>1, Links DEF IInv, Rings
<1>11. \A k \in j + 1 .. i - 1 : Rank[q] < Rank[s[k]]
  BY <1>4 DEF CompareAt
<1>12. CASE prev[p] = queue
  <2>1. PutAfter(queue)
    BY <1>12 DEF SortBack
  <2>2. 0 \in 0 .. Len(s) /\ queue = At(s, queue, 0) /\ 0 < i
    BY <1>5 DEF At
  <2>3. j \in {0, 1}
    <3> SUFFICES ASSUME j # 0, j # 1 PROVE FALSE
      OBVIOUS
    <3>1. j - 1 \in 1 .. Len(s)
      BY <1>5
    <3> QED
      BY <1>5, <1>10, <1>12, <3>1 DEF At
  <2>4. ASSUME NEW k \in 0 + 1 .. i - 1 PROVE Rank[q] < Rank[s[k]]
    <3>1. CASE k = j
      BY <1>9, <3>1
    <3>2. CASE k # j
      <4>1. k \in j + 1 .. i - 1
        BY <2>3, <3>2
      <4> QED
        BY <1>11, <4>1
    <3> QED
      BY <3>1, <3>2
  <2> QED
    BY <1>1, <1>2, <1>6, <1>7, <2>1, <2>2, <2>4, PutKeeps
<1>13. CASE prev[p] # queue
  <2>1. PICK h : h = queue
    OBVIOUS
  <2>2. PICK x : x = q
    OBVIOUS
  <2>3. /\ UNCHANGED links /\ pc' = "compare" /\ queue' = h /\ q' = x
        /\ n' = n /\ before' = before /\ p' = prev[p]
    BY <1>1, <1>13, <2>1, <2>2 DEF SortBack
  <2>4. Rings' /\ InUse' = InUse /\ Lists' = Lists
    BY <2>3, SameLists DEF IInv
  <2> DEFINE e == IF j = 0 THEN Len(s) ELSE j - 1
  <2>5. /\ e \in 0 .. Len(s) /\ e # 0 /\ p' = At(s, h, e)
        /\ (j = 0 => e = Len(s)) /\ (j # 0 => e = j - 1)
    <3>1. e \in 0 .. Len(s) /\ p' = At(s, h, e)
      BY <1>5, <1>10, <2>1, <2>3
    <3>2. e # 0
      <4>1. 0 \notin 1 .. Len(s)
        BY <1>5
      <4> QED
        BY <1>13, <2>1, <2>3, <3>1, <4>1 DEF At
    <3> QED
      BY <3>1, <3>2
  <2> HIDE DEF e
  <2>6. /\ j = 0 => i = 1 /\ passed'
        /\ j >= i => i = 1 /\ passed'
    <3>1. (j = 0 \/ j >= i => i = 1) /\ (j >= i => passed)
      BY <1>4 DEF CompareAt
    <3> QED
      BY <1>1, <1>7, <1>8, <3>1
  <2>7. e >= i => i = 1 /\ passed'
    BY <1>5, <2>5, <2>6
  <2>8. ASSUME NEW k \in e + 1 .. i - 1 PROVE Rank[x] < Rank[s[k]]
    <3>1. j # 0
      BY <1>5, <2>5, <2>6
    <3>2. CASE k = j
      BY <1>9, <2>2, <3>1, <3>2
    <3>3. CASE k # j
      <4>1. k \in j + 1 .. i - 1
        BY <1>5, <2>5, <3>1, <3>3
      <4> QED
        BY <1>11, <2>2, <4>1
    <3> QED
      BY <3>2, <3>3
  <2>9. Taken(s, i)'
    <3>1. linked' = linked
      BY <2>3 DEF links
    <3>2. ~passed' => ~passed
      BY <1>7
    <3> QED
      BY <1>6, <2>1, <2>2, <2>3, <3>1, <3>2 DEF Taken
  <2>10. CompareAt(s, i, e)'
    BY <2>3, <2>5, <2>7, <2>8, <2>9 DEF CompareAt
  <2>11. Lists'[queue'] = s
    BY <1>2, <2>1, <2>3, <2>4
  <2>12. \E c \in 1 .. Len(Lists'[queue']) + 1 : \E d \in 0 .. Len(Lists'[queue']) :
           CompareAt(Lists[queue], c, d)'
    BY <2>5, <2>10, <2>11
  <2>13. SortInv'
    BY <1>1, <1>7, <2>1, <2>3, <2>4, <2>12 DEF SortInv
  <2> QED
    BY <2>4, <2>13 DEF IInv
<1> QED
  BY <1>12, <1>13

LEMMA InitIInv ==
  ASSUME Init PROVE IInv /\ QL!Init
<1>1. InUse = {}
  BY DEF Init, InUse
<1>2. Lists = <<>>
  BY <1>1 DEF Lists
<1>3. LinkType
  BY DEF Init, LinkType
<1>4. Ring(Lists)
  BY <1>1, <1>2 DEF Ring, Disjoint, Members, Init
<1>5. SortInv
  BY DEF Init, SortInv
<1> QED
  BY <1>2, <1>3, <1>4, <1>5 DEF IInv, Rings, QL!Init

(* While Queue_sort does not run its variables say nothing.                *)
LEMMA CallKeepsSort ==
  ASSUME IInv, Call PROVE SortInv'
<1>1. pc = "idle" /\ pc' = "idle" /\ passed' = passed
  BY DEF Call, sortVars
<1>2. passed \in BOOLEAN
  BY DEF IInv, SortInv
<1> QED
  BY <1>1, <1>2 DEF SortInv

LEMMA CallsKeep ==
  ASSUME IInv, Calls PROVE IInv' /\ QL!Next
<1>1. Rings /\ QL!Used = InUse
  BY Domain DEF IInv
<1>2. SortInv'
  BY CallKeepsSort DEF Calls, CallInit, CallInsert, CallRemove, CallSplit, CallAdd
<1>3. \A x \in Node \ linked : ~QL!InSome(x)
  BY <1>1, Domain DEF QL!InSome, QL!Contains
<1>4. \A x \in Node \cap linked : QL!InSome(x)
  <2> SUFFICES ASSUME NEW x \in Node \cap linked PROVE QL!InSome(x)
    OBVIOUS
  <2>1. \E h \in InUse : \E k \in 1 .. Len(Lists[h]) : x = Lists[h][k]
    BY <1>1, Somewhere
  <2> QED
    BY <1>1, <2>1 DEF QL!InSome, QL!Contains
<1>5. ASSUME CallInit PROVE Rings' /\ QL!Next
  <2>1. PICK h \in Sentinel \ linked : Queue_init(h)
    BY <1>5 DEF CallInit
  <2>2. Rings' /\ QL!New(h) /\ h \in Sentinel \ QL!Used
    BY <1>1, <2>1, DoInit, IsNew DEF InUse
  <2> QED
    BY <2>2 DEF QL!Next
<1>6. ASSUME CallInsert PROVE Rings' /\ QL!Next
  <2>1. PICK x \in Node \ linked :
          \/ \E h \in InUse : Queue_insert_head(h, x) \/ Queue_insert_tail(h, x)
          \/ \E y \in Node \cap linked : Queue_insert_after(y, x)
    BY <1>6 DEF CallInsert
  <2>2. ASSUME NEW h \in InUse, Queue_insert_head(h, x) PROVE Rings' /\ QL!Next
    <3>1. 0 \in 0 .. Len(Lists[h]) /\ h = At(Lists[h], h, 0)
      BY <1>1, Domain DEF At
    <3>2. Rings'
      BY <1>1, <2>2, <3>1, DoAfter DEF Queue_insert_after
    <3>3. QL!InsertFirst(h, x)
      BY <1>1, <2>2, IsInsertFirst
    <3> QED
      BY <1>1, <1>3, <3>2, <3>3 DEF QL!Next
  <2>3. ASSUME NEW h \in InUse, Queue_insert_tail(h, x) PROVE Rings' /\ QL!Next
    <3>1. Rings' /\ QL!InsertLast(h, x)
      BY <1>1, <2>3, DoTail, IsInsertLast
    <3> QED
      BY <1>1, <1>3, <3>1 DEF QL!Next
  <2>4. ASSUME NEW y \in Node \cap linked, Queue_insert_after(y, x) PROVE Rings' /\ QL!Next
    <3>1. PICK h \in InUse : \E k \in 1 .. Len(Lists[h]) : y = Lists[h][k]
      BY <1>1, Somewhere
    <3>2. PICK k \in 0 .. Len(Lists[h]) : y = At(Lists[h], h, k)
      BY <1>1, <3>1, Domain DEF At
    <3>3. Rings'
      BY <1>1, <2>4, <3>2, DoAfter
    <3>4. QL!InsertAfter(y, x)
      BY <1>1, <2>4, IsInsertAfter
    <3> QED
      BY <1>3, <1>4, <3>3, <3>4 DEF QL!Next
  <2> QED
    BY <2>1, <2>2, <2>3, <2>4
<1>7. ASSUME CallRemove PROVE Rings' /\ QL!Next
  <2>1. PICK x \in Node \cap linked : Queue_remove(x)
    BY <1>7 DEF CallRemove
  <2>2. PICK h \in InUse : \E k \in 1 .. Len(Lists[h]) : x = Lists[h][k]
    BY <1>1, Somewhere
  <2>3. Rings'
    BY <1>1, <2>1, <2>2, DoRemove
  <2>4. QL!Delete(x)
    BY <1>1, <2>1, IsDelete
  <2> QED
    BY <1>4, <2>3, <2>4 DEF QL!Next
<1>8. ASSUME CallSplit PROVE Rings' /\ QL!Next
  <2>1. PICK h \in InUse, m \in Sentinel \ linked, x \in Node \cap linked :
          LeadsTo(x, h) /\ Queue_split(h, x, m)
    BY <1>8 DEF CallSplit
  <2>2. PICK k \in 1 .. Len(Lists[h]) : x = Lists[h][k]
    BY <1>1, <2>1, LeadsToIs
  <2>3. Rings' /\ QL!Split(h, x, m)
    BY <1>1, <2>1, <2>2, DoSplit, IsSplit
  <2>4. x \in QL!ToSet(Lists[h]) /\ m \in Sentinel \ QL!Used
    BY <1>1, <2>2, Domain DEF QL!ToSet, InUse
  <2> QED
    BY <1>1, <2>3, <2>4 DEF QL!Next
<1>9. ASSUME CallAdd PROVE Rings' /\ QL!Next
  <2>1. PICK h \in InUse, m \in InUse : h # m /\ Queue_add(h, m)
    BY <1>9 DEF CallAdd
  <2>2. Rings' /\ QL!Add(h, m)
    BY <1>1, <2>1, DoAdd, IsAdd
  <2> QED
    BY <1>1, <2>1, <2>2 DEF QL!Next
<1> QED
  BY <1>2, <1>5, <1>6, <1>7, <1>8, <1>9 DEF IInv, Calls

(* Of Queue_sort only the steps that take an element out and put it in     *)
(* again change a queue: by one removal or insertion.                      *)
LEMMA PutIsInsert ==
  ASSUME IInv, NEW c \in linked, q \in Node \ linked, PutAfter(c) PROVE QL!Next
<1>1. Rings /\ QL!Used = InUse
  BY Domain DEF IInv
<1>2. ~QL!InSome(q)
  BY <1>1, Domain DEF QL!InSome, QL!Contains
<1>3. PICK x : x = q
  OBVIOUS
<1>4. x \in Node \ linked /\ ~QL!InSome(x) /\ Queue_insert_after(c, x)
  BY <1>2, <1>3 DEF PutAfter
<1>5. CASE c \in InUse
  <2>1. QL!InsertFirst(c, x)
    BY <1>1, <1>4, <1>5, IsInsertFirst DEF Queue_insert_after
  <2> QED
    BY <1>1, <1>4, <1>5, <2>1 DEF QL!Next
<1>6. CASE c \in Node
  <2>1. QL!InsertAfter(c, x)
    BY <1>1, <1>4, <1>6, IsInsertAfter
  <2>2. PICK h \in InUse : \E k \in 1 .. Len(Lists[h]) : c = Lists[h][k]
    BY <1>1, <1>6, Somewhere
  <2>3. QL!InSome(c)
    BY <1>1, <2>2 DEF QL!InSome, QL!Contains
  <2> QED
    BY <1>4, <1>6, <2>1, <2>3 DEF QL!Next
<1>7. c \in InUse \/ c \in Node
  BY DEF IInv, Rings, LinkType, InUse, Cell
<1> QED
  BY <1>5, <1>6, <1>7

LEMMA SortStepIsList ==
  ASSUME IInv, SortStep PROVE QL!Next \/ UNCHANGED Lists
<1>1. Rings /\ QL!Used = InUse
  BY Domain DEF IInv
<1>2. ASSUME SortTake PROVE QL!Next
  <2>1. pc = "outer" /\ queue \in InUse /\ q # queue
    BY <1>2 DEF IInv, SortInv, SortTake
  <2>2. PICK i \in 1 .. Len(Lists[queue]) + 1 : q = At(Lists[queue], queue, i)
    BY <2>1 DEF IInv, SortInv, OuterAt
  <2>3. q \in Node \cap linked
    BY <1>1, <2>1, <2>2, Domain DEF At
  <2>4. PICK x : x = q
    OBVIOUS
  <2>5. x \in Node \cap linked /\ Queue_remove(x)
    BY <1>2, <2>3, <2>4 DEF SortTake
  <2>6. QL!Delete(x)
    BY <1>1, <2>5, IsDelete
  <2>7. PICK h \in InUse : \E k \in 1 .. Len(Lists[h]) : x = Lists[h][k]
    BY <1>1, <2>5, Somewhere
  <2>8. QL!InSome(x)
    BY <1>1, <2>7 DEF QL!InSome, QL!Contains
  <2> QED
    BY <2>5, <2>6, <2>8 DEF QL!Next
<1>3. ASSUME pc = "compare"
      PROVE  q \in Node \ linked /\ p \in linked /\ queue \in linked
  <2>1. queue \in InUse
    BY <1>3 DEF IInv, SortInv
  <2>2. PICK s : s = Lists[queue]
    OBVIOUS
  <2>3. PICK i \in 1 .. Len(s) + 1 : \E j \in 0 .. Len(s) : CompareAt(s, i, j)
    BY <1>3, <2>2 DEF IInv, SortInv
  <2>4. PICK j \in 0 .. Len(s) : CompareAt(s, i, j)
    BY <2>3
  <2>5. p = At(s, queue, j) /\ q \in Node \ linked
    BY <2>4 DEF CompareAt, Taken
  <2> QED
    BY <1>1, <2>1, <2>2, <2>5, Domain DEF At, InUse
<1>4. ASSUME SortFound PROVE QL!Next
  BY <1>3, <1>4, PutIsInsert DEF SortFound
<1>5. ASSUME SortBack PROVE QL!Next \/ UNCHANGED Lists
  <2>1. CASE prev[p] = queue
    BY <1>3, <1>5, <2>1, PutIsInsert DEF SortBack
  <2>2. CASE prev[p] # queue
    BY <1>1, <1>5, <2>2, SameLists DEF SortBack
  <2> QED
    BY <2>1, <2>2
<1>6. ASSUME SortReturn PROVE UNCHANGED Lists
  BY <1>1, <1>6, SameLists DEF SortReturn
<1> QED
  BY <1>2, <1>4, <1>5, <1>6 DEF SortStep

LEMMA NextIInv ==
  ASSUME IInv, [Next]_vars PROVE IInv' /\ (QL!Next \/ UNCHANGED Lists)
<1>1. CASE Calls
  BY <1>1, CallsKeep
<1>2. ASSUME NEW h \in InUse, SortCall(h) PROVE IInv' /\ UNCHANGED Lists
  BY <1>2, SortCallKeeps, SameLists DEF IInv, SortCall
<1>3. CASE SortStep
  <2>1. ASSUME SortReturn PROVE IInv'
    <3>1. pc' = "idle" /\ passed' = FALSE
      BY <2>1 DEF SortReturn
    <3>2. Rings'
      BY <2>1, SameLists DEF SortReturn, IInv
    <3>3. SortInv'
      BY <3>1 DEF SortInv
    <3> QED
      BY <3>2, <3>3 DEF IInv
  <2> QED
    BY <1>3, <2>1, SortTakeKeeps, SortFoundKeeps, SortBackKeeps, SortStepIsList DEF SortStep
<1>4. CASE UNCHANGED vars
  <2>1. Rings' /\ InUse' = InUse /\ Lists' = Lists
    BY <1>4, SameLists DEF IInv, vars
  <2>2. /\ pc' = pc /\ queue' = queue /\ q' = q /\ p' = p /\ n' = n /\ linked' = linked
        /\ before' = before /\ passed' = passed
    BY <1>4 DEF vars, links, sortVars
  <2>3. SortInv'
    BY <2>1, <2>2 DEF IInv, SortInv, OuterAt, CompareAt, Taken
  <2> QED
    BY <2>1, <2>3 DEF IInv
<1> QED
  BY <1>1, <1>2, <1>3, <1>4 DEF Next

(* The queues are rings of what is in them, whatever is called.            *)
THEOREM Invariant == Spec => []IInv
<1>1. Init => IInv
  BY InitIInv
<1>2. IInv /\ [Next]_vars => IInv'
  BY NextIInv
<1> QED
  BY <1>1, <1>2, PTL DEF Spec

(* queue.h: the links of the queues have their counterparts.               *)
THEOREM LinksCorrect == Spec => []LinksMatch
<1>1. IInv => LinksMatch
  BY RingsMatch DEF IInv, Rings, LinkType
<1> QED
  BY <1>1, Invariant, PTL

(* Queue_middle gives the middle element of any queue that is not empty.   *)
THEOREM MiddleCorrect == Spec => []MiddleIsMiddle
<1>1. IInv => MiddleIsMiddle
  BY MiddleIs DEF IInv, Rings, MiddleIsMiddle
<1> QED
  BY <1>1, Invariant, PTL

(* When Queue_sort is done its queue is in order, with the elements it     *)
(* had; and if cmp() never found the sentinel greater, those that compare  *)
(* equal have kept their order.                                            *)
THEOREM SortCorrect == Spec => []Sorted
<1>1. ASSUME IInv, SortDone
      PROVE  /\ InOrder(Elements(queue))
             /\ ToSet(Elements(queue)) = ToSet(before)
             /\ Len(Elements(queue)) = Len(before)
             /\ ~passed => KeepsOrder(Elements(queue), before)
  <2>1. pc = "outer" /\ q = queue /\ queue \in InUse /\ before \in Seq(Node)
    BY <1>1 DEF SortDone, IInv, SortInv
  <2>2. PICK s : s = Elements(queue)
    OBVIOUS
  <2>3. s = Lists[queue]
    BY <2>1, <2>2 DEF Lists
  <2>4. PICK i \in 1 .. Len(s) + 1 : OuterAt(s, i)
    BY <1>1, <2>1, <2>3 DEF IInv, SortInv
  <2>5. /\ Len(s) \in Nat /\ queue \notin Node /\ DOMAIN s = 1 .. Len(s)
        /\ \A k \in 1 .. Len(s) : s[k] \in Node
        /\ DOMAIN before = 1 .. Len(before) /\ \A k \in 1 .. Len(before) : before[k] \in Node
    BY <1>1, <2>1, <2>3, Domain, QueueAssumption DEF IInv, InUse
  <2>6. i = Len(s) + 1 /\ i - 1 = Len(s)
    BY <2>1, <2>4, <2>5 DEF OuterAt, At
  <2>7. InOrder(s)
    BY <2>4, <2>5, <2>6 DEF OuterAt, Sorting, InOrder
  <2>8. \A x \in Node : (\E k \in 1 .. Len(s) : s[k] = x)
                          <=> (\E k \in 1 .. Len(before) : before[k] = x)
    BY <2>4 DEF OuterAt
  <2>9. ToSet(s) = ToSet(before)
    BY <2>5, <2>8 DEF ToSet
  <2>10. ASSUME ~passed PROVE KeepsOrder(s, before)
    <3> SUFFICES ASSUME NEW j \in 1 .. Len(before), NEW k \in 1 .. Len(before),
                        j < k, Rank[before[j]] = Rank[before[k]]
                 PROVE  \E a, b \in 1 .. Len(s) : a < b /\ s[a] = before[j] /\ s[b] = before[k]
      BY <2>5 DEF KeepsOrder
    <3>1. PICK a \in 1 .. Len(s) : s[a] = before[j]
      BY <2>5, <2>8
    <3>2. PICK b \in 1 .. Len(s) : s[b] = before[k]
      BY <2>5, <2>8
    <3>3. \A e, f \in 1 .. Len(s) : \A c, d \in 1 .. Len(before) :
            e < f /\ Rank[s[e]] = Rank[s[f]] /\ s[e] = before[c] /\ s[f] = before[d] => c < d
      BY <2>4, <2>6, <2>10 DEF OuterAt, Stable
    <3>4. ~(b < a)
      <4> SUFFICES ASSUME b < a PROVE FALSE
        OBVIOUS
      <4>1. k < j
        BY <3>1, <3>2, <3>3
      <4> QED
        BY <4>1
    <3>5. a # b
      <4> SUFFICES ASSUME a = b PROVE FALSE
        OBVIOUS
      <4>1. before[j] = before[k] /\ j # k
        BY <3>1, <3>2
      <4> QED
        BY <1>1, <2>1, <4>1 DEF IInv, SortInv
    <3> QED
      BY <3>1, <3>2, <3>4, <3>5
  <2> QED
    BY <2>2, <2>4, <2>7, <2>9, <2>10 DEF OuterAt
<1>2. IInv => Sorted
  BY <1>1 DEF Sorted
<1> QED
  BY <1>2, Invariant, PTL

(* Each macro is the operation on sequences that it is to be, whoever      *)
(* calls it and whatever else is queued.                                   *)
THEOREM MacrosCorrect == Spec => ImplementsLists
<1> DEFINE Macros ==
      /\ \A h \in Sentinel \ linked : Queue_init(h) => QL!New(h)
      /\ \A h \in InUse, x \in Node \ linked :
           /\ Queue_insert_head(h, x) => QL!InsertFirst(h, x)
           /\ Queue_insert_tail(h, x) => QL!InsertLast(h, x)
      /\ \A y \in Node \cap linked, x \in Node \ linked :
           Queue_insert_after(y, x) => QL!InsertAfter(y, x)
      /\ \A x \in Node \cap linked : Queue_remove(x) => QL!Delete(x)
      /\ \A h \in InUse, m \in Sentinel \ linked : \A x \in ToSet(Lists[h]) :
           Queue_split(h, x, m) => QL!Split(h, x, m)
      /\ \A h, m \in InUse : h # m /\ Queue_add(h, m) => QL!Add(h, m)
<1>1. Init => QL!Init
  BY InitIInv
<1>2. ASSUME IInv PROVE Macros
  <2>1. Rings
    BY <1>2 DEF IInv
  <2>2. ASSUME NEW h \in InUse, NEW m \in Sentinel \ linked, NEW x \in ToSet(Lists[h]),
               Queue_split(h, x, m)
        PROVE  QL!Split(h, x, m)
    <3>1. PICK k \in 1 .. Len(Lists[h]) : x = Lists[h][k]
      BY <2>1, Domain DEF ToSet
    <3> QED
      BY <2>1, <2>2, <3>1, IsSplit
  <2> QED
    BY <2>1, <2>2, IsNew, IsInsertFirst, IsInsertLast, IsInsertAfter, IsDelete, IsAdd
<1>3. IInv /\ [Next]_vars => [Macros]_vars
  BY <1>2
<1> QED
  BY <1>1, <1>3, Invariant, PTL DEF Spec, ImplementsLists

(* The queues do what QueueList allows, Queue_sort's steps included.       *)
THEOREM QueuesAreLists == Spec => QL!Spec
<1>1. Init => QL!Init
  BY InitIInv
<1>2. IInv /\ [Next]_vars => [QL!Next]_Lists
  BY NextIInv
<1> QED
  BY <1>1, <1>2, Invariant, PTL DEF Spec, QL!Spec
=============================================================================
