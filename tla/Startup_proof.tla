--------------------------- MODULE Startup_proof ----------------------------
(***************************************************************************)
(* Whatever error_log directives there are and wherever a start fails or   *)
(* is interrupted: the chain of logs is one Log::log may walk, its files   *)
(* are shared, a failure is told on the terminal, and no message goes to   *)
(* the descriptor of the built-in log after it was closed.                 *)
(***************************************************************************)
EXTENDS Startup, WellFoundedInduction, TLAPS

AnyName == Name \cup {Stderr, LNX_ERROR_LOG_PATH}
OpenSet == [name : AnyName, fd : Int]
LogSet  == [level : Int, file : OpenSet \cup {NoFile}]
Unused  == <<[level |-> STDERR, file |-> NoFile]>>
Logs    == 1 .. Len(chain)
Files   == 1 .. Len(open_files)

ChainType ==
  /\ chain \in Seq(LogSet) /\ Len(chain) > 0
  /\ open_files \in Seq(OpenSet)
  /\ directives \in Nat /\ log_use_stderr \in BOOLEAN

(* The descriptors follow from the order in which files were opened.       *)
FilesInv ==
  /\ \A k \in Files :
       open_files[k].fd = IF open_files[k].name = Stderr THEN STDERR_FILENO
                          ELSE STDERR_FILENO + 1 + k
  /\ \A j, k \in Files : open_files[j].name = open_files[k].name => j = k
  /\ \A k \in Logs : chain[k].file = NoFile \/ chain[k].file \in ToSet(open_files)

Sorted == \A j, k \in Logs : j < k => chain[j].level >= chain[k].level

(* The head is unused until a directive has filled it, and no log is then. *)
LevelInv ==
  /\ chain = Unused \/ \A k \in Logs : chain[k].level # STDERR
  /\ chain = Unused => phase # "running" /\ (directives = 0 \/ phase = "failed")

(* log_use_stderr says whether a log is on stderr.                         *)
StderrLog == \E k \in Logs : chain[k].file.name = Stderr

StderrInv ==
  /\ StderrLog => log_use_stderr
  /\ log_use_stderr /\ phase # "failed" => StderrLog

(* As long as no open() fails every log that is used has a file.           *)
OpenedInv == Failing = {} /\ chain # Unused => \A k \in Logs : chain[k].file # NoFile

ChainInv == ChainType /\ FilesInv /\ Sorted /\ LevelInv /\ StderrInv /\ OpenedInv

-----------------------------------------------------------------------------
LEMMA LeastNatural ==
  ASSUME NEW T \in SUBSET Nat, T # {}
  PROVE  \E x \in T : \A y \in T : x <= y
<1>1. \A x, y \in Nat : <<y, x>> \notin OpToRel(<, Nat) <=> x <= y
  BY DEF OpToRel
<1>2. PICK x \in T : \A y \in T : <<y, x>> \notin OpToRel(<, Nat)
  BY NatLessThanWellFounded, WFMin
<1> QED
  BY <1>1, <1>2

LEMMA MinIs ==
  ASSUME NEW T \in SUBSET Nat, T # {}
  PROVE  Min(T) \in T /\ \A y \in T : Min(T) <= y
BY LeastNatural DEF Min

LEMMA ConcatIs ==
  ASSUME NEW S, NEW s \in Seq(S), NEW t \in Seq(S)
  PROVE  /\ s \o t \in Seq(S) /\ Len(s \o t) = Len(s) + Len(t)
         /\ \A i \in 1 .. Len(s) : (s \o t)[i] = s[i]
         /\ \A i \in 1 .. Len(t) : (s \o t)[Len(s) + i] = t[i]
OBVIOUS

LEMMA SubSeqIs ==
  ASSUME NEW S, NEW s \in Seq(S), NEW n \in 0 .. Len(s), NEW m \in 0 .. n
  PROVE  /\ SubSeq(s, m + 1, n) \in Seq(S) /\ Len(SubSeq(s, m + 1, n)) = n - m
         /\ \A i \in 1 .. n - m : SubSeq(s, m + 1, n)[i] = s[m + i]
OBVIOUS

(* What is before the place keeps its index, what is behind moves by one.  *)
LEMMA InsertIs ==
  ASSUME NEW S, NEW c \in Seq(S), NEW i \in 1 .. Len(c) + 1, NEW e \in S
  PROVE  /\ InsertAt(c, i, e) \in Seq(S) /\ Len(InsertAt(c, i, e)) = Len(c) + 1
         /\ \A k \in 1 .. i - 1 : InsertAt(c, i, e)[k] = c[k]
         /\ InsertAt(c, i, e)[i] = e
         /\ \A k \in i .. Len(c) : InsertAt(c, i, e)[k + 1] = c[k]
<1> DEFINE a == SubSeq(c, 1, i - 1)
           b == SubSeq(c, i, Len(c))
           d == a \o <<e>>
<1>1. Len(c) \in Nat /\ i \in Nat /\ i - 1 \in 0 .. Len(c) /\ i - 1 + 1 = i /\ 0 + 1 = 1
      /\ 0 \in 0 .. i - 1 /\ Len(c) \in 0 .. Len(c)
  OBVIOUS
<1>2. a \in Seq(S) /\ Len(a) = i - 1 /\ \A k \in 1 .. i - 1 : a[k] = c[k]
  <2>1. /\ SubSeq(c, 0 + 1, i - 1) \in Seq(S) /\ Len(SubSeq(c, 0 + 1, i - 1)) = i - 1 - 0
        /\ \A k \in 1 .. i - 1 - 0 : SubSeq(c, 0 + 1, i - 1)[k] = c[0 + k]
    BY <1>1, SubSeqIs
  <2> QED
    BY <1>1, <2>1
<1>3. b \in Seq(S) /\ Len(b) = Len(c) - (i - 1)
      /\ \A k \in 1 .. Len(c) - (i - 1) : b[k] = c[i - 1 + k]
  <2>1. /\ SubSeq(c, i - 1 + 1, Len(c)) \in Seq(S)
        /\ Len(SubSeq(c, i - 1 + 1, Len(c))) = Len(c) - (i - 1)
        /\ \A k \in 1 .. Len(c) - (i - 1) : SubSeq(c, i - 1 + 1, Len(c))[k] = c[i - 1 + k]
    BY <1>1, SubSeqIs
  <2> QED
    BY <1>1, <2>1
<1>4. <<e>> \in Seq(S) /\ Len(<<e>>) = 1 /\ <<e>>[1] = e
  OBVIOUS
<1> HIDE DEF a, b
<1>5. /\ d \in Seq(S) /\ Len(d) = i /\ d[i] = e
      /\ \A k \in 1 .. i - 1 : d[k] = c[k]
  <2>1. /\ d \in Seq(S) /\ Len(d) = Len(a) + Len(<<e>>)
        /\ \A k \in 1 .. Len(a) : d[k] = a[k]
        /\ \A k \in 1 .. Len(<<e>>) : d[Len(a) + k] = <<e>>[k]
    BY <1>2, <1>4, ConcatIs
  <2>2. d[Len(a) + 1] = e /\ Len(a) + 1 = i /\ Len(d) = i
    BY <1>1, <1>2, <1>4, <2>1
  <2> QED
    BY <1>2, <2>1, <2>2
<1> HIDE DEF d
<1>6. InsertAt(c, i, e) = d \o b
  BY DEF InsertAt, d, a, b
<1>7. /\ d \o b \in Seq(S) /\ Len(d \o b) = Len(d) + Len(b)
      /\ \A k \in 1 .. Len(d) : (d \o b)[k] = d[k]
      /\ \A k \in 1 .. Len(b) : (d \o b)[Len(d) + k] = b[k]
  BY <1>3, <1>5, ConcatIs
<1>8. \A k \in i .. Len(c) : (d \o b)[k + 1] = c[k]
  <2> SUFFICES ASSUME NEW k \in i .. Len(c) PROVE (d \o b)[k + 1] = c[k]
    OBVIOUS
  <2>1. k - (i - 1) \in 1 .. Len(b) /\ Len(d) + (k - (i - 1)) = k + 1
        /\ i - 1 + (k - (i - 1)) = k
    BY <1>1, <1>3, <1>5
  <2>2. (d \o b)[Len(d) + (k - (i - 1))] = b[k - (i - 1)]
    BY <1>7, <2>1
  <2>3. b[k - (i - 1)] = c[i - 1 + (k - (i - 1))]
    BY <1>3, <2>1
  <2> QED
    BY <2>1, <2>2, <2>3
<1>9. \A k \in 1 .. i - 1 : k \in 1 .. i
  BY <1>1
<1>10. Len(d \o b) = Len(c) + 1 /\ i \in 1 .. i
  BY <1>1, <1>3, <1>5, <1>7
<1> QED
  BY <1>5, <1>6, <1>7, <1>8, <1>9, <1>10

(* Log_insert puts a log behind the ones with its level or a higher one.   *)
LEMMA LogInsertIs ==
  ASSUME NEW c \in Seq(LogSet), NEW log \in LogSet
  PROVE  \E i \in 1 .. Len(c) + 1 :
           /\ Log_insert(c, log) = InsertAt(c, i, log)
           /\ \A k \in 1 .. i - 1 : ~(log.level > c[k].level)
           /\ i \in 1 .. Len(c) => log.level > c[i].level
<1> DEFINE lower == {k \in DOMAIN c : log.level > c[k].level}
<1>1. DOMAIN c = 1 .. Len(c) /\ Len(c) \in Nat /\ lower \in SUBSET Nat
  OBVIOUS
<1>2. \A k \in 1 .. Len(c) : k \in lower <=> log.level > c[k].level
  BY <1>1
<1>3. Log_insert(c, log) = InsertAt(c, IF lower = {} THEN Len(c) + 1 ELSE Min(lower), log)
  BY DEF Log_insert
<1>4. lower \subseteq 1 .. Len(c)
  BY <1>1
<1> HIDE DEF lower
<1>5. CASE lower = {}
  <2>1. PICK i \in 1 .. Len(c) + 1 : i = Len(c) + 1
    BY <1>1
  <2>2. Log_insert(c, log) = InsertAt(c, i, log)
    BY <1>5, <1>3, <2>1
  <2>3. i \notin 1 .. Len(c) /\ \A k \in 1 .. i - 1 : k \in 1 .. Len(c)
    BY <1>1, <2>1
  <2>4. \A k \in 1 .. i - 1 : ~(log.level > c[k].level)
    BY <1>5, <1>2, <2>3, Zenon
  <2> QED
    BY <2>2, <2>3, <2>4, Zenon
<1>6. CASE lower # {}
  <2>1. Min(lower) \in lower /\ \A y \in lower : Min(lower) <= y
    BY <1>1, <1>6, MinIs
  <2>2. Log_insert(c, log) = InsertAt(c, Min(lower), log)
    BY <1>6, <1>3
  <2>3. Min(lower) \in 1 .. Len(c) /\ Min(lower) \in 1 .. Len(c) + 1
    <3>1. \A x \in 1 .. Len(c) : x \in 1 .. Len(c) + 1
      BY <1>1
    <3> QED
      BY <1>4, <2>1, <3>1, Zenon
  <2>4. ASSUME NEW k \in 1 .. Min(lower) - 1 PROVE ~(log.level > c[k].level)
    <3>1. k \in 1 .. Len(c) /\ ~(Min(lower) <= k)
      BY <1>1, <2>3
    <3> QED
      BY <1>2, <2>1, <3>1
  <2>5. log.level > c[Min(lower)].level
    BY <1>2, <2>1, <2>3
  <2> QED
    BY <2>2, <2>3, <2>4, <2>5
<1> QED
  BY <1>5, <1>6

(* How log_set_log and log_open_default_ change the chain: the first log   *)
(* fills the head, any other goes to its place.                            *)
Adds(log) ==
  chain' = IF Head(chain).level = STDERR THEN <<log>> ELSE Log_insert(chain, log)

LEMMA FileIs ==
  ASSUME ChainType, FilesInv, NEW n \in AnyName, NEW f \in File, log_open_file(n, f)
  PROVE  /\ f \in OpenSet \cup {NoFile}
         /\ f = NoFile => n \in Failing
         /\ f # NoFile => f.name = n /\ f \in ToSet(open_files')
         /\ open_files' \in Seq(OpenSet)
         /\ ToSet(open_files) \subseteq ToSet(open_files')
         /\ \A k \in 1 .. Len(open_files') :
              open_files'[k].fd = IF open_files'[k].name = Stderr THEN STDERR_FILENO
                                  ELSE STDERR_FILENO + 1 + k
         /\ \A j, k \in 1 .. Len(open_files') :
              open_files'[j].name = open_files'[k].name => j = k
<1>1. open_files \in Seq(OpenSet) /\ Len(open_files) \in Nat
      /\ ToSet(open_files) = {open_files[k] : k \in Files}
  BY DEF ChainType, ToSet, Files
<1>2. CASE IsOpen(n) /\ f = OpenFile(n) /\ UNCHANGED open_files
  <2>1. \E g \in ToSet(open_files) : g.name = n
    BY <1>2 DEF IsOpen
  <2>2. f \in ToSet(open_files) /\ f.name = n
    BY <1>2, <2>1 DEF OpenFile
  <2>3. f \in OpenSet /\ f # NoFile
    <3>1. f \in OpenSet
      BY <1>1, <2>2 DEF Files
    <3>2. PICK k \in Files : f = open_files[k]
      BY <1>1, <2>2
    <3>3. f.fd # -1
      BY <1>1, <3>2 DEF FilesInv, Files, STDERR_FILENO
    <3>4. NoFile.fd = -1
      BY DEF NoFile
    <3> QED
      BY <3>1, <3>3, <3>4
  <2> QED
    BY <1>1, <1>2, <2>2, <2>3 DEF FilesInv, Files
<1>3. CASE /\ ~IsOpen(n) /\ f.name = n
           /\ f.fd = IF n = Stderr THEN STDERR_FILENO ELSE STDERR_FILENO + 2 + Len(open_files)
           /\ open_files' = Append(open_files, f)
  <2>1. f.fd # -1 /\ NoFile.fd = -1
    BY <1>1, <1>3 DEF STDERR_FILENO, NoFile
  <2>2. f \in OpenSet /\ f # NoFile
    <3>1. f # NoFile
      BY <2>1
    <3>2. f \in [name : AnyName, fd : STDERR_FILENO .. STDERR_FILENO + 2 + MaxLogs]
      BY <3>1 DEF File, AnyName
    <3> QED
      BY <3>1, <3>2 DEF OpenSet
  <2>3. /\ open_files' \in Seq(OpenSet) /\ Len(open_files') = Len(open_files) + 1
        /\ \A k \in Files : open_files'[k] = open_files[k]
        /\ open_files'[Len(open_files) + 1] = f
    BY <1>1, <1>3, <2>2 DEF Files
  <2>4. ToSet(open_files') = {open_files'[k] : k \in 1 .. Len(open_files')}
    BY <2>3 DEF ToSet
  <2>5. /\ \A k \in 1 .. Len(open_files') : k \in Files \/ k = Len(open_files) + 1
        /\ \A k \in Files : k \in 1 .. Len(open_files')
        /\ Len(open_files) + 1 \in 1 .. Len(open_files')
    BY <1>1, <2>3 DEF Files
  <2>6. ToSet(open_files) \subseteq ToSet(open_files') /\ f \in ToSet(open_files')
    BY <1>1, <2>3, <2>4, <2>5
  <2>7. \A k \in Files : open_files[k].name # n
    BY <1>1, <1>3 DEF IsOpen
  <2>8. ASSUME NEW k \in 1 .. Len(open_files')
        PROVE  open_files'[k].fd = IF open_files'[k].name = Stderr THEN STDERR_FILENO
                                   ELSE STDERR_FILENO + 1 + k
    <3>1. CASE k \in Files
      BY <2>3, <3>1 DEF FilesInv
    <3>2. CASE k = Len(open_files) + 1
      <4>1. STDERR_FILENO + 1 + k = STDERR_FILENO + 2 + Len(open_files)
        BY <1>1, <3>2 DEF STDERR_FILENO
      <4> QED
        BY <1>3, <2>3, <3>2, <4>1
    <3> QED
      BY <2>5, <3>1, <3>2
  <2>9. ASSUME NEW j \in 1 .. Len(open_files'), NEW k \in 1 .. Len(open_files'),
               open_files'[j].name = open_files'[k].name
        PROVE  j = k
    <3>1. CASE j \in Files /\ k \in Files
      BY <2>3, <2>9, <3>1 DEF FilesInv
    <3>2. CASE j \in Files /\ k = Len(open_files) + 1
      BY <1>3, <2>3, <2>7, <2>9, <3>2
    <3>3. CASE j = Len(open_files) + 1 /\ k \in Files
      BY <1>3, <2>3, <2>7, <2>9, <3>3
    <3> QED
      BY <2>5, <3>1, <3>2, <3>3
  <2> QED
    BY <1>3, <2>2, <2>3, <2>6, <2>8, <2>9
<1>4. CASE ~IsOpen(n) /\ n \in Failing /\ f = NoFile /\ UNCHANGED open_files
  BY <1>1, <1>4 DEF FilesInv, Files
<1> QED
  BY <1>2, <1>3, <1>4 DEF log_open_file

(* The chain with a log more.                                              *)
LEMMA AddIs ==
  ASSUME ChainType, FilesInv, Sorted, LevelInv, NEW log \in LogSet, log.level # STDERR,
         Adds(log)
  PROVE  /\ chain' \in Seq(LogSet) /\ Len(chain') > 0 /\ Sorted'
         /\ \A k \in Logs' : chain'[k].level # STDERR
         /\ \E k \in Logs' : chain'[k] = log
         /\ \A k \in Logs' : chain'[k] = log \/ \E j \in Logs : chain'[k] = chain[j]
         /\ chain = Unused => \A k \in Logs' : chain'[k] = log
         /\ chain # Unused => \A j \in Logs : \E k \in Logs' : chain'[k] = chain[j]
<1>1. chain \in Seq(LogSet) /\ Len(chain) \in Nat /\ Len(chain) > 0 /\ Head(chain) = chain[1]
      /\ 1 \in Logs
  BY DEF ChainType, Logs
<1>2. CASE chain = Unused
  <2>1. Head(chain).level = STDERR
    BY <1>2 DEF Unused
  <2>2. chain' = <<log>>
    BY <2>1 DEF Adds
  <2>3. chain' \in Seq(LogSet) /\ Len(chain') = 1 /\ chain'[1] = log
    BY <2>2
  <2>4. \A k \in Logs' : k = 1
    BY <2>3 DEF Logs
  <2>5. 1 \in Logs'
    BY <2>3 DEF Logs
  <2>6. log.level >= log.level
    BY DEF LogSet
  <2> QED
    BY <1>2, <2>3, <2>4, <2>5, <2>6 DEF Sorted
<1>3. CASE chain # Unused
  <2>1. \A k \in Logs : chain[k].level # STDERR
    BY <1>3 DEF LevelInv
  <2>2. chain' = Log_insert(chain, log)
    BY <1>1, <2>1 DEF Adds
  <2>3. PICK i \in 1 .. Len(chain) + 1 :
          /\ Log_insert(chain, log) = InsertAt(chain, i, log)
          /\ \A k \in 1 .. i - 1 : ~(log.level > chain[k].level)
          /\ i \in 1 .. Len(chain) => log.level > chain[i].level
    BY <1>1, LogInsertIs
  <2>4. /\ chain' \in Seq(LogSet) /\ Len(chain') = Len(chain) + 1
        /\ \A k \in 1 .. i - 1 : chain'[k] = chain[k]
        /\ chain'[i] = log
        /\ \A k \in i .. Len(chain) : chain'[k + 1] = chain[k]
    BY <1>1, <2>2, <2>3, InsertIs
  <2>5. i \in Nat /\ i >= 1 /\ i <= Len(chain) + 1
    BY <1>1, <2>3
  <2>6. ASSUME NEW k \in Logs'
        PROVE  \/ k < i /\ k \in Logs /\ chain'[k] = chain[k]
               \/ k = i /\ chain'[k] = log
               \/ k > i /\ k - 1 \in Logs /\ chain'[k] = chain[k - 1]
    <3>1. k \in Nat /\ k >= 1 /\ k <= Len(chain) + 1
      BY <2>4, <1>1 DEF Logs
    <3>2. CASE k < i
      <4>1. k \in 1 .. i - 1 /\ k \in Logs
        BY <1>1, <2>5, <3>1, <3>2 DEF Logs
      <4> QED
        BY <2>4, <3>2, <4>1
    <3>3. CASE k = i
      BY <2>4, <3>3
    <3>4. CASE k > i
      <4>1. k - 1 \in i .. Len(chain) /\ k - 1 \in Logs /\ k - 1 + 1 = k
        BY <1>1, <2>5, <3>1, <3>4 DEF Logs
      <4> QED
        BY <2>4, <3>4, <4>1
    <3> QED
      BY <2>5, <3>1, <3>2, <3>3, <3>4
  <2>7. i \in Logs' /\ \A k \in Logs : k \in Logs' /\ k + 1 \in Logs'
    BY <1>1, <2>4, <2>5 DEF Logs
  <2>8. ASSUME NEW j \in Logs
        PROVE  \E k \in Logs' : chain'[k] = chain[j]
    <3>1. CASE j < i
      <4>1. j \in 1 .. i - 1
        BY <2>5, <3>1 DEF Logs
      <4> QED
        BY <2>4, <2>7, <4>1
    <3>2. CASE ~(j < i)
      <4>1. j \in i .. Len(chain)
        BY <1>1, <2>5, <3>2 DEF Logs
      <4> QED
        BY <2>4, <2>7, <4>1
    <3> QED
      BY <3>1, <3>2
  <2>9. Sorted'
    <3>1. \A k \in Logs : chain[k].level \in Int /\ k \in Int
      <4>1. \A k \in Logs : chain[k] \in LogSet /\ k \in Int
        BY <1>1 DEF Logs
      <4> QED
        BY <4>1 DEF LogSet
    <3>2. log.level \in Int
      BY DEF LogSet
    <3>3. \A k \in Logs : k < i => chain[k].level >= log.level
      <4>1. \A k \in Logs : k < i => k \in 1 .. i - 1
        BY <1>1, <2>5 DEF Logs
      <4> QED
        BY <2>3, <3>1, <3>2, <4>1
    <3>4. \A k \in Logs : k >= i => log.level >= chain[k].level
      <4> SUFFICES ASSUME NEW k \in Logs, k >= i PROVE log.level >= chain[k].level
        OBVIOUS
      <4>1. i \in Logs
        BY <1>1, <2>5 DEF Logs
      <4>2. log.level > chain[i].level
        BY <2>3, <4>1 DEF Logs
      <4>3. chain[i].level >= chain[k].level
        <5>1. CASE i = k
          BY <3>1, <4>1, <5>1
        <5>2. CASE i # k
          BY <3>1, <4>1, <5>2 DEF Sorted
        <5> QED
          BY <5>1, <5>2
      <4> QED
        BY <3>1, <3>2, <4>1, <4>2, <4>3
    <3>5. ASSUME NEW j \in Logs', NEW k \in Logs', j < k
          PROVE  chain'[j].level >= chain'[k].level
      <4>1. j \in Int /\ k \in Int
        BY <2>4, <1>1 DEF Logs
      <4>2. CASE j < i /\ k < i
        <5>1. /\ j \in Logs /\ chain'[j] = chain[j]
              /\ k \in Logs /\ chain'[k] = chain[k]
          BY <2>5, <2>6, <4>1, <4>2
        <5>2. chain[j].level >= chain[k].level
          BY <3>5, <5>1 DEF Sorted
        <5> QED
          BY <5>1, <5>2
      <4>3. CASE j < i /\ k = i
        BY <2>4, <2>6, <3>3, <4>3
      <4>4. CASE j < i /\ k > i
        <5>1. /\ j \in Logs /\ chain'[j] = chain[j] /\ k - 1 \in Logs
              /\ chain'[k] = chain[k - 1] /\ k - 1 >= i
          BY <2>5, <2>6, <4>1, <4>4
        <5> QED
          BY <3>1, <3>2, <3>3, <3>4, <4>4, <5>1
      <4>5. CASE j = i /\ k > i
        <5>1. k - 1 \in Logs /\ chain'[k] = chain[k - 1] /\ k - 1 >= i
          BY <2>5, <2>6, <4>1, <4>5
        <5> QED
          BY <2>4, <3>4, <4>5, <5>1
      <4>6. CASE j > i
        <5>1. /\ k > i /\ j - 1 < k - 1 /\ j - 1 \in Logs /\ k - 1 \in Logs
              /\ chain'[j] = chain[j - 1] /\ chain'[k] = chain[k - 1]
          BY <2>5, <2>6, <3>5, <4>1, <4>6
        <5>2. chain[j - 1].level >= chain[k - 1].level
          <6>1. \A a, b \in Logs : a < b => chain[a].level >= chain[b].level
            BY DEF Sorted
          <6> QED
            BY <5>1, <6>1
        <5> QED
          BY <5>1, <5>2
      <4> QED
        BY <2>5, <3>5, <4>1, <4>2, <4>3, <4>4, <4>5, <4>6
    <3> QED
      BY <3>5 DEF Sorted
  <2>10. \A k \in Logs' : chain'[k] = log \/ \E j \in Logs : chain'[k] = chain[j]
    BY <2>6
  <2>11. \A k \in Logs' : chain'[k].level # STDERR
    BY <2>1, <2>10
  <2>12. Len(chain') > 0 /\ \E k \in Logs' : chain'[k] = log
    BY <1>1, <2>4, <2>7
  <2> QED
    BY <1>3, <2>4, <2>8, <2>9, <2>10, <2>11, <2>12
<1> QED
  BY <1>2, <1>3

-----------------------------------------------------------------------------
(* The fold of Log_set_levels_ over a directive's words is a function that *)
(* satisfies its recursion, and there is one for the two words of a bound. *)
Folds(words, g) ==
  g = [s \in SUBSET DOMAIN words |->
         IF s = {} THEN STDERR ELSE AddWord(g[s \ {Max(s)}], words[Max(s)])]

LEMMA FoldIs ==
  ASSUME NEW words, NEW h, Folds(words, h)
  PROVE  \E g : Folds(words, g) /\ FoldLeft(AddWord, STDERR, words) = g[DOMAIN words]
<1> DEFINE it == CHOOSE g : g = [s \in SUBSET DOMAIN words |->
         IF s = {} THEN STDERR ELSE AddWord(g[s \ {Max(s)}], words[Max(s)])]
<1>1. Folds(words, it)
  BY DEF Folds
<1>2. FoldLeft(AddWord, STDERR, words) = it[DOMAIN words]
  BY Zenon DEF FoldLeft, MapThenFoldSet
<1> QED
  BY <1>1, <1>2

LEMMA MaxOfTwo ==
  /\ Max({1}) = 1 /\ Max({2}) = 2 /\ Max({1, 2}) = 2
  /\ {1} \ {1} = {} /\ {2} \ {2} = {} /\ {1, 2} \ {2} = {1}
<1>1. Max({1}) = 1 /\ Max({2}) = 2
  BY DEF Max
<1>2. Max({1, 2}) \in {1, 2} /\ \A y \in {1, 2} : Max({1, 2}) >= y
  <2>1. 2 \in {1, 2} /\ \A y \in {1, 2} : 2 >= y
    OBVIOUS
  <2> QED
    BY <2>1 DEF Max
<1> QED
  BY <1>1, <1>2

(* A word makes a level, or CONF_ERROR, which is -1, of any that is none.  *)
LEMMA AddWordIs ==
  ASSUME NEW l \in Int, l = STDERR \/ l = -1 \/ l > 0, NEW w \in LevelWord
  PROVE  AddWord(l, w) \in Int /\ (AddWord(l, w) = -1 \/ AddWord(l, w) > 0)
<1>1. w \in Int /\ w > 0 /\ STDERR = 0 /\ DEBUG = 8
  BY DEF LevelWord, STDERR, DEBUG
<1>2. l = 0 => ~HasBit(l, w)
  BY DEF HasBit, LevelWord
<1> HIDE DEF HasBit
<1> QED
  BY <1>1, <1>2 DEF AddWord, IsBit

LEMMA LevelIs ==
  ASSUME NEW k \in 0 .. 2, NEW words \in [1 .. k -> LevelWord]
  PROVE  LevelOf(words) \in Int \ {STDERR}
<1> DEFINE h == [s \in SUBSET (1 .. k) |->
                   IF s = {} THEN STDERR
                   ELSE IF s = {1, 2} THEN AddWord(AddWord(STDERR, words[1]), words[2])
                   ELSE AddWord(STDERR, words[Max(s)])]
           l == FoldLeft(AddWord, STDERR, words)
<1>1. DOMAIN words = 1 .. k /\ 1 .. k \subseteq {1, 2}
  OBVIOUS
<1>2. \A s \in SUBSET (1 .. k) : s \in {{}, {1}, {2}, {1, 2}}
  BY <1>1
<1>3. Folds(words, h)
  <2>1. ASSUME NEW s \in SUBSET (1 .. k)
        PROVE  h[s] = IF s = {} THEN STDERR ELSE AddWord(h[s \ {Max(s)}], words[Max(s)])
    <3>1. h[{}] = STDERR
      OBVIOUS
    <3>2. CASE s = {}
      BY <3>2
    <3>3. CASE s = {1}
      BY <3>1, <3>3, MaxOfTwo
    <3>4. CASE s = {2}
      BY <3>1, <3>4, MaxOfTwo
    <3>5. CASE s = {1, 2}
      <4>1. {1} \in SUBSET (1 .. k) /\ {1} # {} /\ {1} # {1, 2}
        BY <3>5
      <4>2. h[{1}] = AddWord(STDERR, words[1])
        BY <4>1, MaxOfTwo
      <4> QED
        BY <3>5, <4>2, MaxOfTwo
    <3> QED
      BY <1>2, <3>2, <3>3, <3>4, <3>5
  <2> QED
    BY <1>1, <2>1 DEF Folds
<1>4. PICK g : Folds(words, g) /\ l = g[1 .. k]
  BY <1>1, <1>3, FoldIs
<1>5. \A s \in SUBSET (1 .. k) :
        g[s] = IF s = {} THEN STDERR ELSE AddWord(g[s \ {Max(s)}], words[Max(s)])
  BY <1>1, <1>4 DEF Folds
<1> HIDE DEF h, l
<1>6. words # <<>> => k # 0
  OBVIOUS
<1>7. k # 0 => l \in Int /\ (l = -1 \/ l > 0)
  <2>1. g[{}] = STDERR /\ STDERR \in Int
    <3>1. {} \in SUBSET (1 .. k) /\ STDERR \in Int
      BY DEF STDERR
    <3>2. g[{}] = IF {} = {} THEN STDERR ELSE AddWord(g[{} \ {Max({})}], words[Max({})])
      BY <1>5, <3>1, Zenon
    <3> QED
      BY <3>1, <3>2
  <2>2. CASE k = 1
    <3>1. 1 .. k = {1} /\ words[1] \in LevelWord /\ {1} # {}
      BY <2>2
    <3>2. l = AddWord(STDERR, words[1])
      BY <1>4, <1>5, <2>1, <3>1, MaxOfTwo
    <3> QED
      BY <2>1, <3>1, <3>2, AddWordIs
  <2>3. CASE k = 2
    <3>1. /\ 1 .. k = {1, 2} /\ words[1] \in LevelWord /\ words[2] \in LevelWord
          /\ {1} # {} /\ {1, 2} # {}
      BY <2>3
    <3>2. g[{1}] = AddWord(STDERR, words[1]) /\ l = AddWord(g[{1}], words[2])
      <4>1. g[{1}] = AddWord(g[{1} \ {Max({1})}], words[Max({1})])
        BY <1>5, <3>1
      <4>2. g[{1, 2}] = AddWord(g[{1, 2} \ {Max({1, 2})}], words[Max({1, 2})])
        BY <1>5, <3>1
      <4> QED
        BY <1>4, <2>1, <3>1, <4>1, <4>2, MaxOfTwo
    <3>3. g[{1}] \in Int /\ (g[{1}] = -1 \/ g[{1}] > 0)
      BY <2>1, <3>1, <3>2, AddWordIs
    <3> QED
      BY <3>1, <3>2, <3>3, AddWordIs
  <2> QED
    BY <2>2, <2>3
<1>8. LevelOf(words) = IF words = <<>> THEN ERROR ELSE IF l = DEBUG THEN DEBUG_ALL ELSE l
  BY DEF LevelOf, l
<1>9. ERROR \in Int /\ DEBUG_ALL \in Int /\ ERROR # 0 /\ DEBUG_ALL # 0 /\ STDERR = 0
  BY DEF ERROR, DEBUG_ALL, STDERR
<1> QED
  BY <1>6, <1>7, <1>8, <1>9

-----------------------------------------------------------------------------
(* Log_set_log and log_open_default_.                                      *)
LEMMA ChainInit == Init => ChainInv
<1> SUFFICES ASSUME Init PROVE ChainInv
  OBVIOUS
<1>1. chain = Unused /\ open_files = <<>> /\ directives = 0 /\ ~log_use_stderr
      /\ log_use_stderr \in BOOLEAN /\ phase = "conf"
  BY DEF Init, Unused
<1>2. Unused \in Seq(LogSet) /\ Len(Unused) = 1 /\ Unused[1].file = NoFile
      /\ Unused[1].file.name = "nullptr"
  BY DEF Unused, LogSet, STDERR, NoFile
<1>3. \A k \in Logs : k = 1
  BY <1>1, <1>2 DEF Logs
<1>4. ChainType
  BY <1>1, <1>2 DEF ChainType
<1>5. Files = {}
  BY <1>1 DEF Files
<1>6. FilesInv
  BY <1>1, <1>2, <1>3, <1>5 DEF FilesInv
<1>7. Sorted
  BY <1>3 DEF Sorted
<1>8. LevelInv
  BY <1>1 DEF LevelInv
<1>9. StderrInv
  BY <1>1, <1>2, <1>3 DEF StderrInv, StderrLog, Stderr
<1>10. OpenedInv
  BY <1>1 DEF OpenedInv
<1> QED
  BY <1>4, <1>6, <1>7, <1>8, <1>9, <1>10 DEF ChainInv

LEMMA WithFile ==
  ASSUME ChainInv, NEW n \in AnyName, NEW f \in File, log_open_file(n, f),
         NEW l \in Int \ {STDERR}, Adds([level |-> l, file |-> f]),
         directives' \in Nat, log_use_stderr' = (log_use_stderr \/ n = Stderr),
         phase # "failed", phase' # "failed"
  PROVE  ChainInv'
<1> DEFINE log == [level |-> l, file |-> f]
<1>1. ChainType /\ FilesInv /\ Sorted /\ LevelInv /\ StderrInv /\ OpenedInv
  BY DEF ChainInv
<1>2. /\ f \in OpenSet \cup {NoFile}
      /\ f = NoFile => n \in Failing
      /\ f # NoFile => f.name = n /\ f \in ToSet(open_files')
      /\ open_files' \in Seq(OpenSet)
      /\ ToSet(open_files) \subseteq ToSet(open_files')
      /\ \A k \in 1 .. Len(open_files') :
           open_files'[k].fd = IF open_files'[k].name = Stderr THEN STDERR_FILENO
                               ELSE STDERR_FILENO + 1 + k
      /\ \A j, k \in 1 .. Len(open_files') :
           open_files'[j].name = open_files'[k].name => j = k
  BY <1>1, FileIs
<1>3. log \in LogSet /\ log.level # STDERR /\ log.file = f
  BY <1>2 DEF LogSet
<1> HIDE DEF log
<1>4. Adds(log)
  BY DEF log
<1>5. /\ chain' \in Seq(LogSet) /\ Len(chain') > 0 /\ Sorted'
      /\ \A k \in Logs' : chain'[k].level # STDERR
      /\ \E k \in Logs' : chain'[k] = log
      /\ \A k \in Logs' : chain'[k] = log \/ \E j \in Logs : chain'[k] = chain[j]
      /\ chain = Unused => \A k \in Logs' : chain'[k] = log
      /\ chain # Unused => \A j \in Logs : \E k \in Logs' : chain'[k] = chain[j]
  BY <1>1, <1>3, <1>4, AddIs
<1>6. ChainType'
  BY <1>1, <1>2, <1>5 DEF ChainType
<1>7. FilesInv'
  <2>1. \A k \in Logs' : chain'[k].file = NoFile \/ chain'[k].file \in ToSet(open_files')
    <3>1. \A j \in Logs : chain[j].file = NoFile \/ chain[j].file \in ToSet(open_files')
      BY <1>1, <1>2 DEF FilesInv
    <3>2. log.file = NoFile \/ log.file \in ToSet(open_files')
      BY <1>2, <1>3
    <3>3. \A k \in Logs' : chain'[k] = log \/ \E j \in Logs : chain'[k] = chain[j]
      BY <1>5
    <3> QED
      BY <3>1, <3>2, <3>3
  <2> QED
    BY <1>2, <2>1 DEF FilesInv, Files
<1>8. LevelInv'
  <2>1. 1 \in Logs'
    BY <1>5 DEF Logs
  <2>2. chain' # Unused
    <3>1. chain'[1].level # STDERR /\ Unused[1].level = STDERR
      BY <1>5, <2>1 DEF Unused
    <3> QED
      BY <3>1
  <2> QED
    BY <1>5, <2>2 DEF LevelInv
<1>9. StderrInv'
  <2>1. Stderr \notin Failing /\ NoFile.name # Stderr
    BY NamesAssumption, LogAssumption DEF NoFile, Stderr
  <2>2. f.name = Stderr <=> n = Stderr
    BY <1>2, <2>1
  <2>3. ASSUME StderrLog' PROVE log_use_stderr'
    <3>1. PICK k \in Logs' : chain'[k].file.name = Stderr
      BY <2>3 DEF StderrLog
    <3>2. CASE chain'[k] = log
      BY <1>3, <2>2, <3>1, <3>2
    <3>3. CASE \E j \in Logs : chain'[k] = chain[j]
      BY <1>1, <3>1, <3>3 DEF StderrInv, StderrLog
    <3> QED
      BY <1>5, <3>2, <3>3
  <2>4. ASSUME log_use_stderr' PROVE StderrLog'
    <3>1. CASE n = Stderr
      BY <1>3, <1>5, <2>2, <3>1 DEF StderrLog
    <3>2. CASE n # Stderr
      <4>1. StderrLog
        BY <1>1, <2>4, <3>2 DEF StderrInv
      <4>2. chain # Unused
        <5>1. Unused[1].file.name # Stderr /\ \A k \in 1 .. Len(Unused) : k = 1
          BY <2>1 DEF Unused
        <5> QED
          BY <4>1, <5>1 DEF StderrLog, Logs
      <4> QED
        BY <1>5, <4>1, <4>2 DEF StderrLog
    <3> QED
      BY <3>1, <3>2
  <2> QED
    BY <2>3, <2>4 DEF StderrInv
<1>10. OpenedInv'
  <2>1. Failing = {} => f # NoFile
    BY <1>2
  <2> QED
    BY <1>1, <1>3, <1>5, <2>1 DEF OpenedInv
<1> QED
  BY <1>5, <1>6, <1>7, <1>8, <1>9, <1>10 DEF ChainInv

LEMMA SetLogKeeps ==
  ASSUME ChainInv, NEW n \in Name \cup {Stderr}, NEW k \in 0 .. 2,
         NEW words \in [1 .. k -> Word], Log_set_log(n, words)
  PROVE  ChainInv'
<1>1. LevelOf(words) \in Int \ {STDERR}
  BY LevelIs, LogAssumption
<1>2. PICK f \in File :
        /\ log_open_file(n, f)
        /\ LET log == [level |-> LevelOf(words), file |-> f] IN
           \/ log.level = -1 /\ phase' = "failed" /\ UNCHANGED chain
           \/ /\ log.level # -1
              /\ chain' = IF Head(chain).level = STDERR
                          THEN <<log>> ELSE Log_insert(chain, log)
              /\ UNCHANGED phase
  BY DEF Log_set_log
<1>3. /\ phase = "conf" /\ directives' = directives + 1 /\ directives \in Nat
      /\ log_use_stderr' = (log_use_stderr \/ n = Stderr)
      /\ n \in AnyName
  BY DEF Log_set_log, ChainInv, ChainType, AnyName
<1>4. CASE phase' = "failed" /\ UNCHANGED chain
  <2>1. /\ open_files' \in Seq(OpenSet)
        /\ ToSet(open_files) \subseteq ToSet(open_files')
        /\ \A i \in 1 .. Len(open_files') :
             open_files'[i].fd = IF open_files'[i].name = Stderr THEN STDERR_FILENO
                                 ELSE STDERR_FILENO + 1 + i
        /\ \A j, i \in 1 .. Len(open_files') :
             open_files'[j].name = open_files'[i].name => j = i
    BY <1>2, <1>3, FileIs DEF ChainInv
  <2>2. ChainType'
    BY <1>3, <1>4, <2>1 DEF ChainInv, ChainType
  <2>3. FilesInv'
    BY <1>4, <2>1 DEF ChainInv, FilesInv, Files, Logs
  <2>4. Sorted' /\ LevelInv' /\ StderrInv' /\ OpenedInv'
    BY <1>3, <1>4 DEF ChainInv, Sorted, LevelInv, StderrInv, StderrLog, OpenedInv, Logs
  <2> QED
    BY <2>2, <2>3, <2>4 DEF ChainInv
<1>5. CASE /\ Adds([level |-> LevelOf(words), file |-> f])
           /\ UNCHANGED phase
  <2>1. directives' \in Nat /\ phase # "failed" /\ phase' # "failed"
    BY <1>3, <1>5
  <2> QED
    BY <1>1, <1>2, <1>3, <1>5, <2>1, WithFile
<1> QED
  BY <1>2, <1>4, <1>5 DEF Adds

LEMMA DefaultKeeps == ASSUME ChainInv, log_open_default_ PROVE ChainInv'
<1>1. /\ phase = "conf" /\ phase' = "running" /\ UNCHANGED <<log_use_stderr, directives>>
  BY DEF log_open_default_
<1>2. CASE NeedsDefault
  <2>1. PICK f \in File :
          /\ log_open_file(LNX_ERROR_LOG_PATH, f)
          /\ Adds([level |-> ERROR, file |-> f])
    BY <1>2 DEF log_open_default_, Adds
  <2>2. /\ ERROR \in Int \ {STDERR} /\ LNX_ERROR_LOG_PATH \in AnyName
        /\ LNX_ERROR_LOG_PATH # Stderr
    BY NamesAssumption DEF ERROR, STDERR, AnyName
  <2>3. directives' \in Nat /\ log_use_stderr' = (log_use_stderr \/ LNX_ERROR_LOG_PATH = Stderr)
        /\ phase # "failed" /\ phase' # "failed"
    BY <1>1, <2>2 DEF ChainInv, ChainType
  <2> QED
    BY <2>1, <2>2, <2>3, WithFile
<1>3. CASE ~NeedsDefault
  <2>1. UNCHANGED <<chain, open_files>>
    BY <1>3 DEF log_open_default_
  <2>2. chain # Unused
    <3>1. \A k \in DOMAIN Unused : Unused[k].file = NoFile
      BY DEF Unused
    <3> QED
      BY <1>3, <3>1 DEF NeedsDefault
  <2>3. ChainType' /\ FilesInv'
    BY <1>1, <2>1 DEF ChainInv, ChainType, FilesInv, Files, Logs
  <2>4. Sorted' /\ LevelInv' /\ StderrInv' /\ OpenedInv'
    BY <1>1, <2>1, <2>2 DEF ChainInv, Sorted, LevelInv, StderrInv, StderrLog, OpenedInv, Logs
  <2> QED
    BY <2>3, <2>4 DEF ChainInv
<1> QED
  BY <1>2, <1>3

LEMMA ChainStutters == ASSUME ChainInv, UNCHANGED vars PROVE ChainInv'
BY DEF vars, ChainInv, ChainType, FilesInv, Files, Sorted, LevelInv, StderrInv, StderrLog, Logs,
       OpenedInv

-----------------------------------------------------------------------------
(* main(): which logs there are at its steps, and where stderr leads to.   *)
Early == {"options", "log", "conf", "test", "default", "signal"}
Late  == {"signals", "daemon", "pidfile", "redirect", "close", "process", "serving"}

BuiltinFile == [name |-> LNX_ERROR_LOG_PATH, fd |-> STDERR_FILENO + 1]
StderrFile  == [name |-> Stderr, fd |-> STDERR_FILENO]

CycleInv ==
  /\ at \in Early => phase = "conf"
  /\ at \in Late \cup {"cycle"} => phase = "running" /\ log_ = "chain"
  /\ at \in Late => Cur_cycle = "chain"
  /\ log_ \in {"builtin", "chain"} /\ Cur_cycle \in {"builtin", "chain"}
  /\ builtin \in [level : Int, file : {NoFile, BuiltinFile, StderrFile}]
  /\ at \notin {"options", "log", "failed", "exited"} => builtin.file # NoFile
  /\ closed => at \in {"process", "serving", "exited", "failed"} /\ builtin.file = BuiltinFile
  /\ at = "signal" => signal # ""

TermInv ==
  /\ stderr # Closed
  /\ at \notin {"close", "process", "serving", "exited", "failed"} =>
       stderr = Terminal /\ Use_stderr
  /\ at \in {"close", "process", "serving"} =>
       stderr = IF KeepStderr THEN Terminal ELSE Head(chain).file.name
  /\ at \in {"process", "serving"} => ~Use_stderr

SInv == ChainInv /\ CycleInv /\ TermInv /\ WritesLand /\ FailureIsTold

-----------------------------------------------------------------------------
LEMMA NamesAre ==
  /\ \A f \in OpenSet \cup {NoFile} : f.name \notin {Terminal, Closed}
  /\ LNX_ERROR_LOG_PATH \notin {Stderr, "nullptr"}
BY NamesAssumption DEF OpenSet, AnyName, NoFile, Terminal, Closed, Stderr

LEMMA LogsAre ==
  ASSUME ChainInv, CycleInv, NEW cycle \in {"builtin", "chain"}
  PROVE  /\ LogsOf(cycle) \in Seq(LogSet) /\ Len(LogsOf(cycle)) > 0
         /\ Head(LogsOf(cycle)) = LogsOf(cycle)[1]
         /\ Head(LogsOf(cycle)).level \in Int
<1>1. builtin \in LogSet
  <2>1. BuiltinFile \in OpenSet /\ StderrFile \in OpenSet
    BY DEF BuiltinFile, StderrFile, OpenSet, AnyName, STDERR_FILENO
  <2> QED
    BY <2>1 DEF CycleInv, LogSet
<1>2. chain \in Seq(LogSet) /\ Len(chain) > 0
  BY DEF ChainInv, ChainType
<1>3. LogsOf(cycle) \in Seq(LogSet) /\ Len(LogsOf(cycle)) > 0
  <2>1. <<builtin>> \in Seq(LogSet) /\ Len(<<builtin>>) = 1
    BY <1>1
  <2> QED
    BY <1>2, <2>1 DEF LogsOf
<1> HIDE DEF LogsOf
<1>4. Head(LogsOf(cycle)) = LogsOf(cycle)[1] /\ LogsOf(cycle)[1] \in LogSet
  BY <1>3
<1> QED
  BY <1>3, <1>4 DEF LogSet

(* Log::log stops at the first log with too low a level.                   *)
LEMMA WrittenIs ==
  ASSUME NEW c \in Seq(LogSet), NEW lvl \in Int
  PROVE  \E m \in 0 .. Len(c) : Written(c, lvl) = 1 .. m
<1>1. DOMAIN c = 1 .. Len(c) /\ Len(c) \in Nat
  OBVIOUS
<1>2. CASE Written(c, lvl) = 1 .. Len(c)
  <2>1. Len(c) \in 0 .. Len(c)
    BY <1>1
  <2> QED
    BY <1>2, <2>1, Zenon
<1>3. CASE Written(c, lvl) # 1 .. Len(c)
  <2> DEFINE T == {k \in 1 .. Len(c) : ~(c[k].level >= lvl)}
  <2>1. T \in SUBSET Nat /\ T # {}
    BY <1>1, <1>3 DEF Written
  <2>2. PICK x \in T : \A y \in T : x <= y
    BY <2>1, LeastNatural
  <2>3. x \in 1 .. Len(c) /\ ~(c[x].level >= lvl)
    BY <2>2
  <2>4. \A j \in 1 .. x - 1 : c[j].level >= lvl
    <3> SUFFICES ASSUME NEW j \in 1 .. x - 1, ~(c[j].level >= lvl) PROVE FALSE
      OBVIOUS
    <3>1. j \in 1 .. Len(c) /\ ~(x <= j)
      BY <1>1, <2>3
    <3> QED
      BY <2>2, <3>1
  <2>5. ASSUME NEW k \in 1 .. Len(c)
        PROVE  (\A j \in 1 .. k : c[j].level >= lvl) <=> k \in 1 .. x - 1
    <3>1. k \in 1 .. x - 1 \/ x \in 1 .. k
      BY <1>1, <2>3
    <3>2. k \in 1 .. x - 1 => \A j \in 1 .. k : j \in 1 .. x - 1
      BY <1>1, <2>3
    <3>3. x \in 1 .. k => k \notin 1 .. x - 1
      BY <1>1, <2>3
    <3> QED
      BY <2>3, <2>4, <3>1, <3>2, <3>3
  <2>6. \A k \in 1 .. x - 1 : k \in 1 .. Len(c)
    BY <1>1, <2>3
  <2>7. Written(c, lvl) = 1 .. x - 1
    BY <1>1, <2>5, <2>6 DEF Written
  <2>8. x - 1 \in 0 .. Len(c)
    BY <1>1, <2>3
  <2> QED
    BY <2>7, <2>8
<1> QED
  BY <1>2, <1>3

LEMMA Said ==
  ASSUME ChainInv, CycleInv, NEW cycle \in {"builtin", "chain"}, NEW lvl \in Int,
         Log_error(cycle, lvl)
  PROVE  /\ message'.level = lvl
         /\ \A p \in ToSet(message'.places) :
              p = stderr \/ \E k \in 1 .. Len(LogsOf(cycle)) : p = Place(LogsOf(cycle)[k].file)
         /\ \A k \in Written(LogsOf(cycle), lvl) :
              Place(LogsOf(cycle)[k].file) \in ToSet(message'.places)
         /\ Use_stderr /\ lvl <= WARN /\ Head(LogsOf(cycle)).level >= lvl =>
              stderr \in ToSet(message'.places)
<1> DEFINE c      == LogsOf(cycle)
           reach  == Written(c, lvl)
           direct == [k \in reach |-> Place(c[k].file)]
           copy   == /\ Use_stderr /\ lvl <= WARN /\ reach # {}
                     /\ \A k \in reach : c[k].file.fd # STDERR_FILENO
           D      == {Place(c[k].file) : k \in 1 .. Len(c)}
<1>1. message' = [level  |-> lvl,
                  places |-> IF copy THEN Append(direct, stderr) ELSE direct]
  BY DEF Log_error
<1>2. c \in Seq(LogSet) /\ Len(c) > 0 /\ Head(c) = c[1]
  BY LogsAre
<1>3. PICK m \in 0 .. Len(c) : reach = 1 .. m
  BY <1>2, WrittenIs
<1>4. Head(c).level >= lvl => 1 \in reach
  <2>1. DOMAIN c = 1 .. Len(c) /\ 1 \in DOMAIN c /\ \A j \in 1 .. 1 : j = 1
    BY <1>2
  <2> QED
    BY <1>2, <2>1 DEF Written
<1> HIDE DEF c, reach
<1>5. /\ direct \in Seq(D) /\ Len(direct) = m
      /\ ToSet(direct) = {direct[k] : k \in 1 .. m}
      /\ \A k \in 1 .. m : direct[k] = Place(c[k].file) /\ k \in 1 .. Len(c)
  <2>1. \A k \in 1 .. m : k \in 1 .. Len(c)
    BY <1>2, <1>3
  <2>2. direct = [k \in 1 .. m |-> Place(c[k].file)] /\ m \in Nat
    BY <1>2, <1>3
  <2>3. direct \in [1 .. m -> D]
    BY <2>1, <2>2
  <2> QED
    BY <2>1, <2>2, <2>3 DEF ToSet
<1> HIDE DEF D, direct
<1>6. /\ Append(direct, stderr) \in Seq(D \cup {stderr})
      /\ ToSet(Append(direct, stderr)) = ToSet(direct) \cup {stderr}
  <2>1. /\ Append(direct, stderr) \in Seq(D \cup {stderr})
        /\ Len(Append(direct, stderr)) = m + 1
        /\ \A k \in 1 .. m : Append(direct, stderr)[k] = direct[k]
        /\ Append(direct, stderr)[m + 1] = stderr
    <3>1. direct \in Seq(D \cup {stderr}) /\ stderr \in D \cup {stderr}
      BY <1>5
    <3> QED
      BY <1>5, <3>1
  <2>2. ToSet(Append(direct, stderr)) = {Append(direct, stderr)[k] : k \in 1 .. m + 1}
    BY <2>1 DEF ToSet
  <2>3. m \in Nat /\ \A k \in 1 .. m + 1 : k \in 1 .. m \/ k = m + 1
    BY <1>2, <1>3
  <2>4. m + 1 \in 1 .. m + 1 /\ \A k \in 1 .. m : k \in 1 .. m + 1
    BY <2>3
  <2> QED
    BY <1>5, <2>1, <2>2, <2>3, <2>4
<1>7. \A p \in ToSet(message'.places) : p = stderr \/ p \in ToSet(direct)
  BY <1>1, <1>6
<1>8. \A p \in ToSet(direct) : \E k \in 1 .. Len(c) : p = Place(c[k].file)
  BY <1>5
<1>9. \A k \in reach : Place(c[k].file) \in ToSet(message'.places)
  <2>1. \A k \in reach : Place(c[k].file) \in ToSet(direct)
    BY <1>3, <1>5
  <2> QED
    BY <1>1, <1>6, <2>1
<1>10. ASSUME Use_stderr, lvl <= WARN, Head(c).level >= lvl
      PROVE  stderr \in ToSet(message'.places)
  <2>1. CASE copy
    BY <1>1, <1>6, <2>1
  <2>2. CASE ~copy
    <3>1. PICK k \in reach : c[k].file.fd = STDERR_FILENO
      BY <1>4, <1>10, <2>2
    <3>2. direct[k] = stderr
      BY <1>3, <1>5, <3>1 DEF Place
    <3> QED
      BY <1>1, <1>3, <1>5, <2>2, <3>2
  <2> QED
    BY <2>1, <2>2
<1> QED
  BY <1>1, <1>7, <1>8, <1>9, <1>10 DEF c, reach

(* The chain's files are not the built-in log's, whose descriptor is the   *)
(* first behind stderr.                                                    *)
LEMMA ChainFile ==
  ASSUME ChainInv, NEW k \in Logs
  PROVE  /\ chain[k].file # BuiltinFile
         /\ chain[k].file.name \notin {Terminal, Closed}
         /\ chain[k].file.fd = STDERR_FILENO <=> chain[k].file.name = Stderr
<1>1. chain[k].file \in OpenSet \cup {NoFile}
  <2>1. chain \in Seq(LogSet) /\ k \in 1 .. Len(chain)
    BY DEF ChainInv, ChainType, Logs
  <2>2. chain[k] \in LogSet
    BY <2>1
  <2> QED
    BY <2>2 DEF LogSet
<1>2. CASE chain[k].file = NoFile
  BY <1>1, <1>2, NamesAre DEF NoFile, BuiltinFile, Stderr, STDERR_FILENO
<1>3. CASE chain[k].file \in ToSet(open_files)
  <2>1. ToSet(open_files) = {open_files[j] : j \in Files}
    BY DEF ToSet, Files, ChainInv, ChainType
  <2>2. PICK j \in Files : chain[k].file = open_files[j]
    BY <1>3, <2>1
  <2>3. /\ open_files[j].fd = IF open_files[j].name = Stderr THEN STDERR_FILENO
                              ELSE STDERR_FILENO + 1 + j
        /\ j \in Int /\ j > 0
    BY DEF ChainInv, FilesInv, Files
  <2>4. open_files[j].fd # STDERR_FILENO + 1
        /\ (open_files[j].fd = STDERR_FILENO <=> open_files[j].name = Stderr)
    BY <2>3 DEF STDERR_FILENO
  <2> QED
    BY <1>1, <2>2, <2>4, NamesAre DEF BuiltinFile
<1> QED
  BY <1>2, <1>3 DEF ChainInv, FilesInv

(* A message lands, if the log it is sent to is not the closed one.        *)
LEMMA Lands ==
  ASSUME SInv, NEW cycle \in {"builtin", "chain"}, NEW lvl \in Int, Log_error(cycle, lvl),
         closed => cycle = "chain"
  PROVE  WritesLand'
<1> USE DEF SInv
<1>1. \A p \in ToSet(message'.places) :
        p = stderr \/ \E k \in 1 .. Len(LogsOf(cycle)) : p = Place(LogsOf(cycle)[k].file)
  BY Said
<1>2. stderr # Closed
  BY DEF TermInv
<1>3. ASSUME NEW k \in 1 .. Len(LogsOf(cycle)) PROVE Place(LogsOf(cycle)[k].file) # Closed
  <2> DEFINE f == LogsOf(cycle)[k].file
  <2>1. f.name # Closed
    <3>1. LogsOf(cycle)[k] \in LogSet
      BY LogsAre
    <3> QED
      BY <3>1, NamesAre DEF LogSet
  <2>2. ~(f = builtin.file /\ closed)
    <3> SUFFICES ASSUME f = builtin.file, closed PROVE FALSE
      OBVIOUS
    <3>1. builtin.file = BuiltinFile /\ cycle = "chain"
      BY DEF CycleInv
    <3>2. f = chain[k].file /\ k \in Logs
      BY <3>1 DEF LogsOf, Logs
    <3> QED
      BY <3>1, <3>2, ChainFile
  <2> QED
    BY <1>2, <2>1, <2>2 DEF Place
<1>4. Closed \notin ToSet(message'.places)
  BY <1>1, <1>2, <1>3
<1> QED
  BY <1>4 DEF WritesLand

LEMMA StderrOnly == ASSUME TermInv, Printf PROVE WritesLand' /\ ToSet(message'.places) = {stderr}
<1>1. message'.places = <<stderr>>
  BY DEF Printf
<1>2. ToSet(<<stderr>>) = {stderr}
  BY DEF ToSet
<1> QED
  BY <1>1, <1>2 DEF WritesLand, TermInv

(* A failure before stderr is redirected is seen on the terminal.          *)
LEMMA Tells ==
  ASSUME SInv, NEW lvl \in Int, lvl <= WARN, Log_error(log_, lvl),
         at \notin {"close", "process", "serving", "exited", "failed"},
         UNCHANGED <<chain, builtin, log_, Use_stderr>>
  PROVE  FailureIsTold'
<1> USE DEF SInv
<1>1. /\ message'.level = lvl
      /\ Use_stderr /\ lvl <= WARN /\ Head(LogsOf(log_)).level >= lvl =>
           stderr \in ToSet(message'.places)
  BY Said DEF CycleInv
<1>2. Use_stderr /\ stderr = Terminal
  BY DEF TermInv
<1>3. LogsOf(log_)' = LogsOf(log_) /\ Head(LogsOf(log_)).level \in Int
  BY LogsAre DEF LogsOf, CycleInv
<1>4. Terminal \in ToSet(message'.places) \/ Head(LogsOf(log_)).level < lvl
  BY <1>1, <1>2, <1>3
<1>5. /\ Use_stderr'
      /\ Terminal \in ToSet(message'.places) \/ Head(LogsOf(log_)').level < message'.level
  BY <1>1, <1>2, <1>3, <1>4
<1> QED
  BY <1>5 DEF FailureIsTold

(* Since the chain is sorted a message is written to every log that admits *)
(* it.                                                                     *)
LEMMA AllWritten ==
  ASSUME ChainInv, NEW lvl \in Int
  PROVE  Written(chain, lvl) = {k \in DOMAIN chain : chain[k].level >= lvl}
<1>1. chain \in Seq(LogSet) /\ DOMAIN chain = Logs /\ Len(chain) \in Nat
      /\ \A k \in Logs : k \in Int /\ k >= 1 /\ chain[k].level \in Int
  <2>1. chain \in Seq(LogSet) /\ DOMAIN chain = Logs /\ Len(chain) \in Nat
    BY DEF ChainInv, ChainType, Logs
  <2>2. \A k \in Logs : chain[k] \in LogSet /\ k \in Int /\ k >= 1
    BY <2>1 DEF Logs
  <2> QED
    BY <2>1, <2>2 DEF LogSet
<1>2. ASSUME NEW k \in Logs
      PROVE  (\A j \in 1 .. k : chain[j].level >= lvl) <=> chain[k].level >= lvl
  <2>1. k \in 1 .. k
    BY <1>1
  <2>2. \A j \in 1 .. k : j = k \/ (j \in Logs /\ j < k)
    BY <1>1 DEF Logs
  <2>3. \A j \in 1 .. k : chain[j].level \in Int /\ chain[j].level >= chain[k].level
    <3>1. chain[k].level >= chain[k].level
      BY <1>1
    <3> QED
      BY <1>1, <2>2, <3>1 DEF ChainInv, Sorted
  <2> QED
    BY <1>1, <2>1, <2>3
<1> QED
  BY <1>1, <1>2 DEF Written

(* Behind the redirection a log writes where its directive says.           *)
LEMMA PlaceIsNamed ==
  ASSUME SInv, at \in {"process", "serving"}
  PROVE  /\ \A k \in DOMAIN chain : Place(chain[k].file) = Named(chain[k].file)
         /\ stderr = Terminal => \E k \in DOMAIN chain : chain[k].file.name = Stderr
<1>1. DOMAIN chain = Logs /\ 1 \in Logs /\ Head(chain) = chain[1]
  BY DEF SInv, ChainInv, ChainType, Logs
<1>2. /\ stderr = IF KeepStderr THEN Terminal ELSE Head(chain).file.name
      /\ phase = "running"
      /\ closed => builtin.file = BuiltinFile
  BY DEF SInv, TermInv, CycleInv, Late
<1>3. \A k \in Logs : /\ chain[k].file # BuiltinFile
                      /\ chain[k].file.name \notin {Terminal, Closed}
                      /\ chain[k].file.fd = STDERR_FILENO <=> chain[k].file.name = Stderr
  BY ChainFile DEF SInv
<1>4. KeepStderr <=> StderrLog
  <2>1. log_use_stderr <=> StderrLog
    BY <1>2 DEF SInv, ChainInv, StderrInv
  <2> QED
    BY <1>1, <1>3, <2>1 DEF KeepStderr, StderrLog
<1>5. \A k \in Logs : chain[k].file.name = Stderr => stderr = Terminal
  BY <1>2, <1>4 DEF StderrLog
<1>6. ASSUME NEW k \in Logs PROVE Place(chain[k].file) = Named(chain[k].file)
  BY <1>2, <1>3, <1>5 DEF Place, Named
<1>7. stderr = Terminal => StderrLog
  BY <1>1, <1>2, <1>3, <1>4
<1> QED
  BY <1>1, <1>6, <1>7 DEF StderrLog

(* A failure of init_process is told in the logs of the configuration.     *)
LEMMA TellsLogs ==
  ASSUME SInv, NEW lvl \in Int, Log_error(log_, lvl), at = "process",
         UNCHANGED <<chain, Use_stderr>>
  PROVE  FailureIsTold'
<1>1. ~Use_stderr /\ log_ = "chain"
  BY DEF SInv, TermInv, CycleInv, Late
<1>2. LogsOf(log_) = chain
  BY <1>1 DEF LogsOf
<1>3. /\ message'.level = lvl
      /\ \A k \in Written(chain, lvl) : Place(chain[k].file) \in ToSet(message'.places)
  <2>1. log_ \in {"builtin", "chain"}
    BY <1>1
  <2> QED
    BY <1>2, <2>1, Said DEF SInv
<1>4. \A k \in DOMAIN chain :
        chain[k].level >= lvl => Named(chain[k].file) \in ToSet(message'.places)
  BY <1>3, AllWritten, PlaceIsNamed DEF SInv
<1>5. \A k \in DOMAIN chain : Named(chain[k].file)' = Named(chain[k].file)
  BY DEF Named
<1> QED
  BY <1>1, <1>3, <1>4, <1>5 DEF FailureIsTold

-----------------------------------------------------------------------------
LEMMA SInit == StartInit => SInv
<1> SUFFICES ASSUME StartInit PROVE SInv
  OBVIOUS
<1>1. ChainInv
  BY ChainInit DEF StartInit
<1>2. CycleInv
  <2>1. /\ at = "options" /\ phase = "conf" /\ log_ = "builtin" /\ Cur_cycle = "builtin"
        /\ builtin = [level |-> STDERR, file |-> NoFile] /\ closed = FALSE
    BY Zenon DEF StartInit, Init
  <2>2. builtin \in [level : Int, file : {NoFile, BuiltinFile, StderrFile}]
    BY <2>1 DEF STDERR
  <2>3. ~closed /\ at \notin Late \cup {"cycle", "signal"}
    BY <2>1 DEF Late
  <2> QED
    BY <2>1, <2>2, <2>3 DEF CycleInv
<1>3. TermInv
  BY DEF StartInit, TermInv, Terminal, Closed
<1>4. ToSet(message.places) = {}
  <2>1. message.places = <<>>
    BY DEF StartInit
  <2>2. ToSet(<<>>) = {}
    BY DEF ToSet
  <2> QED
    BY <2>1, <2>2
<1>5. WritesLand /\ FailureIsTold
  BY <1>4 DEF StartInit, WritesLand, FailureIsTold
<1> QED
  BY <1>1, <1>2, <1>3, <1>5 DEF SInv

(* A step that leaves the logs alone and says nothing.                     *)
LEMMA QuietKeeps ==
  ASSUME SInv, UNCHANGED <<vars, logVars, message>>,
         \/ UNCHANGED at
         \/ at \in Early /\ at' \in Early /\ (at' = "signal" => signal' # "")
            /\ at \notin {"options", "log"} /\ at' \notin {"options", "log"}
         \/ at = "options" /\ at' \in {"log", "exited"}
         \/ at \in Late /\ at' \in Late /\ at \notin {"redirect", "close", "process", "serving"}
            /\ at' \notin {"close", "process", "serving"}
         \/ at = "process" /\ at' = "serving"
         \/ at = "conf" /\ at' = "exited",
         at = "signal" => UNCHANGED signal,
         at = "failed" => UNCHANGED <<signal, http>>
  PROVE  SInv'
<1> USE DEF SInv
<1>1. ChainInv'
  BY ChainStutters
<1>2. CycleInv'
  <2>1. /\ UNCHANGED <<phase, builtin, closed, log_, Cur_cycle>>
        /\ at' \in Early => at \in Early
        /\ at' \in Late \cup {"cycle"} => at \in Late \cup {"cycle"}
        /\ at' \in Late => at \in Late
        /\ at' \notin {"options", "log", "failed", "exited"} =>
             at \notin {"options", "log", "failed", "exited"}
        /\ at \in {"process", "serving", "exited", "failed"} =>
             at' \in {"process", "serving", "exited", "failed"}
        /\ at' = "signal" => signal' # ""
    BY DEF CycleInv, Early, Late, vars, logVars
  <2> QED
    BY <2>1 DEF CycleInv
<1>3. KeepStderr' = KeepStderr
  BY DEF KeepStderr, vars
<1>4. TermInv'
  BY <1>3 DEF TermInv, Early, Late, vars, logVars
<1>5. WritesLand' /\ FailureIsTold'
  BY DEF WritesLand, FailureIsTold, Named, Early, Late, vars, logVars, LogsOf
<1> QED
  BY <1>1, <1>2, <1>4, <1>5

(* One step of main(), of a signal handler or of the server.               *)
LEMMA SKeeps == ASSUME SInv, [StartNext]_<<vars, startVars>> PROVE SInv'
<1>0. ChainInv /\ CycleInv /\ TermInv /\ WritesLand /\ FailureIsTold
  BY DEF SInv
<1>1. CASE Option
  BY <1>1, QuietKeeps DEF Option
<1>2. CASE BadOption
  <2>1. /\ at = "options" /\ at' = "failed" /\ Printf
        /\ UNCHANGED <<phase, builtin, closed, log_, Cur_cycle, stderr, Use_stderr>>
    BY <1>2 DEF BadOption, Goto, vars, logVars
  <2>2. ChainInv'
    BY <1>0, <1>2, ChainStutters DEF BadOption
  <2>3. CycleInv'
    BY <1>0, <2>1 DEF CycleInv, Early, Late
  <2>4. TermInv' /\ stderr = Terminal /\ Use_stderr'
    BY <1>0, <2>1 DEF TermInv
  <2>5. WritesLand' /\ ToSet(message'.places) = {stderr}
    BY <1>0, <2>1, StderrOnly
  <2>6. FailureIsTold'
    BY <2>4, <2>5 DEF FailureIsTold
  <2> QED
    BY <2>2, <2>3, <2>4, <2>5, <2>6 DEF SInv
<1>3. CASE OptionsDone
  <2>1. at = "options" /\ at' \in {"log", "exited"}
    BY <1>3 DEF OptionsDone, Goto
  <2> QED
    BY <1>3, <2>1, QuietKeeps DEF OptionsDone
<1>4. CASE Init_new_log
  <2>1. /\ at = "log" /\ at' = "conf" /\ (Printf \/ UNCHANGED message)
        /\ UNCHANGED <<phase, log_, Cur_cycle, stderr, Use_stderr>>
    BY <1>4 DEF Init_new_log, Goto, vars
  <2>2. builtin' \in [level : Int, file : {BuiltinFile, StderrFile}]
    <3>1. INFO \in Int /\ NOTICE \in Int
      BY DEF INFO, NOTICE
    <3> QED
      BY <1>4, <3>1 DEF Init_new_log, BuiltinFile, StderrFile
  <2>3. ChainInv'
    BY <1>0, <1>4, ChainStutters DEF Init_new_log
  <2>4. CycleInv'
    <3>1. ~closed'
      <4>1. ~closed
        BY <1>0, <2>1 DEF CycleInv
      <4> QED
        BY <1>4, <4>1 DEF Init_new_log
    <3>2. builtin'.file # NoFile
      BY <2>2 DEF BuiltinFile, StderrFile, NoFile, STDERR_FILENO
    <3>3. builtin' \in [level : Int, file : {NoFile, BuiltinFile, StderrFile}]
      BY <2>2
    <3> QED
      BY <1>0, <2>1, <3>1, <3>2, <3>3 DEF CycleInv, Early, Late
  <2>5. TermInv'
    BY <1>0, <2>1 DEF TermInv
  <2>6. WritesLand'
    BY <1>0, <2>1, StderrOnly DEF WritesLand
  <2>7. FailureIsTold'
    BY <2>1 DEF FailureIsTold
  <2> QED
    BY <2>3, <2>4, <2>5, <2>6, <2>7 DEF SInv
<1>5. ASSUME NEW n \in Name \cup {Stderr}, NEW k \in 0 .. 2, NEW words \in [1 .. k -> Word],
             Error_log(n, words)
      PROVE  SInv'
  <2>1. /\ at = "conf" /\ Log_set_log(n, words)
        /\ UNCHANGED <<builtin, closed, log_, Cur_cycle, stderr, Use_stderr, test, signal>>
        /\ \/ phase' = "failed" /\ at' = "failed" /\ Log_error(log_, 1)
           \/ phase' # "failed" /\ UNCHANGED <<at, message>>
    BY <1>5 DEF Error_log, optVars, logVars
  <2>2. ChainInv'
    BY <1>0, <2>1, SetLogKeeps
  <2>3. phase' # "failed" => phase' = "conf"
    BY <2>1 DEF Log_set_log
  <2>4. phase' = "failed" => UNCHANGED chain
    BY <2>1 DEF Log_set_log
  <2>5. CycleInv'
    BY <1>0, <2>1, <2>3 DEF CycleInv, Early, Late
  <2>6. TermInv'
    BY <1>0, <2>1 DEF TermInv
  <2>7. ~closed
    BY <1>0, <2>1 DEF CycleInv
  <2>8. WritesLand' /\ FailureIsTold'
    <3>1. CASE phase' = "failed" /\ at' = "failed" /\ Log_error(log_, 1)
      <4>1. 1 \in Int /\ 1 <= WARN
        BY DEF WARN
      <4> QED
        BY <1>0, <2>1, <2>4, <2>7, <3>1, <4>1, Lands, Tells DEF CycleInv
    <3>2. CASE phase' # "failed" /\ UNCHANGED <<at, message>>
      BY <1>0, <2>1, <3>2 DEF WritesLand, FailureIsTold
    <3> QED
      BY <2>1, <3>1, <3>2
  <2> QED
    BY <2>2, <2>5, <2>6, <2>8 DEF SInv
<1>http. CASE Http_block_
  <2>1. /\ at = "conf" /\ at' = "failed" /\ http' = TRUE /\ UNCHANGED <<vars, logVars, message>>
    BY <1>http DEF Http_block_, Goto
  <2>2. ChainInv'
    BY <1>0, <2>1, ChainStutters
  <2>3. CycleInv'
    BY <1>0, <2>1 DEF CycleInv, Early, Late, vars, logVars
  <2>4. TermInv'
    BY <1>0, <2>1 DEF TermInv, logVars
  <2>5. WritesLand' /\ FailureIsTold'
    BY <1>0, <2>1 DEF WritesLand, FailureIsTold
  <2> QED
    BY <2>2, <2>3, <2>4, <2>5 DEF SInv
<1>6. CASE ConfDone
  <2>1. at = "conf" /\ at' \in {"test", "default", "exited", "signal"} /\ signal' = signal
        /\ (at' = "signal" => signal # "")
    BY <1>6 DEF ConfDone, Goto, optVars
  <2> QED
    BY <1>6, <2>1, QuietKeeps DEF ConfDone, Early
<1>7. CASE TestPidfile
  <2>1. at = "test" /\ at' = "default"
    BY <1>7 DEF TestPidfile, Goto
  <2> QED
    BY <1>7, <2>1, QuietKeeps DEF TestPidfile, Early
<1>8. CASE LogDefault
  <2>1. /\ at = "default" /\ at' \in {"exited", "cycle"} /\ log_open_default_ /\ log_' = "chain"
        /\ UNCHANGED <<builtin, closed, Cur_cycle, stderr, Use_stderr, message>>
    BY <1>8 DEF LogDefault, Goto
  <2>2. ChainInv' /\ phase' = "running"
    BY <1>0, <2>1, DefaultKeeps DEF log_open_default_
  <2>3. CycleInv'
    BY <1>0, <2>1, <2>2 DEF CycleInv, Early, Late
  <2>4. TermInv'
    BY <1>0, <2>1 DEF TermInv
  <2>5. WritesLand' /\ FailureIsTold'
    BY <1>0, <2>1 DEF WritesLand, FailureIsTold
  <2> QED
    BY <2>2, <2>3, <2>4, <2>5 DEF SInv
<1>9. CASE SignalProcess
  <2>1. /\ at = "signal" /\ at' \in {"exited", "failed"} /\ Log_error(log_, NOTICE)
        /\ UNCHANGED <<phase, signal, builtin, closed, log_, Cur_cycle, stderr, Use_stderr>>
    BY <1>9 DEF SignalProcess, Goto, vars, optVars, logVars
  <2>2. ChainInv'
    BY <1>0, <1>9, ChainStutters DEF SignalProcess
  <2>3. CycleInv'
    BY <1>0, <2>1 DEF CycleInv, Early, Late
  <2>4. TermInv'
    BY <1>0, <2>1 DEF TermInv
  <2>5. WritesLand'
    <3>1. NOTICE \in Int
      BY DEF NOTICE
    <3>2. ~closed /\ log_ \in {"builtin", "chain"}
      BY <1>0, <2>1 DEF CycleInv
    <3> QED
      BY <2>1, <3>1, <3>2, Lands
  <2>6. FailureIsTold'
    BY <1>0, <2>1 DEF CycleInv, FailureIsTold
  <2> QED
    BY <2>2, <2>3, <2>4, <2>5, <2>6 DEF SInv
<1>10. CASE SetCycle
  <2>1. /\ at = "cycle" /\ at' = "signals" /\ Log_error(log_, NOTICE) /\ Cur_cycle' = "chain"
        /\ UNCHANGED <<phase, builtin, closed, log_, stderr, Use_stderr>>
    BY <1>10 DEF SetCycle, Goto, NewCycle, vars
  <2>2. ChainInv'
    BY <1>0, <1>10, ChainStutters DEF SetCycle
  <2>3. CycleInv'
    BY <1>0, <2>1 DEF CycleInv, Early, Late
  <2>4. TermInv'
    BY <1>0, <2>1 DEF TermInv
  <2>5. WritesLand'
    <3>1. NOTICE \in Int /\ log_ = "chain"
      BY <1>0, <2>1 DEF CycleInv, NOTICE
    <3> QED
      BY <2>1, <3>1, Lands
  <2>6. FailureIsTold'
    BY <2>1 DEF FailureIsTold
  <2> QED
    BY <2>2, <2>3, <2>4, <2>5, <2>6 DEF SInv
<1>11. CASE Init_signals \/ Daemonize \/ Create_pidfile
  <2>1. /\ UNCHANGED <<vars, logVars, message>>
        /\ at \in {"signals", "daemon", "pidfile"} /\ at' \in {"daemon", "pidfile", "redirect"}
    BY <1>11 DEF Init_signals, Daemonize, DaemonStderr, Create_pidfile, Goto, logVars
  <2> QED
    BY <2>1, QuietKeeps DEF Late
<1>12. CASE log_redirect_stderr
  <2>1. /\ at = "redirect" /\ at' = "close"
        /\ stderr' = IF KeepStderr THEN stderr ELSE Place(Head(chain).file)
        /\ UNCHANGED <<vars, signal, builtin, closed, log_, Cur_cycle, Use_stderr, message>>
    BY <1>12 DEF log_redirect_stderr, Goto, optVars
  <2>2. ChainInv'
    BY <1>0, <2>1, ChainStutters
  <2>3. CycleInv'
    BY <1>0, <2>1 DEF CycleInv, Early, Late, vars
  <2>4. TermInv'
    <3>1. 1 \in Logs /\ Head(chain) = chain[1]
      BY <1>0 DEF ChainInv, ChainType, Logs
    <3>2. stderr = Terminal /\ ~closed
      BY <1>0, <2>1 DEF TermInv, CycleInv
    <3>3. ~KeepStderr => stderr' = Head(chain).file.name
      BY <2>1, <3>2 DEF KeepStderr, Place
    <3>4. Head(chain).file.name # Closed /\ Terminal # Closed
      BY <1>0, <3>1, ChainFile DEF Terminal, Closed
    <3>5. KeepStderr' = KeepStderr /\ chain' = chain
      BY <2>1 DEF KeepStderr, vars
    <3> QED
      BY <2>1, <3>2, <3>3, <3>4, <3>5 DEF TermInv
  <2>5. WritesLand' /\ FailureIsTold'
    BY <1>0, <2>1 DEF WritesLand, FailureIsTold
  <2> QED
    BY <2>2, <2>3, <2>4, <2>5 DEF SInv
<1>13. CASE CloseBuiltin
  <2>1. /\ at = "close" /\ at' \in {"process", "exited"} /\ Use_stderr' = FALSE
        /\ \/ closed' = (builtin.file.fd # STDERR_FILENO) /\ UNCHANGED message
           \/ UNCHANGED closed /\ Log_error(log_, ALERT)
        /\ UNCHANGED <<vars, builtin, log_, Cur_cycle, stderr>>
    BY <1>13 DEF CloseBuiltin, Goto
  <2>2. ChainInv'
    BY <1>0, <2>1, ChainStutters
  <2>3. CycleInv'
    <3>1. builtin.file \in {BuiltinFile, StderrFile} /\ ~closed
      BY <1>0, <2>1 DEF CycleInv
    <3>2. closed' => builtin.file = BuiltinFile
      <4>1. closed' => builtin.file.fd # STDERR_FILENO
        BY <2>1, <3>1, Zenon
      <4>2. StderrFile.fd = STDERR_FILENO
        BY DEF StderrFile
      <4> QED
        BY <3>1, <4>1, <4>2
    <3> QED
      BY <1>0, <2>1, <3>2 DEF CycleInv, Early, Late, vars
  <2>4. TermInv'
    <3>1. KeepStderr' = KeepStderr /\ chain' = chain
      BY <2>1 DEF KeepStderr, vars
    <3>2. ~Use_stderr'
      BY <2>1
    <3> QED
      BY <1>0, <2>1, <3>1, <3>2 DEF TermInv
  <2>5. WritesLand'
    <3>1. ALERT \in Int /\ ~closed
      BY <1>0, <2>1 DEF CycleInv, ALERT
    <3> QED
      BY <1>0, <2>1, <3>1, Lands DEF CycleInv, WritesLand
  <2>6. FailureIsTold'
    BY <2>1 DEF FailureIsTold
  <2> QED
    BY <2>2, <2>3, <2>4, <2>5, <2>6 DEF SInv
<1>process. CASE Init_process
  <2>1. at = "process" /\ at' = "serving" /\ UNCHANGED <<vars, optVars, logVars, message>>
    BY <1>process DEF Init_process, Goto
  <2> QED
    BY <2>1, QuietKeeps
<1>14. CASE StepFails
  <2>1. /\ at \in {"conf", "test", "signal", "signals", "daemon", "pidfile", "redirect",
                  "process"}
        /\ at' = "failed"
        /\ \E lvl \in FailureLevels[at] : Log_error(log_, lvl)
        /\ UNCHANGED <<vars, signal, builtin, closed, log_, Cur_cycle, stderr, Use_stderr>>
    BY <1>14 DEF StepFails, FailureLevels, optVars, logVars
  <2>2. FailureLevels[at] \subseteq 1 .. WARN
    BY <2>1 DEF FailureLevels, ALERT, CRIT, ERROR, WARN
  <2>3. PICK lvl \in 1 .. WARN : Log_error(log_, lvl)
    BY <2>1, <2>2
  <2>4. lvl \in Int /\ lvl <= WARN
    BY <2>3 DEF WARN
  <2>5. ChainInv'
    BY <1>0, <2>1, ChainStutters
  <2>6. CycleInv'
    BY <1>0, <2>1 DEF CycleInv, Early, Late, vars
  <2>7. TermInv'
    BY <1>0, <2>1 DEF TermInv
  <2>8. WritesLand'
    <3>1. log_ \in {"builtin", "chain"} /\ (closed => log_ = "chain")
      BY <1>0, <2>1 DEF CycleInv, Late
    <3> QED
      BY <2>3, <2>4, <3>1, Lands
  <2>9. FailureIsTold'
    <3>1. CASE at = "process"
      <4>1. UNCHANGED <<chain, Use_stderr>>
        BY <2>1 DEF vars
      <4> QED
        BY <2>3, <2>4, <3>1, <4>1, TellsLogs
    <3>2. CASE at # "process"
      <4>1. /\ at \notin {"close", "process", "serving", "exited", "failed"}
            /\ UNCHANGED <<chain, builtin, log_, Use_stderr>>
        BY <2>1, <3>2 DEF vars
      <4> QED
        BY <2>3, <2>4, <4>1, Tells
    <3> QED
      BY <3>1, <3>2
  <2> QED
    BY <2>5, <2>6, <2>7, <2>8, <2>9 DEF SInv
<1>15. CASE SignalMessage \/ ServerMessage
  <2>1. /\ at \in Late /\ UNCHANGED <<vars, at, signal, logVars>>
        /\ \E cycle \in {log_, Cur_cycle}, lvl \in 1 .. DEBUG : Log_error(cycle, lvl)
    <3>1. NOTICE \in 1 .. DEBUG
      BY DEF NOTICE, DEBUG
    <3> QED
      BY <1>15, <3>1 DEF SignalMessage, ServerMessage, HasHandlers, Late, optVars
  <2>2. PICK cycle \in {log_, Cur_cycle}, lvl \in 1 .. DEBUG : Log_error(cycle, lvl)
    BY <2>1
  <2>3. lvl \in Int /\ cycle = "chain"
    <3>1. lvl \in Int
      BY DEF DEBUG
    <3>2. log_ = "chain" /\ Cur_cycle = "chain"
      BY <1>0, <2>1 DEF CycleInv
    <3> QED
      BY <2>2, <3>1, <3>2
  <2>4. ChainInv'
    BY <1>0, <2>1, ChainStutters
  <2>5. CycleInv'
    BY <1>0, <2>1 DEF CycleInv, vars, logVars
  <2>6. TermInv'
    <3>1. KeepStderr' = KeepStderr
      BY <2>1 DEF KeepStderr, vars
    <3> QED
      BY <1>0, <2>1, <3>1 DEF TermInv, vars, logVars
  <2>7. WritesLand'
    BY <2>2, <2>3, Lands
  <2>8. FailureIsTold'
    BY <2>1 DEF FailureIsTold, Late
  <2> QED
    BY <2>4, <2>5, <2>6, <2>7, <2>8 DEF SInv
<1>16. CASE UNCHANGED <<vars, startVars>>
  BY <1>16, QuietKeeps DEF startVars, optVars
<1> QED
  BY <1>1, <1>2, <1>3, <1>4, <1>5, <1>6, <1>7, <1>8, <1>9, <1>10, <1>11, <1>12, <1>13,
     <1>14, <1>15, <1>16, <1>http, <1>process DEF StartNext

-----------------------------------------------------------------------------
(* The invariant of the start: at every step of main() the logs in use are *)
(* known, so is what descriptor 2 leads to, and the last message landed.   *)
THEOREM StartupCorrect == StartSpec => []SInv
<1>1. SInv /\ [StartNext]_<<vars, startVars>> => SInv'
  BY SKeeps
<1> QED
  BY SInit, <1>1, PTL DEF StartSpec

(* A message reaches every log that is to have it, for any directives with *)
(* any level words, in any order (log.cc:99, 228, 270).                    *)
THEOREM AllReachedCorrect == StartSpec => []AllReached
<1>1. SInv => AllReached
  <2> SUFFICES ASSUME SInv PROVE AllReached
    OBVIOUS
  <2>1. DOMAIN chain = Logs /\ \A k \in Logs : chain[k] \in LogSet
    <3>1. chain \in Seq(LogSet) /\ DOMAIN chain = Logs
      BY DEF SInv, ChainInv, ChainType, Logs
    <3> QED
      BY <3>1 DEF Logs
  <2>3. \A lvl \in 1 .. DEBUG : Written(chain, lvl) = {k \in DOMAIN chain : chain[k].level >= lvl}
    <3>1. \A lvl \in 1 .. DEBUG : lvl \in Int
      OBVIOUS
    <3> QED
      BY <3>1, AllWritten DEF SInv
  <2>4. directives > 0 /\ phase # "failed" => chain # Unused
    BY DEF SInv, ChainInv, LevelInv
  <2>5. directives > 0 /\ phase # "failed" => \A k \in DOMAIN chain : chain[k].level # STDERR
    BY <2>1, <2>4 DEF SInv, ChainInv, LevelInv
  <2> QED
    BY <2>3, <2>5 DEF AllReached
<1> QED
  BY StartupCorrect, <1>1, PTL

(* No file is open twice, and the logs' files are the cycle's.             *)
THEOREM FilesAreSharedCorrect == StartSpec => []FilesAreShared
<1>1. SInv => FilesAreShared
  <2> SUFFICES ASSUME SInv PROVE FilesAreShared
    OBVIOUS
  <2>1. DOMAIN open_files = Files /\ DOMAIN chain = Logs /\ Len(open_files) \in Nat
    BY DEF SInv, ChainInv, ChainType, Files, Logs
  <2>2. ASSUME NEW j \in Files, NEW k \in Files, j # k
        PROVE  open_files[j].name # open_files[k].name /\ open_files[j].fd # open_files[k].fd
    <3>1. open_files[j].name # open_files[k].name
      BY <2>2 DEF SInv, ChainInv, FilesInv
    <3>2. /\ open_files[j].fd = IF open_files[j].name = Stderr THEN STDERR_FILENO
                                ELSE STDERR_FILENO + 1 + j
          /\ open_files[k].fd = IF open_files[k].name = Stderr THEN STDERR_FILENO
                                ELSE STDERR_FILENO + 1 + k
      BY DEF SInv, ChainInv, FilesInv
    <3>3. j \in Int /\ k \in Int /\ j > 0 /\ k > 0
      BY <2>1 DEF Files
    <3>4. open_files[j].fd # open_files[k].fd
      BY <2>2, <3>1, <3>2, <3>3 DEF STDERR_FILENO
    <3> QED
      BY <3>1, <3>4
  <2>3. \A k \in Logs : chain[k].file \in ToSet(open_files) \cup {NoFile}
    BY DEF SInv, ChainInv, FilesInv
  <2> QED
    BY <2>1, <2>2, <2>3 DEF FilesAreShared
<1> QED
  BY StartupCorrect, <1>1, PTL

(* The server runs with no log without a file, if every open() succeeds.   *)
THEOREM EveryLogHasFileCorrect ==
  ASSUME Failing = {}
  PROVE  StartSpec => []EveryLogHasFile
<1>1. SInv => EveryLogHasFile
  <2> SUFFICES ASSUME SInv, phase = "running" PROVE \A k \in DOMAIN chain : chain[k].file # NoFile
    BY DEF EveryLogHasFile
  <2>1. chain # Unused /\ DOMAIN chain = Logs
    BY DEF SInv, ChainInv, ChainType, LevelInv, Logs
  <2> QED
    BY <2>1 DEF SInv, ChainInv, OpenedInv
<1> QED
  BY StartupCorrect, <1>1, PTL

(* A start that fails, not as lingx -s nor at an http block, says why: on  *)
(* the terminal, if the level of the log admits it, as long as the copies  *)
(* last, and when init_process fails in every configured log that admits   *)
(* the message (lingx.cc:89-152, process_cycle.cc:28-32).                  *)
THEOREM FailureIsToldCorrect == StartSpec => []FailureIsTold
<1>1. SInv => FailureIsTold
  BY DEF SInv
<1> QED
  BY StartupCorrect, <1>1, PTL

(* No message is written to the built-in log's descriptor once main() has  *)
(* closed it, a signal handler's neither (lingx.cc:145-150, process.cc:60).*)
THEOREM WritesLandCorrect == StartSpec => []WritesLand
<1>1. SInv => WritesLand
  BY DEF SInv
<1> QED
  BY StartupCorrect, <1>1, PTL

(* A server's logs write where their directives say, and it keeps the      *)
(* terminal only for a log on stderr (cycle.cc:103-119).                   *)
THEOREM StderrIsRightCorrect == StartSpec => []StderrIsRight
<1>1. SInv => StderrIsRight
  <2>1. SInv /\ at = "serving" => ~Use_stderr
    BY DEF SInv, TermInv
  <2> QED
    BY <2>1, PlaceIsNamed DEF StderrIsRight
<1> QED
  BY StartupCorrect, <1>1, PTL
=============================================================================
