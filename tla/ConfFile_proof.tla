--------------------------- MODULE ConfFile_proof ---------------------------
(***************************************************************************)
(* Whatever the text, the size of the buffer and the pieces in which the   *)
(* file is read: the tokenizer has the token it is at in one piece, and a  *)
(* configuration that is accepted has been read to its end with nothing    *)
(* left out.                                                               *)
(***************************************************************************)
EXTENDS ConfFile, TLAPS

TypeInv ==
  /\ is_file \in BOOLEAN /\ size \in Nat
  /\ text \in Seq(Char) /\ buf \in Seq(Char)
  /\ pos \in Nat /\ start \in Nat /\ from \in Nat
  /\ in_quotes \in Quotes \cup {"none"}

(* How far the buffer has moved over the text: what is in it is the end of *)
(* what was read, and the token starts at the same character in both.      *)
Moved_by == Len(text) - Len(buf)

BufInv ==
  /\ start <= pos /\ pos <= Len(buf) /\ Len(buf) <= Len(text)
  /\ is_file => Len(buf) <= MAX_CONF_BUFFER
  /\ \A i \in 1 .. Len(buf) : buf[i] = text[Moved_by + i]
  /\ pc = "token" => from = Moved_by + start

(* No more is read than the size the file had.                             *)
SizeInv ==
  /\ Len(text) <= size
  /\ ~is_file => Len(text) = size
  /\ pc \in {"CONF_FILE_DONE", "done"} => Len(text) = size /\ pos = Len(buf)

CommentInv ==
  sharp_comment =>
    \E q \in 1 .. Consumed :
      text[q] = "#" /\ \A k \in q .. Consumed : text[k] # "newline"

(* What has been consumed counts, or is in the word that is being read.    *)
InAWord   == ~last_space /\ ~need_space
Separator == Space \cup {";", "{", "}"} \cup Quotes
Counts(p) == p \in kept \/ text[p] \in Separator \/ InACommentAt(p)

KeptInv ==
  /\ pc # "failed" =>
       \A p \in 1 .. Consumed : Counts(p) \/ (InAWord /\ p > from)
  /\ quoted => InAWord
  /\ pc \notin {"token", "failed"} => ~InAWord

IInv == TypeInv /\ BufInv /\ SizeInv /\ CommentInv /\ KeptInv

-----------------------------------------------------------------------------
LEMMA ConcatIs ==
  ASSUME NEW S, NEW s \in Seq(S), NEW t \in Seq(S)
  PROVE  /\ s \o t \in Seq(S) /\ Len(s \o t) = Len(s) + Len(t)
         /\ \A i \in 1 .. Len(s) : (s \o t)[i] = s[i]
         /\ \A i \in 1 .. Len(t) : (s \o t)[Len(s) + i] = t[i]
OBVIOUS

LEMMA SubSeqIs ==
  ASSUME NEW S, NEW s \in Seq(S), NEW n \in 0 .. Len(s), NEW m \in 0 .. n
  PROVE  /\ SubSeq(s, m + 1, n) \in Seq(S) /\ Len(SubSeq(s, m + 1, n)) = n - m
         /\ \A i \in 1 .. n - m : SubSeq(s, m + 1, n)[i] = s[m + i]
OBVIOUS

LEMMA Lengths ==
  ASSUME TypeInv, BufInv
  PROVE  /\ Len(text) \in Nat /\ Len(buf) \in Nat /\ Moved_by \in Nat
         /\ Consumed = Moved_by + pos /\ Consumed \in Nat
         /\ Consumed <= Len(text)
BY DEF TypeInv, BufInv, Moved_by, Consumed

LEMMA InitOK == Init => IInv
<1> SUFFICES ASSUME Init PROVE IInv
  OBVIOUS
<1>1. /\ size \in Nat /\ is_file \in BOOLEAN /\ buf = text
      /\ is_file => text = <<>>
  <2>1. size \in 0 .. MaxText /\ is_file \in BOOLEAN /\ buf = text
    BY DEF Init
  <2>2. MaxText \in Nat
    BY ConfAssumption
  <2>3. is_file => text = <<>>
    BY DEF Init
  <2> QED
    BY <2>1, <2>2, <2>3
<1>2. text \in Seq(Char) /\ Len(text) <= size /\ Len(text) \in Nat
      /\ (~is_file => Len(text) = size)
  <2>1. CASE is_file
    BY <1>1, <2>1
  <2>2. CASE ~is_file
    <3>1. text \in [1 .. size -> Char]
      BY <2>2 DEF Init
    <3> QED
      BY <1>1, <2>2, <3>1
  <2> QED
    BY <2>1, <2>2
<1>3. TypeInv
  BY <1>1, <1>2 DEF Init, TypeInv
<1>4. Moved_by = 0 /\ Consumed = 0
  BY <1>1, <1>2 DEF Moved_by, Consumed, Init
<1>5. BufInv
  <2>1. \A i \in 1 .. Len(buf) : Moved_by + i = i
    BY <1>1, <1>2, <1>4
  <2>2. /\ pos = 0 /\ start = 0 /\ from = 0
        /\ is_file => Len(buf) = 0
    BY <1>1 DEF Init
  <2> QED
    <3>1. MAX_CONF_BUFFER \in Nat
      BY ConfAssumption
    <3>2. /\ start <= pos /\ pos <= Len(buf) /\ Len(buf) <= Len(text)
          /\ is_file => Len(buf) <= MAX_CONF_BUFFER
          /\ from = Moved_by + start
      BY <1>1, <1>2, <1>4, <2>2, <3>1
    <3>3. \A i \in 1 .. Len(buf) : buf[i] = text[Moved_by + i]
      BY <1>1, <2>1
    <3> QED
      BY <3>2, <3>3 DEF BufInv
<1>6. SizeInv
  BY <1>2 DEF Init, SizeInv
<1>7. CommentInv /\ KeptInv
  BY <1>4 DEF Init, CommentInv, KeptInv, InAWord
<1> QED
  BY <1>3, <1>5, <1>6, <1>7 DEF IInv

-----------------------------------------------------------------------------
(* A character is consumed: it is the next one of the text.                *)
LEMMA AdvanceIs ==
  ASSUME IInv, Advance
  PROVE  /\ Consumed' = Consumed + 1 /\ Consumed \in Nat
         /\ Consumed + 1 <= Len(text) /\ Len(text) \in Nat
         /\ text[Consumed + 1] = ch /\ ch \in Char
         /\ UNCHANGED <<text, buf, is_file, size, Moved_by>>
         /\ pos' = pos + 1 /\ pos < Len(buf) /\ Len(buf) \in Nat
         /\ pc = "token"
<1>1. /\ pos' = pos + 1 /\ pos < Len(buf) /\ pc = "token"
      /\ UNCHANGED <<text, buf, is_file, size>>
  BY DEF Advance, HasChar, inputVars, bufVars
<1>2. /\ pos \in Nat /\ buf \in Seq(Char) /\ text \in Seq(Char)
      /\ Len(buf) \in Nat /\ Len(text) \in Nat /\ Len(buf) <= Len(text)
      /\ \A i \in 1 .. Len(buf) : buf[i] = text[Moved_by + i]
  BY DEF IInv, TypeInv, BufInv
<1>3. Consumed = Moved_by + pos /\ Moved_by \in Nat /\ Consumed \in Nat
  BY Lengths DEF IInv
<1>4. Consumed' = Consumed + 1 /\ Consumed + 1 <= Len(text) /\ Moved_by' = Moved_by
  BY <1>1, <1>2 DEF Consumed, Moved_by
<1>5. pos + 1 \in 1 .. Len(buf)
  BY <1>1, <1>2
<1>6. text[Consumed + 1] = ch /\ ch \in Char
  <2>1. ch = text[Moved_by + (pos + 1)]
    BY <1>2, <1>5 DEF ch
  <2>2. Moved_by + (pos + 1) = Consumed + 1
    BY <1>2, <1>3
  <2>3. ch \in Char
    BY <1>2, <1>5 DEF ch
  <2> QED
    BY <2>1, <2>2, <2>3
<1> QED
  BY <1>1, <1>2, <1>3, <1>4, <1>6

(* The buffer and its pointers, whatever the character was.                *)
LEMMA BufKeeps ==
  ASSUME IInv, Advance, pc' \notin {"CONF_FILE_DONE", "done"},
         \/ UNCHANGED <<start, from>>
         \/ start' \in {pos, pos + 1} /\ from' = Consumed + (start' - pos)
  PROVE  BufInv' /\ SizeInv' /\ start' \in Nat /\ from' \in Nat /\ pos' \in Nat
<1>1. /\ pos \in Nat /\ start \in Nat /\ from \in Nat /\ start <= pos
      /\ from = Moved_by + start
  BY AdvanceIs DEF IInv, TypeInv, BufInv
<1>2. Consumed = Moved_by + pos /\ Moved_by \in Nat
  BY Lengths DEF IInv
<1>3. start' \in Nat /\ start' <= pos' /\ from' = Moved_by + start' /\ from' \in Nat
  <2>1. pos' = pos + 1
    BY AdvanceIs
  <2>2. CASE UNCHANGED <<start, from>>
    BY <1>1, <1>2, <2>1, <2>2
  <2>3. CASE start' = pos /\ from' = Consumed + (start' - pos)
    BY <1>1, <1>2, <2>1, <2>3
  <2>4. CASE start' = pos + 1 /\ from' = Consumed + (start' - pos)
    BY <1>1, <1>2, <2>1, <2>4
  <2> QED
    BY <2>2, <2>3, <2>4
<1>4. pos' \in Nat /\ pos' <= Len(buf)
  BY <1>1, AdvanceIs
<1>5. BufInv'
  BY <1>3, <1>4, AdvanceIs DEF IInv, BufInv
<1>6. SizeInv'
  BY AdvanceIs DEF IInv, SizeInv
<1> QED
  BY <1>3, <1>4, <1>5, <1>6

(* What counted goes on to count.                                          *)
LEMMA CountsKeeps ==
  ASSUME IInv, Advance, kept \subseteq kept', NEW p \in 1 .. Consumed, Counts(p)
  PROVE  Counts(p)'
BY AdvanceIs DEF Counts, InACommentAt

(* A comment that begins with the character, or goes on over it.           *)
LEMMA CommentBegins ==
  ASSUME IInv, Advance, sharp_comment' => ch = "#"
  PROVE  CommentInv'
<1> SUFFICES ASSUME sharp_comment' PROVE CommentInv'
  BY DEF CommentInv
<1>1. /\ Consumed' = Consumed + 1 /\ Consumed \in Nat /\ text' = text
      /\ text[Consumed + 1] = "#"
  BY AdvanceIs
<1>2. Consumed' \in 1 .. Consumed' /\ \A k \in Consumed' .. Consumed' : k = Consumed + 1
  BY <1>1
<1>3. /\ text'[Consumed'] = "#"
      /\ \A k \in Consumed' .. Consumed' : text'[k] # "newline"
  BY <1>1, <1>2
<1> QED
  BY <1>2, <1>3 DEF CommentInv

LEMMA CountIs ==
  ASSUME Count
  PROVE  Advance /\ ~InComment /\ (sharp_comment' => ch = "#")
BY DEF Count, StartsComment

LEMMA CommentKeeps == ASSUME IInv, Comment PROVE IInv'
<1>1. /\ Advance /\ sharp_comment /\ ch # "newline"
      /\ UNCHANGED <<start, args, pc, from, kept, need_space, last_space, sharp_comment,
                     variable, quoted, in_quotes>>
  BY DEF Comment, InComment, wordVars
<1>2. /\ Consumed' = Consumed + 1 /\ Consumed \in Nat /\ text' = text
      /\ text[Consumed + 1] = ch /\ pc = "token"
      /\ UNCHANGED <<buf, is_file, size>>
  BY <1>1, AdvanceIs
<1>3. BufInv' /\ SizeInv' /\ start' \in Nat /\ from' \in Nat /\ pos' \in Nat
  BY <1>1, <1>2, BufKeeps
<1>4. TypeInv'
  BY <1>1, <1>2, <1>3 DEF IInv, TypeInv
<1>5. PICK q \in 1 .. Consumed :
        text[q] = "#" /\ \A k \in q .. Consumed : text[k] # "newline"
  BY <1>1 DEF IInv, CommentInv
<1>6. q \in 1 .. Consumed' /\ \A k \in q .. Consumed' : k \in q .. Consumed \/ k = Consumed + 1
  BY <1>2, <1>5
<1>7. /\ q \in 1 .. Consumed' /\ text'[q] = "#"
      /\ \A k \in q .. Consumed' : text'[k] # "newline"
  BY <1>1, <1>2, <1>5, <1>6
<1>8. CommentInv'
  BY <1>7 DEF CommentInv
<1>9. KeptInv'
  <2>1. ASSUME NEW p \in 1 .. Consumed'
        PROVE  Counts(p)' \/ (InAWord' /\ p > from')
    <3>1. CASE p = Consumed'
      BY <1>7, <3>1 DEF Counts, InACommentAt
    <3>2. CASE p # Consumed'
      <4>1. p \in 1 .. Consumed
        BY <1>2, <3>2
      <4>2. Counts(p) \/ (InAWord /\ p > from)
        BY <1>2, <4>1 DEF IInv, KeptInv
      <4>3. InAWord' <=> InAWord
        BY <1>1 DEF InAWord
      <4> QED
        BY <1>1, <4>1, <4>2, <4>3, CountsKeeps
    <3> QED
      BY <3>1, <3>2
  <2> QED
    BY <1>1, <1>2, <2>1 DEF IInv, KeptInv, InAWord
<1> QED
  BY <1>3, <1>4, <1>8, <1>9 DEF IInv

(* The same of every other character: it is a separator or part of a word, *)
(* and what the word before it had is kept.                                *)
LEMMA StepKeeps ==
  ASSUME IInv, Count, pc' \notin {"CONF_FILE_DONE", "done"},
         \/ UNCHANGED <<start, from>>
         \/ start' \in {pos, pos + 1} /\ from' = Consumed + (start' - pos),
         in_quotes' \in Quotes \cup {"none"}, kept \subseteq kept',
         pc' # "failed" =>
           \/ ch \in Separator \/ (ch = "#" /\ sharp_comment')
           \/ (InAWord' /\ Consumed + 1 > from'),
         \A p \in 1 .. Consumed :
           InAWord /\ p > from => p \in kept' \/ (InAWord' /\ p > from'),
         quoted' => InAWord',
         pc' \notin {"token", "failed"} => ~InAWord'
  PROVE  IInv'
<1>1. /\ Consumed' = Consumed + 1 /\ Consumed \in Nat /\ text' = text
      /\ text[Consumed + 1] = ch /\ pc = "token" /\ Advance
      /\ UNCHANGED <<buf, is_file, size>>
  BY CountIs, AdvanceIs
<1>2. BufInv' /\ SizeInv' /\ start' \in Nat /\ from' \in Nat /\ pos' \in Nat
  BY <1>1, BufKeeps
<1>3. TypeInv'
  BY <1>1, <1>2 DEF IInv, TypeInv
<1>4. CommentInv'
  BY CountIs, CommentBegins
<1>5. KeptInv'
  <2>1. ASSUME NEW p \in 1 .. Consumed', pc' # "failed"
        PROVE  Counts(p)' \/ (InAWord' /\ p > from')
    <3>1. CASE p = Consumed'
      <4>1. CASE ch \in Separator
        BY <1>1, <3>1, <4>1 DEF Counts
      <4>2. CASE ch = "#" /\ sharp_comment'
        <5>1. p \in 1 .. p /\ \A k \in p .. p : k = p
          BY <2>1, <3>1, <1>1
        <5>2. text'[p] = "#"
          BY <1>1, <3>1, <4>2
        <5>3. InACommentAt(p)'
          BY <5>1, <5>2 DEF InACommentAt
        <5> QED
          BY <5>3 DEF Counts
      <4>3. CASE InAWord' /\ Consumed + 1 > from'
        BY <1>1, <3>1, <4>3
      <4> QED
        BY <2>1, <4>1, <4>2, <4>3
    <3>2. CASE p # Consumed'
      <4>1. p \in 1 .. Consumed
        BY <1>1, <3>2
      <4>2. Counts(p) \/ (InAWord /\ p > from)
        BY <1>1, <4>1 DEF IInv, KeptInv
      <4>3. CASE Counts(p)
        BY <1>1, <4>1, <4>3, CountsKeeps
      <4>4. CASE InAWord /\ p > from
        BY <4>1, <4>4 DEF Counts
      <4> QED
        BY <4>2, <4>3, <4>4
    <3> QED
      BY <3>1, <3>2
  <2> QED
    BY <2>1 DEF KeptInv
<1> QED
  BY <1>2, <1>3, <1>4, <1>5 DEF IInv

(* Where the character is in the word that is being read.                  *)
LEMMA FromIsBefore ==
  ASSUME IInv, Advance
  PROVE  Consumed + 1 > from
BY AdvanceIs, Lengths DEF IInv, TypeInv, BufInv

LEMMA EscapedKeeps == ASSUME IInv, Escaped PROVE IInv'
<1>1. /\ Count /\ quoted /\ ~quoted'
      /\ UNCHANGED <<start, args, need_space, last_space, variable, in_quotes, pc, from, kept>>
  BY DEF Escaped
<1>2. InAWord /\ InAWord' /\ pc = "token"
  BY <1>1, CountIs, AdvanceIs DEF IInv, KeptInv, InAWord
<1>3. Consumed + 1 > from' /\ in_quotes' \in Quotes \cup {"none"}
  BY <1>1, CountIs, FromIsBefore DEF IInv, TypeInv
<1> QED
  BY <1>1, <1>2, <1>3, StepKeeps

LEMMA AfterQuoteKeeps == ASSUME IInv, AfterQuote PROVE IInv'
<1>1. /\ Count /\ need_space /\ ~quoted
      /\ UNCHANGED <<start, args, variable, quoted, in_quotes, from, kept>>
      /\ \/ ch \in Space /\ last_space' = TRUE /\ UNCHANGED pc
         \/ UNCHANGED <<last_space, need_space>> /\ pc' = "failed"
         \/ /\ UNCHANGED <<last_space, need_space>> /\ pc' \in {"OK", "CONF_BLOCK_START"}
            /\ ch \in {";", "{"}
  BY DEF AfterQuote, Plain
<1>2. ~InAWord /\ ~InAWord' /\ pc = "token"
  BY <1>1, CountIs, AdvanceIs DEF InAWord
<1>3. in_quotes' \in Quotes \cup {"none"}
  BY <1>1 DEF IInv, TypeInv
<1> QED
  BY <1>1, <1>2, <1>3, StepKeeps DEF Separator

LEMMA SkipSpaceKeeps == ASSUME IInv, SkipSpace PROVE IInv'
<1>1. /\ Count /\ ~quoted /\ (need_space \/ last_space) /\ ch \in Space
      /\ UNCHANGED <<start, args, need_space, last_space, variable, quoted,
                     in_quotes, pc, from, kept>>
  BY DEF SkipSpace, BetweenWords, Plain
<1>2. ~InAWord /\ ~InAWord' /\ pc = "token"
  BY <1>1, CountIs, AdvanceIs DEF InAWord
<1>3. in_quotes' \in Quotes \cup {"none"}
  BY <1>1 DEF IInv, TypeInv
<1> QED
  BY <1>1, <1>2, <1>3, StepKeeps DEF Separator

(* A character that begins a word, a comment or is punctuation.            *)
LEMMA SetStartIs ==
  ASSUME SetStart
  PROVE  /\ Count /\ ~quoted /\ ~InAWord /\ ch \notin Space /\ (need_space => ch = ")")
         /\ start' = IF ch \in Quotes THEN pos + 1 ELSE pos
         /\ from' = Consumed + (start' - pos)
         /\ UNCHANGED <<args, variable, kept>>
BY DEF SetStart, BetweenWords, Plain, WordStart, InAWord

LEMMA PunctuationKeeps == ASSUME IInv, Punctuation PROVE IInv'
<1>1. /\ SetStart /\ ch \in {";", "{", "}"}
      /\ pc' \in {"CONF_BLOCK_DONE", "OK", "CONF_BLOCK_START", "failed"}
      /\ UNCHANGED <<need_space, last_space, quoted, in_quotes>>
  BY DEF Punctuation
<1>2. ~InAWord' /\ ~quoted' /\ start' \in {pos, pos + 1} /\ kept \subseteq kept'
  BY <1>1, SetStartIs DEF InAWord
<1>3. in_quotes' \in Quotes \cup {"none"} /\ ch \in Separator
  BY <1>1 DEF IInv, TypeInv, Separator
<1> QED
  BY <1>1, <1>2, <1>3, SetStartIs, StepKeeps

LEMMA StartCommentKeeps == ASSUME IInv, StartComment PROVE IInv'
<1>1. /\ SetStart /\ ch = "#"
      /\ UNCHANGED <<need_space, last_space, quoted, in_quotes, pc>>
  BY DEF StartComment
<1>2. ~InAWord' /\ ~quoted' /\ start' \in {pos, pos + 1} /\ kept \subseteq kept' /\ pc = "token"
  BY <1>1, SetStartIs, CountIs, AdvanceIs DEF InAWord
<1>3. sharp_comment'
  <2>1. ~need_space /\ last_space /\ ~quoted
    BY <1>1, SetStartIs DEF InAWord
  <2> QED
    BY <1>1, <2>1, SetStartIs DEF Count, StartsComment
<1>4. in_quotes' \in Quotes \cup {"none"}
  BY <1>1 DEF IInv, TypeInv
<1> QED
  BY <1>1, <1>2, <1>3, <1>4, SetStartIs, StepKeeps

LEMMA StartWordKeeps == ASSUME IInv, StartWord PROVE IInv'
<1>1. /\ SetStart /\ UNCHANGED pc
      /\ in_quotes' = IF ch \in Quotes THEN ch ELSE in_quotes
      /\ last_space' = FALSE /\ need_space' = FALSE
  BY DEF StartWord
<1>2. /\ InAWord' /\ ~InAWord /\ start' \in {pos, pos + 1} /\ kept \subseteq kept'
      /\ pc = "token"
  BY <1>1, SetStartIs, CountIs, AdvanceIs DEF InAWord
<1>3. in_quotes' \in Quotes \cup {"none"}
  BY <1>1 DEF IInv, TypeInv
<1>4. ch \in Separator \/ Consumed + 1 > from'
  <2>1. CASE ch \in Quotes
    BY <2>1 DEF Separator
  <2>2. CASE ch \notin Quotes
    <3>1. start' = pos /\ from' = Consumed + (pos - pos)
      BY <1>1, <2>2, SetStartIs
    <3>2. Consumed \in Nat /\ pos \in Nat
      BY Lengths DEF IInv, TypeInv
    <3> QED
      BY <3>1, <3>2
  <2> QED
    BY <2>1, <2>2
<1> QED
  BY <1>1, <1>2, <1>3, <1>4, SetStartIs, StepKeeps

LEMMA InsideWordKeeps == ASSUME IInv, InsideWord PROVE IInv'
<1>1. /\ Count /\ InAWord
      /\ UNCHANGED <<start, args, need_space, last_space, in_quotes, pc, from, kept>>
  BY DEF InsideWord, InWord, Plain, InAWord
<1>2. InAWord' /\ pc = "token"
  BY <1>1, CountIs, AdvanceIs DEF InAWord
<1>3. Consumed + 1 > from' /\ in_quotes' \in Quotes \cup {"none"}
  BY <1>1, CountIs, FromIsBefore DEF IInv, TypeInv
<1> QED
  BY <1>1, <1>2, <1>3, StepKeeps

(* What the word had is kept.                                              *)
LEMMA EndWordKeeps == ASSUME IInv, EndWord PROVE IInv'
<1>1. /\ Count /\ InAWord /\ EndsWord /\ ~quoted
      /\ kept' = kept \cup from + 1 .. Consumed
      /\ in_quotes' = "none"
      /\ need_space' = (in_quotes # "none") /\ last_space' = (in_quotes = "none")
      /\ pc' \in {"OK", "CONF_BLOCK_START", pc}
      /\ UNCHANGED <<start, quoted, from>>
  BY DEF EndWord, InWord, Plain, InAWord
<1>2. ~InAWord' /\ pc = "token"
  BY <1>1, CountIs, AdvanceIs DEF InAWord
<1>3. ch \in Separator
  BY <1>1 DEF EndsWord, Separator, IInv, TypeInv
<1>4. \A p \in 1 .. Consumed : p > from => p \in kept'
  BY <1>1, Lengths DEF IInv, TypeInv
<1> QED
  BY <1>1, <1>2, <1>3, <1>4, StepKeeps

-----------------------------------------------------------------------------
LEMMA AtLastIs ==
  ASSUME IInv, AtLast
  PROVE  /\ pc = "token" /\ pos = Len(buf) /\ Consumed = Len(text)
         /\ Len(buf) \in Nat /\ Len(text) \in Nat
<1>1. pc = "token" /\ pos >= Len(buf) /\ pos <= Len(buf) /\ pos \in Nat
  BY DEF AtLast, IInv, TypeInv, BufInv
<1>2. Len(buf) \in Nat /\ Len(text) \in Nat
  BY Lengths DEF IInv
<1>3. pos = Len(buf)
  BY <1>1, <1>2
<1> QED
  BY <1>1, <1>2, <1>3 DEF Consumed

(* A step that ends parsing, or the call of read_token_().                 *)
LEMMA StopKeeps ==
  ASSUME IInv, NEW x, pc' = x, x # "token",
         UNCHANGED <<inputVars, bufVars, pos, start, wordVars, from, kept>>,
         x \in {"CONF_FILE_DONE", "done"} =>
           Len(text) = size /\ pos = Len(buf) /\ ~InAWord /\ pc # "failed",
         x # "failed" => ~InAWord /\ pc # "failed"
  PROVE  IInv'
<1>1. UNCHANGED <<is_file, size, text, buf, pos, start, from, kept, need_space,
                  last_space, sharp_comment, quoted, in_quotes>>
  BY DEF inputVars, bufVars, wordVars
<1>2. TypeInv' /\ BufInv'
  BY <1>1 DEF IInv, TypeInv, BufInv, Moved_by
<1>3. SizeInv'
  BY <1>1 DEF IInv, SizeInv
<1>4. CommentInv'
  BY <1>1 DEF IInv, CommentInv, Consumed
<1>5. KeptInv'
  BY <1>1 DEF IInv, KeptInv, Consumed, InAWord, Counts, InACommentAt
<1> QED
  BY <1>2, <1>3, <1>4, <1>5 DEF IInv

LEMMA EndOfTextKeeps == ASSUME IInv, EndOfText PROVE IInv'
<1>1. /\ AtLast /\ Offset >= FileSize
      /\ pc' = IF args > 0 \/ ~last_space THEN "failed" ELSE "CONF_FILE_DONE"
      /\ UNCHANGED <<inputVars, bufVars, pos, start, wordVars, from, kept>>
  BY DEF EndOfText, AtEnd
<1>2. /\ pc = "token" /\ pos = Len(buf) /\ Len(text) \in Nat
  BY <1>1, AtLastIs
<1>3. Len(text) = size
  <2>1. size \in Nat /\ Len(text) <= size /\ (~is_file => Len(text) = size)
    BY DEF IInv, TypeInv, SizeInv
  <2>2. is_file => Len(text) >= size
    BY <1>1 DEF Offset, FileSize
  <2> QED
    BY <1>2, <2>1, <2>2
<1>4. CASE args > 0 \/ ~last_space
  BY <1>1, <1>4, StopKeeps
<1>5. CASE ~(args > 0 \/ ~last_space)
  <2>1. ~InAWord /\ pc' = "CONF_FILE_DONE"
    BY <1>1, <1>5 DEF InAWord
  <2> QED
    BY <1>1, <1>2, <1>3, <2>1, StopKeeps
<1> QED
  BY <1>4, <1>5

(* The token is moved to the start of the buffer, and more is read into    *)
(* the rest of it.                                                         *)
LEMMA RefillKeeps == ASSUME IInv, Refill PROVE IInv'
<1> DEFINE len == pos - start
           n   == Min({FileSize - Offset, Room(len)})
<1>1. /\ AtLast /\ ~(Offset >= FileSize) /\ len # MAX_CONF_BUFFER
      /\ pos' = len /\ start' = 0
      /\ UNCHANGED <<inputVars, args, wordVars, depth, pc, from, kept>>
  BY DEF Refill, AtEnd
<1>2. PICK more \in [1 .. n -> Char] : text' = text \o more /\ buf' = Moved(len) \o more
  BY DEF Refill
<1>3. /\ pc = "token" /\ pos = Len(buf) /\ Consumed = Len(text)
      /\ Len(buf) \in Nat /\ Len(text) \in Nat
  BY <1>1, AtLastIs
<1>4. /\ start \in Nat /\ start <= pos /\ pos \in Nat /\ len \in Nat /\ size \in Nat
      /\ MAX_CONF_BUFFER \in Nat
      /\ text \in Seq(Char) /\ buf \in Seq(Char) /\ Len(buf) <= Len(text)
  <2>1. /\ start \in Nat /\ start <= pos /\ pos \in Nat /\ size \in Nat
        /\ text \in Seq(Char) /\ buf \in Seq(Char) /\ Len(buf) <= Len(text)
    BY DEF IInv, TypeInv, BufInv
  <2>2. MAX_CONF_BUFFER \in Nat
    BY ConfAssumption
  <2> QED
    BY <2>1, <2>2
<1>5. is_file /\ Offset = Len(text) /\ FileSize = size /\ Len(text) < size
  <2>1. is_file
    BY <1>1 DEF Offset, FileSize
  <2> QED
    BY <1>1, <1>3, <1>4, <2>1 DEF Offset, FileSize
<1>6. n \in Nat /\ n <= size - Len(text) /\ n <= MAX_CONF_BUFFER - len
  <2>1. Len(buf) <= MAX_CONF_BUFFER /\ len <= MAX_CONF_BUFFER
    BY <1>3, <1>4, <1>5 DEF IInv, BufInv
  <2>2. \A a, b \in Nat : /\ Min({a, b}) \in Nat /\ Min({a, b}) <= a /\ Min({a, b}) <= b
    <3> SUFFICES ASSUME NEW a \in Nat, NEW b \in Nat
                 PROVE  Min({a, b}) \in Nat /\ Min({a, b}) <= a /\ Min({a, b}) <= b
      OBVIOUS
    <3>1. \E x \in {a, b} : \A y \in {a, b} : x <= y
      OBVIOUS
    <3>2. Min({a, b}) \in {a, b} /\ \A y \in {a, b} : Min({a, b}) <= y
      BY <3>1 DEF Min
    <3> QED
      BY <3>2
  <2>3. size - Len(text) \in Nat /\ MAX_CONF_BUFFER - len \in Nat
    BY <1>3, <1>4, <1>5, <2>1
  <2> QED
    BY <1>5, <2>2, <2>3 DEF Room
<1> HIDE DEF n
<1>7. more \in Seq(Char) /\ Len(more) = n
  BY <1>2, <1>6
<1>8. /\ Moved(len) \in Seq(Char) /\ Len(Moved(len)) = len
      /\ \A i \in 1 .. len : Moved(len)[i] = buf[start + i]
  <2>1. start + len = Len(buf) /\ Len(buf) \in 0 .. Len(buf) /\ start \in 0 .. Len(buf)
    BY <1>3, <1>4
  <2>2. Moved(len) = SubSeq(buf, start + 1, Len(buf)) /\ Len(buf) - start = len
    BY <1>3, <2>1 DEF Moved
  <2> HIDE DEF len
  <2> QED
    BY <1>4, <2>1, <2>2, SubSeqIs
<1>0. \A s, t \in Seq(Char) :
        /\ s \o t \in Seq(Char) /\ Len(s \o t) = Len(s) + Len(t)
        /\ \A i \in 1 .. Len(s) : (s \o t)[i] = s[i]
        /\ \A i \in 1 .. Len(t) : (s \o t)[Len(s) + i] = t[i]
  BY ConcatIs
<1>9. /\ text' \in Seq(Char) /\ Len(text') = Len(text) + n
      /\ \A i \in 1 .. Len(text) : text'[i] = text[i]
      /\ \A i \in 1 .. n : text'[Len(text) + i] = more[i]
  <2>1. text \in Seq(Char)
    BY <1>4
  <2>2. /\ text \o more \in Seq(Char) /\ Len(text \o more) = Len(text) + Len(more)
        /\ \A i \in 1 .. Len(text) : (text \o more)[i] = text[i]
        /\ \A i \in 1 .. Len(more) : (text \o more)[Len(text) + i] = more[i]
    BY <1>0, <1>7, <2>1, Zenon
  <2> QED
    BY <1>2, <1>7, <2>2, Zenon
<1>10. /\ buf' \in Seq(Char) /\ Len(buf') = len + n
       /\ \A i \in 1 .. len : buf'[i] = buf[start + i]
       /\ \A i \in 1 .. n : buf'[len + i] = more[i]
  <2> HIDE DEF len
  <2>1. /\ Moved(len) \o more \in Seq(Char)
        /\ Len(Moved(len) \o more) = Len(Moved(len)) + Len(more)
        /\ \A i \in 1 .. Len(Moved(len)) : (Moved(len) \o more)[i] = Moved(len)[i]
        /\ \A i \in 1 .. Len(more) : (Moved(len) \o more)[Len(Moved(len)) + i] = more[i]
    BY <1>0, <1>7, <1>8, Zenon
  <2> QED
    BY <1>2, <1>7, <1>8, <2>1, Zenon
<1>11. UNCHANGED <<is_file, size, pc, from, kept, need_space, last_space,
                   sharp_comment, quoted, in_quotes>>
  BY <1>1 DEF inputVars, wordVars
<1>12. /\ Moved_by' = Len(text) - len /\ Moved_by' = Moved_by + start /\ Consumed' = Consumed
  BY <1>1, <1>3, <1>4, <1>6, <1>9, <1>10 DEF Moved_by, Consumed
<1>13. TypeInv'
  BY <1>1, <1>4, <1>9, <1>10, <1>11 DEF IInv, TypeInv
<1>14. BufInv'
  <2>1. ASSUME NEW i \in 1 .. Len(buf')
        PROVE  buf'[i] = text'[Moved_by' + i]
    <3>1. CASE i \in 1 .. len
      <4>1. start + i \in 1 .. Len(buf) /\ Moved_by + (start + i) \in 1 .. Len(text)
            /\ Moved_by' + i = Moved_by + (start + i)
        <5>1. Moved_by \in Nat /\ Moved_by + Len(buf) = Len(text)
          BY <1>3, Lengths DEF IInv, Moved_by
        <5>2. i \in Nat /\ i >= 1 /\ start + i <= Len(buf)
          BY <1>3, <1>4, <3>1
        <5>3. start + i \in 1 .. Len(buf)
          BY <1>3, <1>4, <5>2
        <5>4. Moved_by + (start + i) \in 1 .. Len(text)
          BY <1>3, <1>4, <5>1, <5>2
        <5>5. Moved_by' + i = Moved_by + (start + i)
          BY <1>4, <1>12, <5>1, <5>2
        <5> QED
          BY <5>3, <5>4, <5>5
      <4>2. buf[start + i] = text[Moved_by + (start + i)]
        BY <4>1 DEF IInv, BufInv
      <4> QED
        BY <1>9, <1>10, <3>1, <4>1, <4>2
    <3>2. CASE i \notin 1 .. len
      <4>1. PICK k \in 1 .. n : i = len + k
        <5>1. i - len \in 1 .. n /\ i = len + (i - len)
          BY <1>4, <1>6, <1>10, <3>2
        <5> QED
          BY <5>1
      <4>2. Moved_by' + i = Len(text) + k
        BY <1>3, <1>4, <1>12, <4>1
      <4> QED
        BY <1>9, <1>10, <4>1, <4>2
    <3> QED
      BY <3>1, <3>2
  <2>2. /\ start' <= pos' /\ pos' <= Len(buf') /\ Len(buf') <= Len(text')
        /\ Len(buf') <= MAX_CONF_BUFFER
    BY <1>1, <1>3, <1>4, <1>6, <1>9, <1>10
  <2>3. from' = Moved_by' + start'
    <3>1. from = Moved_by + start /\ Moved_by \in Nat
      BY <1>3, Lengths DEF IInv, BufInv
    <3> QED
      BY <1>1, <1>4, <1>11, <1>12, <3>1
  <2> QED
    BY <2>1, <2>2, <2>3 DEF BufInv
<1>15. SizeInv'
  BY <1>3, <1>4, <1>5, <1>6, <1>9, <1>11 DEF SizeInv
<1>16. \A i \in 1 .. Consumed : text'[i] = text[i] /\ i \in Nat
  BY <1>3, <1>9
<1>17. CommentInv'
  BY <1>3, <1>11, <1>12, <1>16 DEF IInv, CommentInv
<1>18. KeptInv'
  <2>1. ASSUME NEW p \in 1 .. Consumed, Counts(p)
        PROVE  Counts(p)'
    <3>1. \A k \in 1 .. p : k \in 1 .. Consumed /\ \A j \in k .. p : j \in 1 .. Consumed
      BY <1>3
    <3> QED
      BY <1>11, <1>16, <2>1, <3>1 DEF Counts, InACommentAt
  <2> QED
    BY <1>11, <1>12, <2>1 DEF IInv, KeptInv, InAWord
<1> QED
  BY <1>13, <1>14, <1>15, <1>17, <1>18 DEF IInv

-----------------------------------------------------------------------------
(* parse() goes on with the next directive, in whatever block.             *)
LEMMA CallReadTokenKeeps ==
  ASSUME IInv, pc \notin {"token", "failed"}, CallReadToken
  PROVE  IInv'
<1>1. /\ pc' = "token" /\ start' = pos /\ from' = Consumed /\ in_quotes' = "none"
      /\ ~sharp_comment' /\ ~quoted' /\ ~InAWord'
      /\ UNCHANGED <<is_file, size, text, buf, pos, kept>>
  BY DEF CallReadToken, inputVars, bufVars, InAWord
<1>2. Consumed \in Nat /\ Consumed = Moved_by + pos
  BY Lengths DEF IInv
<1>3. TypeInv'
  BY <1>1, <1>2 DEF IInv, TypeInv
<1>4. BufInv'
  BY <1>1, <1>2 DEF IInv, TypeInv, BufInv, Moved_by
<1>5. SizeInv' /\ CommentInv'
  BY <1>1 DEF IInv, SizeInv, CommentInv
<1>6. KeptInv'
  BY <1>1 DEF IInv, KeptInv, Consumed, Counts, InACommentAt
<1> QED
  BY <1>3, <1>4, <1>5, <1>6 DEF IInv

LEMMA ParseKeeps == ASSUME IInv, parse PROVE IInv'
<1>1. CASE Directive \/ BlockStart \/ BlockDone
  BY <1>1, CallReadTokenKeeps DEF Directive, BlockStart, BlockDone
<1>2. CASE FileDone
  <2>1. /\ pc = "CONF_FILE_DONE" /\ pc' = "done"
        /\ UNCHANGED <<inputVars, bufVars, pos, start, wordVars, from, kept>>
    BY <1>2 DEF FileDone, Stop
  <2>2. Len(text) = size /\ pos = Len(buf) /\ ~InAWord
    BY <2>1 DEF IInv, SizeInv, KeptInv
  <2> QED
    BY <2>1, <2>2, StopKeeps
<1>3. CASE Rejected
  <2>1. /\ pc' = "failed"
        /\ UNCHANGED <<inputVars, bufVars, pos, start, wordVars, from, kept>>
    BY <1>3 DEF Rejected, Stop
  <2> QED
    BY <2>1, StopKeeps
<1> QED
  BY <1>1, <1>2, <1>3 DEF parse

LEMMA FailsKeeps == ASSUME IInv, TooLong \/ ReadFails PROVE IInv'
<1>1. /\ pc' = "failed"
      /\ UNCHANGED <<inputVars, bufVars, pos, start, wordVars, from, kept>>
  BY DEF TooLong, ReadFails
<1> QED
  BY <1>1, StopKeeps

LEMMA StutterKeeps == ASSUME IInv, UNCHANGED vars PROVE IInv'
<1>1. UNCHANGED <<is_file, size, text, buf, pos, start, from, kept, need_space,
                  last_space, sharp_comment, quoted, in_quotes, pc>>
  BY DEF vars, inputVars, bufVars, wordVars
<1> QED
  BY <1>1 DEF IInv, TypeInv, BufInv, SizeInv, CommentInv, KeptInv, Moved_by, Consumed,
              InAWord, Counts, InACommentAt

LEMMA Invariant == Spec => []IInv
<1>1. IInv /\ [Next]_vars => IInv'
  BY EndOfTextKeeps, FailsKeeps, RefillKeeps, CommentKeeps, EscapedKeeps, AfterQuoteKeeps,
     SkipSpaceKeeps, PunctuationKeeps, StartCommentKeeps, StartWordKeeps, InsideWordKeeps,
     EndWordKeeps, ParseKeeps, StutterKeeps DEF Next, read_token_
<1> QED
  BY <1>1, InitOK, PTL DEF Spec

-----------------------------------------------------------------------------
(* Wherever the buffer had to be filled again, the token is in it in one   *)
(* piece, nothing was written behind its end, and the pointers are in      *)
(* order (Conf::read_token_).                                              *)
THEOREM TokenCorrect == Spec => []TokenInOnePiece
<1>1. ASSUME IInv PROVE TokenInOnePiece
  <2>1. /\ start \in Nat /\ pos \in Nat /\ start <= pos /\ pos <= Len(buf)
        /\ is_file => Len(buf) <= MAX_CONF_BUFFER
        /\ buf \in Seq(Char) /\ text \in Seq(Char)
    BY <1>1 DEF IInv, TypeInv, BufInv
  <2>2. ASSUME pc = "token"
        PROVE  SubSeq(buf, start + 1, pos) = SubSeq(text, from + 1, Consumed)
    <3>1. /\ from = Moved_by + start /\ Consumed = Moved_by + pos /\ Moved_by \in Nat
          /\ Consumed <= Len(text) /\ Len(text) \in Nat /\ Len(buf) \in Nat
          /\ \A i \in 1 .. Len(buf) : buf[i] = text[Moved_by + i]
      BY <1>1, <2>2, Lengths DEF IInv, BufInv
    <3> DEFINE s == SubSeq(buf, start + 1, pos)
               t == SubSeq(text, from + 1, Consumed)
    <3>2. /\ s \in Seq(Char) /\ Len(s) = pos - start
          /\ \A i \in 1 .. pos - start : s[i] = buf[start + i]
      BY <2>1, <3>1
    <3>3. /\ t \in Seq(Char) /\ Len(t) = pos - start
          /\ \A i \in 1 .. pos - start : t[i] = text[Moved_by + start + i]
      BY <2>1, <3>1
    <3>4. ASSUME NEW i \in 1 .. pos - start
          PROVE  s[i] = t[i]
      <4>1. start + i \in 1 .. Len(buf) /\ Moved_by + start + i = Moved_by + (start + i)
        BY <2>1, <3>1
      <4>2. buf[start + i] = text[Moved_by + (start + i)]
        BY <3>1, <4>1
      <4> QED
        BY <3>2, <3>3, <4>1, <4>2
    <3> HIDE DEF s, t
    <3>5. s = t
      BY <3>2, <3>3, <3>4
    <3> QED
      BY <3>5 DEF s, t
  <2>3. 0 <= start
    BY <2>1
  <2> QED
    BY <2>1, <2>2, <2>3, Zenon DEF TokenInOnePiece
<1> QED
  BY <1>1, Invariant, PTL

(* A configuration is accepted only when all of it was read, and all of it *)
(* is in a word, between words or in a comment (Conf::parse).              *)
THEOREM NothingLostCorrect == Spec => []NothingLost
<1>1. ASSUME IInv, pc = "done" PROVE NothingLost
  <2>1. Len(text) = size /\ pos = Len(buf) /\ Len(buf) \in Nat /\ Len(text) \in Nat
    BY <1>1, Lengths DEF IInv, SizeInv
  <2>2. Consumed = size
    BY <2>1 DEF Consumed
  <2>3. \A p \in 1 .. size : Counts(p)
    BY <1>1, <2>2 DEF IInv, KeptInv
  <2> QED
    BY <2>1, <2>2, <2>3 DEF NothingLost, Counts, Separator
<1>2. IInv => NothingLost
  BY <1>1 DEF NothingLost
<1> QED
  BY <1>2, Invariant, PTL
=============================================================================
