------------------------------ MODULE ConfFile -----------------------------
(***************************************************************************)
(* Reading a configuration (src/src/lingx/core/conf_file.cc): the          *)
(* tokenizer Conf::read_token_, the buffer it reads the file through, and  *)
(* Conf::parse, which calls itself (through the handler of a directive     *)
(* with a block) for what is between braces.                               *)
(*                                                                         *)
(* Characters are classes: "a" is any ordinary one, "blank" is space, tab  *)
(* and carriage return.  A word is the part of the text it was taken from; *)
(* its escapes are left out.  A directive is accepted or not; what it does *)
(* is not modelled here.  The -g parameter is the same code over a buffer  *)
(* that holds everything from the start.                                   *)
(***************************************************************************)
EXTENDS Integers, SequencesExt

CONSTANTS Char,              \* the classes used
          MAX_CONF_BUFFER,
          MaxText            \* bound: characters of a configuration

ASSUME ConfAssumption ==
  /\ Char \subseteq {"a", "blank", "newline", ";", "{", "}", "#", "\\",
                     "quote", "apostrophe", "$", ")"}
  /\ MAX_CONF_BUFFER \in Nat \ {0} /\ MaxText \in Nat

Space  == {"blank", "newline"}
Quotes == {"quote", "apostrophe"}

VARIABLES
  is_file,       \* conf_file_->file.fd() # -1: not the -g parameter
  size,          \* file_size, and the size of the parameter
  text,          \* what has been read of it so far
  buf,           \* the buffer from b->start to b->last
  pos, start,    \* b->pos and start, from b->start
  args,          \* args_.size()
  need_space, last_space, sharp_comment, variable, quoted,
  in_quotes,     \* d_quoted, s_quoted: the quotes the word is in, or "none"
  depth,         \* how many blocks parse() is in
  pc,            \* "token", "done", "failed", or what read_token_ returned
  from,          \* history: where in text start was
  kept           \* history: the places of text that are in a word

bufVars    == <<text, buf>>
inputVars  == <<is_file, size>>
wordVars   == <<need_space, last_space, sharp_comment, variable, quoted, in_quotes>>
vars == <<inputVars, bufVars, pos, start, args, wordVars, depth, pc, from, kept>>

Consumed == Len(text) - (Len(buf) - pos)      \* characters of text read

(* parse() of a file, or of the parameter, and its first read_token_().    *)
Init ==
  /\ is_file \in BOOLEAN
  /\ size \in 0 .. MaxText
  /\ IF is_file THEN text = <<>> ELSE text \in [1 .. size -> Char]
  /\ buf = text
  /\ pos = 0 /\ start = 0 /\ args = 0
  /\ need_space = FALSE /\ last_space = TRUE /\ sharp_comment = FALSE
  /\ variable = FALSE /\ quoted = FALSE /\ in_quotes = "none"
  /\ depth = 0 /\ pc = "token"
  /\ from = 0 /\ kept = {}

-----------------------------------------------------------------------------
(* The buffer is empty: the text ends, or more of it is read.              *)
AtLast == pc = "token" /\ pos >= Len(buf)

Offset == IF is_file THEN Len(text) ELSE 0       \* file.offset()
FileSize == IF is_file THEN size ELSE 0          \* st_size of no file is 0

AtEnd_Never == Offset > FileSize                            \* mutant: not >=

AtEnd == Offset >= FileSize

EndOfText ==
  /\ AtLast /\ AtEnd
  /\ pc' = IF args > 0 \/ ~last_space THEN "failed" ELSE "CONF_FILE_DONE"
  /\ UNCHANGED <<inputVars, bufVars, pos, start, args, wordVars, depth, from, kept>>

TooLong ==
  /\ AtLast /\ ~AtEnd
  /\ pos - start = MAX_CONF_BUFFER
  /\ pc' = "failed"
  /\ UNCHANGED <<inputVars, bufVars, pos, start, args, wordVars,
                 depth, from, kept>>

(* The part of the token that is there is moved to the start of the        *)
(* buffer, and as much is read as the rest of it holds.                    *)
Room(len) == MAX_CONF_BUFFER - len

Moved_From(len) == SubSeq(buf, 1, len)      \* mutant: moved from b->start

Moved(len) == SubSeq(buf, start + 1, start + len)

Refill ==
  LET len == pos - start
      n   == Min({FileSize - Offset, Room(len)})
  IN
  /\ AtLast /\ ~AtEnd /\ len # MAX_CONF_BUFFER
  /\ \E more \in [1 .. n -> Char] :
       text' = text \o more /\ buf' = Moved(len) \o more
  /\ pos' = len /\ start' = 0
  /\ UNCHANGED <<inputVars, args, wordVars, depth, pc, from, kept>>

(* read() fails, or the file has become shorter.                           *)
ReadFails ==
  /\ AtLast /\ ~AtEnd
  /\ pos - start # MAX_CONF_BUFFER
  /\ pc' = "failed"
  /\ UNCHANGED <<inputVars, bufVars, pos, start, args, wordVars, depth, from, kept>>

-----------------------------------------------------------------------------
(* One character: ch = *b->pos++.                                          *)
HasChar == pc = "token" /\ pos < Len(buf)
ch      == buf[pos + 1]

Advance ==
  /\ HasChar
  /\ pos' = pos + 1
  /\ UNCHANGED <<inputVars, bufVars, depth>>

InComment == sharp_comment /\ ch # "newline"

Comment ==
  /\ Advance /\ InComment
  /\ UNCHANGED <<start, args, wordVars, pc, from, kept>>

(* From here on the character counts; it ends a comment or may start one.  *)
StartsComment == ch = "#" /\ ~quoted /\ ~need_space /\ last_space

Count == Advance /\ ~InComment /\ sharp_comment' = StartsComment

Escaped ==
  /\ Count /\ quoted
  /\ quoted' = FALSE
  /\ UNCHANGED <<start, args, need_space, last_space, variable, in_quotes, pc, from, kept>>

Plain == Count /\ ~quoted

(* What may follow the closing quote of a word.                            *)
AfterQuote ==
  /\ Plain /\ need_space /\ ch # ")"
  /\ IF ch \in Space
     THEN last_space' = TRUE /\ need_space' = FALSE /\ UNCHANGED pc
     ELSE /\ pc' = (CASE ch = ";" -> "OK" [] ch = "{" -> "CONF_BLOCK_START"
                      [] OTHER -> "failed")
          /\ UNCHANGED <<last_space, need_space>>
  /\ UNCHANGED <<start, args, variable, quoted, in_quotes, from, kept>>

BetweenWords == Plain /\ (need_space => ch = ")") /\ (need_space \/ last_space)

SkipSpace ==
  /\ BetweenWords /\ ch \in Space
  /\ UNCHANGED <<start, args, need_space, last_space, variable, quoted,
                 in_quotes, pc, from, kept>>

(* start is set at the first character that is no space, whatever it is.   *)
WordStart_After(c) == pos + 1            \* mutant: b->pos, not b->pos - 1

WordStart(c) == IF c \in Quotes THEN pos + 1 ELSE pos

SetStart ==
  /\ BetweenWords /\ ch \notin Space
  /\ start' = WordStart(ch)
  /\ from' = Consumed + (start' - pos)
  /\ UNCHANGED <<args, variable, kept>>

Punctuation ==
  /\ SetStart /\ ch \in {";", "{", "}"}
  /\ pc' = (CASE ch = "}" /\ args = 0 -> "CONF_BLOCK_DONE"
             [] ch = ";" /\ args > 0 -> "OK"
             [] ch = "{" /\ args > 0 -> "CONF_BLOCK_START"
             [] OTHER -> "failed")
  /\ UNCHANGED <<need_space, last_space, quoted, in_quotes>>

StartComment ==
  /\ SetStart /\ ch = "#"
  /\ UNCHANGED <<need_space, last_space, quoted, in_quotes, pc>>

StartWord ==
  /\ SetStart /\ ch \notin {";", "{", "}", "#"}
  /\ quoted' = (ch = "\\")
  /\ in_quotes' = IF ch \in Quotes THEN ch ELSE in_quotes
  /\ last_space' = FALSE /\ need_space' = FALSE
  /\ UNCHANGED pc

InWord == Plain /\ ~need_space /\ ~last_space

(* Characters that do not end a word: an escape, a variable and the brace  *)
(* of ${name}, anything else inside quotes or not a separator.             *)
EndsWord ==
  IF in_quotes # "none" THEN ch = in_quotes
  ELSE ch \in Space \cup {";", "{"}

InsideWord ==
  /\ InWord
  /\ ch \in {"\\", "$"} \/ (ch = "{" /\ variable) \/ ~EndsWord
  /\ quoted' = (ch = "\\" )
  /\ variable' = (ch = "$" \/ (ch = "{" /\ variable))
  /\ UNCHANGED <<start, args, need_space, last_space, in_quotes,
                 pc, from, kept>>

EndWord ==
  /\ InWord
  /\ EndsWord /\ ~(ch = "{" /\ variable)
  /\ args' = args + 1
  /\ kept' = kept \cup from + 1 .. Consumed
  /\ variable' = FALSE
  /\ in_quotes' = "none"
  /\ need_space' = (in_quotes # "none")
  /\ last_space' = (in_quotes = "none")
  /\ pc' = (CASE ch = ";" -> "OK" [] ch = "{" -> "CONF_BLOCK_START"
             [] OTHER -> pc)
  /\ UNCHANGED <<start, quoted, from>>

read_token_ ==
  \/ EndOfText \/ TooLong \/ Refill
  \/ Comment \/ Escaped \/ AfterQuote \/ SkipSpace
  \/ Punctuation \/ StartComment \/ StartWord \/ InsideWord \/ EndWord

-----------------------------------------------------------------------------
(* parse(): what it does with what read_token_ returned.                   *)
CallReadToken ==
  /\ pc' = "token"
  /\ args' = 0 /\ start' = pos /\ from' = Consumed
  /\ need_space' = FALSE /\ last_space' = TRUE /\ sharp_comment' = FALSE
  /\ variable' = FALSE /\ quoted' = FALSE /\ in_quotes' = "none"
  /\ UNCHANGED <<inputVars, bufVars, pos, kept>>

Stop(at) ==
  /\ pc' = at
  /\ UNCHANGED <<inputVars, bufVars, pos, start, args, wordVars, depth, from, kept>>

(* handle_() accepts a directive; the handler of one with a block calls    *)
(* parse() again.  A block is not possible in the parameter.               *)
Directive == pc = "OK" /\ CallReadToken /\ UNCHANGED depth

BlockStart ==
  /\ pc = "CONF_BLOCK_START" /\ is_file
  /\ depth' = depth + 1
  /\ CallReadToken

BlockDone ==
  /\ pc = "CONF_BLOCK_DONE" /\ depth > 0
  /\ depth' = depth - 1
  /\ CallReadToken

FileDone == pc = "CONF_FILE_DONE" /\ depth = 0 /\ Stop("done")

Rejected ==
  /\ \/ pc = "OK" \/ pc = "CONF_BLOCK_START"
     \/ pc = "CONF_BLOCK_DONE"
     \/ pc = "CONF_FILE_DONE" /\ depth > 0
  /\ Stop("failed")

parse == Directive \/ BlockStart \/ BlockDone \/ FileDone \/ Rejected

Next == read_token_ \/ ReadFails \/ parse

(* The process runs; that read() fails is promised by nothing.             *)
Spec == Init /\ [][Next]_vars /\ WF_vars(read_token_ \/ parse)

-----------------------------------------------------------------------------
(* The token that is being read is in the buffer in one piece, and is what *)
(* the text has at its place, wherever the buffer had to be filled again;  *)
(* the pointers stay in order and in the buffer, and the buffer in its     *)
(* bounds (conf_file.cc:186-266).                                          *)
TokenInOnePiece ==
  /\ 0 <= start /\ start <= pos /\ pos <= Len(buf)
  /\ is_file => Len(buf) <= MAX_CONF_BUFFER
  /\ pc = "token" =>
       SubSeq(buf, start + 1, pos) = SubSeq(text, from + 1, Consumed)

(* A comment reaches from its # to the end of the line.                    *)
InACommentAt(p) ==
  \E q \in 1 .. p : text[q] = "#" /\ \A k \in q .. p : text[k] # "newline"

(* A configuration is not accepted with a part of it ignored: the text has *)
(* been read to its end, and what is in no word is space, punctuation, the *)
(* quotes of a word or in a comment.                                       *)
NothingLost ==
  pc = "done" =>
    /\ Len(text) = size /\ Consumed = size
    /\ \A p \in 1 .. size :
         \/ p \in kept \/ text[p] \in Space \cup {";", "{", "}"} \cup Quotes
         \/ InACommentAt(p)

(* Every configuration is accepted or refused in the end.                  *)
ParseEnds == <>(pc \in {"done", "failed"})
=============================================================================
