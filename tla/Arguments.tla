----------------------------- MODULE Arguments ------------------------------
(***************************************************************************)
(* daemon_conf_parse_general_arguments: the value of the arguments key is  *)
(* split into words and unquoted in place.  The words are written into the *)
(* copy of the value which is being read, in front of the place where it   *)
(* is read; dst, src and arg are pointers into this copy, and have no      *)
(* meaning between two words.                                              *)
(*                                                                         *)
(* An operator named Wrong... is a bug which the one after it does not     *)
(* have: no module uses it, it is there to be put in its place, so that    *)
(* the properties are seen to fail.                                        *)
(***************************************************************************)
EXTENDS Naturals, Sequences

CONSTANTS
  Letters,  \* the characters which have no meaning of their own
  NUL       \* the end of a string

VARIABLES
  value,     \* the value which is expanded
  buf,       \* its copy, with the end
  it,        \* the place which is read next
  dst,       \* the place which is written next
  src,       \* the place from where it is written
  arg,       \* where the word begins
  mode,      \* state
  arguments  \* the words so far

argumentsVars == <<value, buf, it, dst, src, arg, mode, arguments>>

(* The word in the buffer: what is between arg and dst.  Between two words   *)
(* there is none.                                                            *)
Word == SubSeq(buf, arg, dst - 1)
Partial == IF mode \in {"SPACES", "END"} THEN << >> ELSE Word

(* What the expansion is to be. *)
Expanded == INSTANCE Expansion WITH at <- it, words <- arguments, word <- Partial

Chars == Expanded!Chars
SPACE == Expanded!SPACE
BACKSLASH == Expanded!BACKSLASH
SINGLE == Expanded!SINGLE
DOUBLE == Expanded!DOUBLE
Quotes == {SINGLE, DOUBLE}
Ended == {"END", "ERROR_UNCLOSED_QUOTE"}

ASSUME LettersAssumption ==
  NUL \notin Chars /\ Letters \cap ({SPACE, BACKSLASH} \cup Quotes) = {}

ArgumentsInit ==
  /\ value = << >> /\ buf = <<NUL>> /\ it = 1 /\ dst = 1 /\ src = 1 /\ arg = 1
  /\ mode = "END" /\ arguments = << >>

(* The copy of the value, and the first turn of the loop. *)
ExpandBegin(v) ==
  /\ mode \in Ended
  /\ value' = v /\ buf' = Append(v, NUL) /\ it' = 1
  /\ mode' = "SPACES" /\ arguments' = << >>
  /\ UNCHANGED <<dst, src, arg>>

-----------------------------------------------------------------------------
(* One turn of the loop: what it does with the character at it. *)

Turn(m) == mode' = m /\ it' = it + 1 /\ UNCHANGED value

(* src++: the character is left out. *)
Skip == src' = src + 1 /\ UNCHANGED <<buf, dst, arg, arguments>>

(* Wrong: the end of the word is written behind dst, not at it.              *)
WrongAppendWord ==
  /\ buf' = [buf EXCEPT ![IF dst < Len(buf) THEN dst + 1 ELSE dst] = NUL]
  /\ arguments' = Append(arguments, Word)
  /\ UNCHANGED <<dst, src, arg>>

(* *dst = '\0', and the word from arg to there is added to the list. *)
AppendWord ==
  /\ buf' = [buf EXCEPT ![dst] = NUL]
  /\ arguments' = Append(arguments, Word)
  /\ UNCHANGED <<dst, src, arg>>

(* *dst++ = *src++ *)
Copy ==
  /\ buf' = [buf EXCEPT ![dst] = buf[src]]
  /\ dst' = dst + 1 /\ src' = src + 1
  /\ UNCHANGED <<arg, arguments>>

(* A word begins; its first character stays where it is, unless a quote.     *)
BeginWord(n) ==
  /\ arg' = it /\ dst' = it + n /\ src' = it + 1
  /\ UNCHANGED <<buf, arguments>>

Between == UNCHANGED <<buf, dst, src, arg, arguments>>

(* EXPAND_SPACES *)
ExpandSpaces ==
  /\ mode = "SPACES"
  /\ \/ buf[it] = NUL /\ Turn("END") /\ Between
     \/ buf[it] = SPACE /\ Turn("SPACES") /\ Between
     \/ buf[it] \in Quotes /\ Turn(Expanded!Opened(buf[it])) /\ BeginWord(0)
     \/ buf[it] \notin Quotes \cup {SPACE, NUL} /\ Turn("LITERAL") /\ BeginWord(1)

(* EXPAND_LITERAL *)
ExpandLiteral ==
  /\ mode = "LITERAL"
  /\ \/ buf[it] = NUL /\ Turn("END") /\ AppendWord
     \/ buf[it] = SPACE /\ Turn("SPACES") /\ AppendWord
     \/ buf[it] \in Quotes /\ Turn(Expanded!Opened(buf[it])) /\ Skip
     \/ buf[it] \notin Quotes \cup {SPACE, NUL} /\ Turn("LITERAL") /\ Copy

Unclosed == buf[it] = NUL /\ Turn("ERROR_UNCLOSED_QUOTE") /\ Between

(* EXPAND_QUOTE_SINGLE *)
ExpandSingle ==
  /\ mode = "QUOTE_SINGLE"
  /\ \/ Unclosed
     \/ buf[it] = SINGLE /\ Turn("LITERAL") /\ Skip
     \/ buf[it] \notin {SINGLE, NUL} /\ Turn(mode) /\ Copy

(* EXPAND_QUOTE_DOUBLE *)
ExpandDouble ==
  /\ mode = "QUOTE_DOUBLE"
  /\ \/ Unclosed
     \/ buf[it] = DOUBLE /\ Turn("LITERAL") /\ Skip
     \/ buf[it] = BACKSLASH /\ Turn("QUOTE_DOUBLE_ESCAPE") /\ Skip
     \/ buf[it] \notin {DOUBLE, BACKSLASH, NUL} /\ Turn(mode) /\ Copy

(* Wrong: what is escaped may also end the quotes.                           *)
WrongExpandEscape ==
  /\ mode = "QUOTE_DOUBLE_ESCAPE"
  /\ \/ Unclosed
     \/ buf[it] = DOUBLE /\ Turn("LITERAL") /\ Skip
     \/ buf[it] \notin {DOUBLE, NUL} /\ Turn("QUOTE_DOUBLE") /\ Copy

(* EXPAND_QUOTE_DOUBLE_ESCAPE *)
ExpandEscape ==
  /\ mode = "QUOTE_DOUBLE_ESCAPE"
  /\ \/ Unclosed
     \/ buf[it] # NUL /\ Turn("QUOTE_DOUBLE") /\ Copy

Expand == ExpandSpaces \/ ExpandLiteral \/ ExpandSingle \/ ExpandDouble \/ ExpandEscape

(* The expansion by itself, of one value after the other. *)
ArgumentsNext == (\E v \in Seq(Chars) : ExpandBegin(v)) \/ Expand
ArgumentsSpec == ArgumentsInit /\ [][ArgumentsNext]_argumentsVars

-----------------------------------------------------------------------------
(* Properties. *)

(* daemon_conf.c:228, "a local copy of value for in-place expansion": what   *)
(* is written never reaches what has still to be read, and src follows it.   *)
NeverOvertakes ==
  /\ \A i \in it..Len(buf) : buf[i] = Append(value, NUL)[i]
  /\ mode \notin {"SPACES", "END"} => arg <= dst /\ dst <= src /\ src <= Len(buf) + 1
  /\ mode \notin Ended \cup {"SPACES"} => src = it /\ it <= Len(buf)

(* In place as it is, the expansion gives the words which the value stands   *)
(* for, whatever quotes, backslashes and spaces it has.                      *)
Expands == Expanded!Spec

(* A list of words as it can be written, whatever is in them: each between   *)
(* double quotes, with a backslash before a quote or a backslash, and spaces *)
(* between them.                                                             *)
Escaped(c) == IF c \in {BACKSLASH, DOUBLE} THEN <<BACKSLASH, c>> ELSE <<c>>

(* The last n characters of the word w, and the quote behind them.           *)
LastQuoted(w) ==
  LET last[n \in 0..Len(w)] ==
        IF n = 0 THEN <<DOUBLE>> ELSE Escaped(w[Len(w) - n + 1]) \o last[n - 1]
  IN last
Quoted(w) == <<DOUBLE>> \o LastQuoted(w)[Len(w)]

(* The last n words, each with a space in front.                             *)
LastOfList(ws) ==
  LET last[n \in 0..Len(ws)] ==
        IF n = 0 THEN << >> ELSE <<SPACE>> \o Quoted(ws[Len(ws) - n + 1]) \o last[n - 1]
  IN last
QuotedList(ws) == Tail(LastOfList(ws)[Len(ws)])
=============================================================================
