-------------------------- MODULE ArgumentsProofs ---------------------------
(***************************************************************************)
(* Proofs about Arguments: the expansion in place never writes over what   *)
(* it has still to read, and so gives the words which Expansion defines.   *)
(***************************************************************************)
EXTENDS Arguments, SequenceTheorems, WellFoundedInduction, TLAPS

Running == mode \notin Ended
InWord == mode \notin {"SPACES", "END"}

(* What the buffer holds, and where the pointers are.                        *)
ExpandInv ==
  /\ value \in Seq(Chars)
  /\ buf \in Seq(Chars \cup {NUL}) /\ Len(buf) = Len(value) + 1
  /\ it \in Nat \ {0} /\ dst \in Nat \ {0} /\ src \in Nat \ {0} /\ arg \in Nat \ {0}
  /\ mode \in Expanded!Modes
  /\ arguments \in Seq(Seq(Chars \cup {NUL}))
  /\ Running => it <= Len(buf)
  /\ NeverOvertakes

(* The names of the characters differ. *)
LEMMA CharacterNames ==
  /\ SPACE # SINGLE /\ SPACE # DOUBLE /\ SPACE # BACKSLASH /\ SINGLE # DOUBLE
  /\ SINGLE # BACKSLASH /\ DOUBLE # BACKSLASH
  /\ NUL \notin {SPACE, SINGLE, DOUBLE, BACKSLASH}
  /\ Chars = Letters \cup {SPACE, BACKSLASH, SINGLE, DOUBLE}
BY LettersAssumption
   DEF SPACE, SINGLE, DOUBLE, BACKSLASH, Quotes, Chars,
       Expanded!SPACE, Expanded!SINGLE, Expanded!DOUBLE, Expanded!BACKSLASH,
       Expanded!Chars, Expanded!Quotes

(* Before the end there is no NUL: the last place ends every mode. *)
LEMMA LastPlace ==
  ASSUME ExpandInv, Running
  PROVE  /\ buf[it] = Append(value, NUL)[it]
         /\ buf[it] \in Chars \cup {NUL}
         /\ buf[it] # NUL => it + 1 <= Len(buf)
<1>1. it \in 1..Len(buf)
  BY DEF ExpandInv
<1>2. buf[it] = Append(value, NUL)[it]
  BY <1>1 DEF ExpandInv, NeverOvertakes
<1>3. Append(value, NUL)[Len(value) + 1] = NUL
  BY DEF ExpandInv
<1> QED
  BY <1>1, <1>2, <1>3 DEF ExpandInv

(* The word is a sequence of characters, with what is in the buffer. *)
LEMMA WordType ==
  ASSUME ExpandInv, InWord
  PROVE  /\ Word \in Seq(Chars \cup {NUL})
         /\ Len(Word) = dst - arg
         /\ \A i \in 1..(dst - arg) : Word[i] = buf[arg + i - 1]
<1>1. /\ arg \in Nat \ {0} /\ dst \in Nat \ {0} /\ arg <= dst /\ dst - 1 <= Len(buf)
      /\ buf \in Seq(Chars \cup {NUL})
  BY DEF ExpandInv, NeverOvertakes, InWord
<1>2. \A i \in arg..(dst - 1) : buf[i] \in Chars \cup {NUL}
  BY <1>1, ElementOfSeq
<1>3. /\ SubSeq(buf, arg, dst - 1) \in Seq(Chars \cup {NUL})
      /\ Len(SubSeq(buf, arg, dst - 1)) = IF arg <= dst - 1 THEN dst - 1 - arg + 1 ELSE 0
      /\ \A i \in 1..(dst - 1 - arg + 1) : SubSeq(buf, arg, dst - 1)[i] = buf[arg + i - 1]
  BY <1>1, <1>2, SubSeqProperties
<1> QED
  BY <1>1, <1>3 DEF Word

(* A character which is copied is added to the word. *)
LEMMA CopyAppends ==
  ASSUME ExpandInv, Running, InWord, Copy
  PROVE  /\ Word' = Append(Word, buf[it])
         /\ buf' \in Seq(Chars \cup {NUL}) /\ Len(buf') = Len(buf)
         /\ \A i \in (it + 1)..Len(buf) : buf'[i] = buf[i]
<1> DEFINE S == Chars \cup {NUL}
<1>1. /\ src = it /\ dst \in 1..Len(buf) /\ arg <= dst /\ it \in 1..Len(buf) /\ dst <= it
      /\ buf' = [buf EXCEPT ![dst] = buf[it]]
      /\ dst' = dst + 1 /\ arg' = arg /\ arg \in Nat \ {0} /\ dst \in Nat \ {0}
      /\ buf \in Seq(S)
  <2>1. src = it /\ it <= Len(buf) /\ arg <= dst /\ dst <= src
    BY DEF ExpandInv, NeverOvertakes, InWord, Running, Ended
  <2>2. /\ it \in Nat \ {0} /\ arg \in Nat \ {0} /\ dst \in Nat \ {0}
        /\ buf \in Seq(S) /\ Len(buf) \in Nat
    BY DEF ExpandInv
  <2>3. buf' = [buf EXCEPT ![dst] = buf[it]] /\ dst' = dst + 1 /\ arg' = arg
    BY <2>1 DEF Copy
  <2> QED
    BY <2>1, <2>2, <2>3
<1>2. Word \in Seq(S) /\ Len(Word) = dst - arg
      /\ \A i \in 1..(dst - arg) : Word[i] = buf[arg + i - 1]
  BY WordType
<1>3. buf[it] \in S
  BY <1>1, ElementOfSeq
<1>4. /\ buf' \in Seq(S) /\ Len(buf') = Len(buf)
      /\ \A j \in 1..Len(buf) : buf'[j] = IF j = dst THEN buf[it] ELSE buf[j]
  <2> HIDE DEF S
  <2> QED
    BY <1>1, <1>3, ExceptSeq
<1>5. /\ Append(Word, buf[it]) \in Seq(S)
      /\ Len(Append(Word, buf[it])) = dst + 1 - arg
      /\ \A i \in 1..(dst - arg) : Append(Word, buf[it])[i] = buf[arg + i - 1]
      /\ Append(Word, buf[it])[dst + 1 - arg] = buf[it]
  <2> HIDE DEF S
  <2>1. Len(Word) + 1 = dst + 1 - arg
    BY <1>1, <1>2
  <2> QED
    BY <1>2, <1>3, <2>1, AppendProperties
<1>6. /\ SubSeq(buf', arg, dst) \in Seq(S)
      /\ Len(SubSeq(buf', arg, dst)) = dst + 1 - arg
      /\ \A i \in 1..(dst + 1 - arg) : SubSeq(buf', arg, dst)[i] = buf'[arg + i - 1]
  <2>1. \A i \in arg..dst : buf'[i] \in S
    BY <1>1, <1>4, ElementOfSeq
  <2>2. dst - arg + 1 = dst + 1 - arg
    BY <1>1
  <2>3. /\ SubSeq(buf', arg, dst) \in Seq(S)
        /\ Len(SubSeq(buf', arg, dst)) = IF arg <= dst THEN dst - arg + 1 ELSE 0
        /\ \A i \in 1..(dst - arg + 1) : SubSeq(buf', arg, dst)[i] = buf'[arg + i - 1]
    BY <1>1, <2>1, SubSeqProperties
  <2> QED
    BY <1>1, <2>2, <2>3
<1>7. \A i \in 1..(dst + 1 - arg) : SubSeq(buf', arg, dst)[i] = Append(Word, buf[it])[i]
  <2> TAKE i \in 1..(dst + 1 - arg)
  <2>1. CASE i = dst + 1 - arg
    <3>1. arg + i - 1 = dst
      BY <1>1, <2>1
    <3> QED
      BY <1>1, <1>4, <1>5, <1>6, <2>1, <3>1
  <2>2. CASE i # dst + 1 - arg
    <3>1. Len(buf) \in Nat
      BY <1>1
    <3>2. i \in 1..(dst - arg) /\ arg + i - 1 \in 1..Len(buf) /\ arg + i - 1 # dst
      <4> HIDE DEF S
      <4> QED
        BY <1>1, <2>2, <3>1
    <3> QED
      BY <1>4, <1>5, <1>6, <3>2
  <2> QED
    BY <2>1, <2>2
<1>8. SubSeq(buf', arg, dst) = Append(Word, buf[it])
  <2> HIDE DEF S
  <2> QED
    BY <1>5, <1>6, <1>7, SeqEqual
<1>9. Word' = SubSeq(buf', arg, dst)
  <2>1. arg' = arg /\ dst' - 1 = dst
    BY <1>1
  <2> QED
    BY <2>1 DEF Word
<1> QED
  BY <1>1, <1>4, <1>8, <1>9

(* A word begins with its first character, or, where that is a quote, empty. *)
LEMMA BeginWordIsFirst ==
  ASSUME ExpandInv, Running, NEW n \in {0, 1}, BeginWord(n)
  PROVE  Word' = IF n = 0 THEN << >> ELSE <<buf[it]>>
<1>1. /\ it \in 1..Len(buf) /\ buf \in Seq(Chars \cup {NUL}) /\ it \in Nat
      /\ Word' = SubSeq(buf, it, it + n - 1)
  BY DEF ExpandInv, BeginWord, Word
<1>2. CASE n = 0
  <2>1. Word' = SubSeq(buf, it, it - 1)
    BY <1>1, <1>2
  <2>2. SubSeq(buf, it, it - 1) = << >>
    BY <1>1, SubSeqEmpty
  <2> QED
    BY <1>2, <2>1, <2>2
<1>3. CASE n = 1
  <2>1. Word' = SubSeq(buf, it, it)
    BY <1>1, <1>3
  <2>2. SubSeq(buf, it, it) = SubSeq(buf, it, it - 1) \o <<buf[it]>>
    BY <1>1, SubSeqRecursiveSecond
  <2>3. SubSeq(buf, it, it - 1) = << >>
    BY <1>1, SubSeqEmpty
  <2>4. << >> \o <<buf[it]>> = <<buf[it]>>
    BY <1>1
  <2>5. Word' = <<buf[it]>>
    BY <2>1, <2>2, <2>3, <2>4, Zenon
  <2> QED
    BY <1>3, <2>5
<1> QED
  BY <1>2, <1>3

(* The word is left alone where neither the buffer nor its bounds change. *)
LEMMA WordStays ==
  ASSUME UNCHANGED <<buf, arg, dst>>
  PROVE  Word' = Word
BY DEF Word

-----------------------------------------------------------------------------
(* The invariant. *)

LEMMA ExpandInvInit == ArgumentsInit => ExpandInv
<1> SUFFICES ASSUME ArgumentsInit PROVE ExpandInv
  OBVIOUS
<1>1. value = << >> /\ buf = <<NUL>> /\ mode = "END"
  BY DEF ArgumentsInit
<1>2. buf = Append(value, NUL) /\ Len(buf) = 1 /\ Len(value) = 0
  BY <1>1
<1>3. NeverOvertakes
  BY <1>1, <1>2 DEF ArgumentsInit, NeverOvertakes, Ended
<1> QED
  BY <1>1, <1>2, <1>3 DEF ArgumentsInit, ExpandInv, Running, Ended, Expanded!Modes

LEMMA ExpandInvBegin ==
  ASSUME ExpandInv, NEW v \in Seq(Chars), ExpandBegin(v)
  PROVE  ExpandInv'
<1>1. /\ value' = v /\ buf' = Append(v, NUL) /\ it' = 1 /\ mode' = "SPACES"
      /\ arguments' = << >> /\ dst' = dst /\ src' = src /\ arg' = arg
  BY DEF ExpandBegin
<1>2. buf' \in Seq(Chars \cup {NUL}) /\ Len(buf') = Len(v) + 1 /\ Len(v) \in Nat
  BY <1>1
<1>3. NeverOvertakes'
  BY <1>1 DEF NeverOvertakes, Ended
<1> QED
  BY <1>1, <1>2, <1>3 DEF ExpandInv, Running, Expanded!Modes

(* What every turn of the loop comes to, for the invariant: the buffer is    *)
(* only changed at dst, and in a word src goes along with it.                *)
LEMMA ExpandInvTurn ==
  ASSUME ExpandInv, Running, NEW m \in Expanded!Modes, Turn(m),
         m \notin Ended => buf[it] # NUL,
         arguments' \in Seq(Seq(Chars \cup {NUL})),
         buf' \in Seq(Chars \cup {NUL}), Len(buf') = Len(buf),
         \A i \in (it + 1)..Len(buf) : buf'[i] = buf[i],
         dst' \in Nat \ {0}, src' \in Nat \ {0}, arg' \in Nat \ {0},
         m \notin {"SPACES", "END"} =>
           arg' <= dst' /\ dst' <= src' /\ src' <= Len(buf) + 1,
         m \notin Ended \cup {"SPACES"} => src' = it + 1
  PROVE  ExpandInv'
<1>1. mode' = m /\ it' = it + 1 /\ value' = value
  BY DEF Turn
<1>2. it \in Nat \ {0} /\ Len(buf) \in Nat /\ value \in Seq(Chars) /\ Len(buf) = Len(value) + 1
  BY DEF ExpandInv
<1>3. m \notin Ended => it + 1 <= Len(buf)
  BY LastPlace
<1>4. \A i \in (it + 1)..Len(buf') : buf'[i] = Append(value, NUL)[i]
  <2>1. \A i \in it..Len(buf) : buf[i] = Append(value, NUL)[i]
    BY DEF ExpandInv, NeverOvertakes
  <2> DEFINE source == Append(value, NUL)
  <2> HIDE DEF source
  <2>2. \A i \in it..Len(buf) : buf[i] = source[i]
    BY <2>1 DEF source
  <2>3. \A i \in (it + 1)..Len(buf') : buf'[i] = source[i]
    BY <1>2, <2>2
  <2> QED
    BY <2>3 DEF source
<1>5. NeverOvertakes'
  BY <1>1, <1>3, <1>4 DEF NeverOvertakes
<1> QED
  BY <1>1, <1>2, <1>3, <1>5 DEF ExpandInv, Running

(* The effects which a turn has, and what they come to.                      *)
LEMMA Effects ==
  ASSUME ExpandInv, Running
  PROVE  /\ Between => UNCHANGED <<buf, dst, src, arg, arguments>>
         /\ InWord /\ AppendWord =>
              /\ arguments' = Append(arguments, Word)
              /\ arguments' \in Seq(Seq(Chars \cup {NUL}))
              /\ buf' \in Seq(Chars \cup {NUL}) /\ Len(buf') = Len(buf)
              /\ \A i \in (it + 1)..Len(buf) : buf'[i] = buf[i]
<1>1. ASSUME InWord, AppendWord
      PROVE  /\ arguments' = Append(arguments, Word)
             /\ arguments' \in Seq(Seq(Chars \cup {NUL}))
             /\ buf' \in Seq(Chars \cup {NUL}) /\ Len(buf') = Len(buf)
             /\ \A i \in (it + 1)..Len(buf) : buf'[i] = buf[i]
  <2> DEFINE S == Chars \cup {NUL}
  <2>1. /\ dst \in 1..Len(buf) /\ dst <= it /\ buf \in Seq(S) /\ it \in Nat
        /\ arguments \in Seq(Seq(S)) /\ Len(buf) \in Nat
    BY <1>1 DEF ExpandInv, NeverOvertakes, InWord, Running, Ended
  <2>2. buf' = [buf EXCEPT ![dst] = NUL] /\ arguments' = Append(arguments, Word)
    BY <1>1 DEF AppendWord
  <2>3. Word \in Seq(S) /\ NUL \in S
    BY <1>1, WordType
  <2> HIDE DEF S
  <2>4. arguments' \in Seq(Seq(S))
    BY <2>1, <2>2, <2>3, AppendProperties
  <2>5. /\ buf' \in Seq(S) /\ Len(buf') = Len(buf)
        /\ \A j \in 1..Len(buf) : buf'[j] = IF j = dst THEN NUL ELSE buf[j]
    BY <2>1, <2>2, <2>3, ExceptSeq
  <2>6. \A i \in (it + 1)..Len(buf) : buf'[i] = buf[i]
    BY <2>1, <2>5
  <2> QED
    BY <2>2, <2>4, <2>5, <2>6 DEF S
<1> QED
  BY <1>1 DEF Between

LEMMA ExpandInvStep ==
  ASSUME ExpandInv, Expand
  PROVE  ExpandInv'
<1>0. Running
  BY DEF Expand, ExpandSpaces, ExpandLiteral, ExpandSingle, ExpandDouble, ExpandEscape,
         Running, Ended
<1>1. /\ it \in Nat \ {0} /\ it <= Len(buf) /\ Len(buf) \in Nat
      /\ buf \in Seq(Chars \cup {NUL}) /\ arguments \in Seq(Seq(Chars \cup {NUL}))
      /\ dst \in Nat \ {0} /\ src \in Nat \ {0} /\ arg \in Nat \ {0}
  BY <1>0 DEF ExpandInv
<1>2. InWord => src = it /\ arg <= dst /\ dst <= src
  BY <1>0 DEF ExpandInv, NeverOvertakes, InWord, Running, Ended
<1>3. \A c : Expanded!Opened(c) \in {"QUOTE_SINGLE", "QUOTE_DOUBLE"}
  BY DEF Expanded!Opened
<1>4. ASSUME NEW m \in Expanded!Modes, Turn(m), Between, m \notin Ended => buf[it] # NUL,
             m = "ERROR_UNCLOSED_QUOTE" => InWord,
             m \in {"SPACES", "END", "ERROR_UNCLOSED_QUOTE"}
      PROVE  ExpandInv'
  <2>1. UNCHANGED <<buf, dst, src, arg, arguments>>
    BY <1>4 DEF Between
  <2> QED
    BY <1>0, <1>1, <1>2, <1>4, <2>1, ExpandInvTurn DEF Ended
<1>5. ASSUME NEW m \in {"LITERAL", "QUOTE_SINGLE", "QUOTE_DOUBLE"}, Turn(m),
             NEW n \in {0, 1}, BeginWord(n), buf[it] # NUL
      PROVE  ExpandInv'
  <2>1. /\ buf' = buf /\ arguments' = arguments
        /\ arg' = it /\ dst' = it + n /\ src' = it + 1
    BY <1>5 DEF BeginWord
  <2> QED
    BY <1>0, <1>1, <1>5, <2>1, ExpandInvTurn DEF Ended, Expanded!Modes
<1>6. ASSUME NEW m \in {"LITERAL", "QUOTE_SINGLE", "QUOTE_DOUBLE", "QUOTE_DOUBLE_ESCAPE"},
             Turn(m), InWord, Skip \/ Copy, buf[it] # NUL
      PROVE  ExpandInv'
  <2>1. arguments' = arguments /\ arg' = arg /\ src' = src + 1 /\ dst' \in {dst, dst + 1}
    BY <1>6 DEF Skip, Copy
  <2>2. CASE Skip
    <3>1. buf' = buf /\ dst' = dst
      BY <2>2 DEF Skip
    <3> QED
      BY <1>0, <1>1, <1>2, <1>6, <2>1, <3>1, ExpandInvTurn DEF Ended, Expanded!Modes
  <2>3. CASE Copy
    <3>1. /\ buf' \in Seq(Chars \cup {NUL}) /\ Len(buf') = Len(buf)
          /\ \A i \in (it + 1)..Len(buf) : buf'[i] = buf[i]
          /\ dst' = dst + 1
      BY <1>0, <1>6, <2>3, CopyAppends DEF Copy
    <3> QED
      BY <1>0, <1>1, <1>2, <1>6, <2>1, <3>1, ExpandInvTurn DEF Ended, Expanded!Modes
  <2> QED
    BY <1>6, <2>2, <2>3
<1>7. ASSUME NEW m \in {"SPACES", "END"}, Turn(m), InWord, AppendWord,
             m = "SPACES" => buf[it] # NUL
      PROVE  ExpandInv'
  <2>1. dst' = dst /\ src' = src /\ arg' = arg
    BY <1>7 DEF AppendWord
  <2>2. /\ arguments' \in Seq(Seq(Chars \cup {NUL}))
        /\ buf' \in Seq(Chars \cup {NUL}) /\ Len(buf') = Len(buf)
        /\ \A i \in (it + 1)..Len(buf) : buf'[i] = buf[i]
    BY <1>0, <1>7, Effects
  <2> QED
    BY <1>0, <1>1, <1>7, <2>1, <2>2, ExpandInvTurn DEF Ended, Expanded!Modes
<1>8. CASE ExpandSpaces
  <2>1. mode = "SPACES"
    BY <1>8 DEF ExpandSpaces
  <2> QED
    BY <1>3, <1>4, <1>5, <1>8, <2>1, CharacterNames
       DEF ExpandSpaces, Quotes, Ended, Expanded!Modes
<1>9. CASE ExpandLiteral
  <2>1. InWord
    BY <1>9 DEF ExpandLiteral, InWord
  <2> QED
    BY <1>3, <1>6, <1>7, <1>9, <2>1, CharacterNames DEF ExpandLiteral, Quotes
<1>10. CASE ExpandSingle \/ ExpandDouble \/ ExpandEscape
  <2>1. InWord /\ mode \in {"QUOTE_SINGLE", "QUOTE_DOUBLE"} \cup {"QUOTE_DOUBLE_ESCAPE"}
    BY <1>10 DEF ExpandSingle, ExpandDouble, ExpandEscape, InWord
  <2>2. CASE Unclosed
    BY <1>4, <2>1, <2>2 DEF Unclosed, Ended, Expanded!Modes
  <2> QED
    BY <1>6, <1>10, <2>1, <2>2, CharacterNames
       DEF ExpandSingle, ExpandDouble, ExpandEscape
<1> QED
  BY <1>8, <1>9, <1>10 DEF Expand

-----------------------------------------------------------------------------
(* The refinement. *)

(* The automaton of Expansion, by modes and characters. *)
LEMMA SameNames ==
  /\ Quotes = Expanded!Quotes /\ SPACE = Expanded!SPACE /\ BACKSLASH = Expanded!BACKSLASH
  /\ SINGLE = Expanded!SINGLE /\ DOUBLE = Expanded!DOUBLE
  /\ Expanded!Quotes = {SINGLE, DOUBLE}
BY DEF Quotes, Expanded!Quotes, SPACE, BACKSLASH, SINGLE, DOUBLE

LEMMA AfterUnquoted ==
  ASSUME NEW m \in {"SPACES", "LITERAL"}, NEW c \in Chars \cup {NUL}
  PROVE  /\ c = NUL => Expanded!After(m, c) = "END"
         /\ c = SPACE => Expanded!After(m, c) = "SPACES"
         /\ c \in Quotes => Expanded!After(m, c) = Expanded!Opened(c)
         /\ c \notin Quotes \cup {SPACE, NUL} =>
              Expanded!After(m, c) = "LITERAL" /\ c \in Letters \cup {BACKSLASH}
<1>1. m \notin Expanded!Quoting /\ m # "QUOTE_SINGLE" /\ m # "QUOTE_DOUBLE"
      /\ m # "QUOTE_DOUBLE_ESCAPE"
  BY DEF Expanded!Quoting
<1>3. CASE c = NUL
  BY <1>1, SameNames, <1>3, CharacterNames, LettersAssumption DEF Expanded!After
<1>4. CASE c = SPACE
  BY <1>1, SameNames, <1>4, CharacterNames, LettersAssumption DEF Expanded!After
<1>5. CASE c \in Quotes
  BY <1>1, SameNames, <1>5, CharacterNames, LettersAssumption DEF Expanded!After
<1>6. CASE c \notin Quotes \cup {SPACE, NUL}
  <2>1. c \in Letters \cup {BACKSLASH}
    BY SameNames, <1>6, CharacterNames
  <2> QED
    BY <1>1, SameNames, <1>6, <2>1, CharacterNames, LettersAssumption DEF Expanded!After
<1> QED
  BY <1>3, <1>4, <1>5, <1>6

LEMMA AfterQuoted ==
  ASSUME NEW c \in Chars \cup {NUL}
  PROVE  /\ c = NUL => \A m \in Expanded!Quoting :
                          Expanded!After(m, c) = "ERROR_UNCLOSED_QUOTE"
         /\ c = SINGLE => Expanded!After("QUOTE_SINGLE", c) = "LITERAL"
         /\ c \notin {SINGLE, NUL} => Expanded!After("QUOTE_SINGLE", c) = "QUOTE_SINGLE"
         /\ c = DOUBLE => Expanded!After("QUOTE_DOUBLE", c) = "LITERAL"
         /\ c = BACKSLASH => Expanded!After("QUOTE_DOUBLE", c) = "QUOTE_DOUBLE_ESCAPE"
         /\ c \notin {DOUBLE, BACKSLASH, NUL} =>
              Expanded!After("QUOTE_DOUBLE", c) = "QUOTE_DOUBLE"
         /\ c # NUL => Expanded!After("QUOTE_DOUBLE_ESCAPE", c) = "QUOTE_DOUBLE"
<1>1. CASE c = NUL
  BY <1>1, SameNames, CharacterNames DEF Expanded!After, Expanded!Quoting
<1>2. CASE c # NUL
  <2>1. c = SINGLE => Expanded!After("QUOTE_SINGLE", c) = "LITERAL"
    BY <1>2, SameNames, CharacterNames DEF Expanded!After, Expanded!Quoting
  <2>2. c # SINGLE => Expanded!After("QUOTE_SINGLE", c) = "QUOTE_SINGLE"
    BY <1>2, SameNames, CharacterNames DEF Expanded!After, Expanded!Quoting
  <2>3. c = DOUBLE => Expanded!After("QUOTE_DOUBLE", c) = "LITERAL"
    BY <1>2, SameNames, CharacterNames DEF Expanded!After, Expanded!Quoting
  <2>4. c = BACKSLASH => Expanded!After("QUOTE_DOUBLE", c) = "QUOTE_DOUBLE_ESCAPE"
    BY <1>2, SameNames, CharacterNames DEF Expanded!After, Expanded!Quoting
  <2>5. c \notin {DOUBLE, BACKSLASH} => Expanded!After("QUOTE_DOUBLE", c) = "QUOTE_DOUBLE"
    BY <1>2, SameNames, CharacterNames DEF Expanded!After, Expanded!Quoting
  <2>6. Expanded!After("QUOTE_DOUBLE_ESCAPE", c) = "QUOTE_DOUBLE"
    BY <1>2, SameNames, CharacterNames DEF Expanded!After, Expanded!Quoting
  <2> QED
    BY <1>2, <2>1, <2>2, <2>3, <2>4, <2>5, <2>6
<1> QED
  BY <1>1, <1>2

LEMMA KeptTable ==
  ASSUME NEW c \in Chars \cup {NUL}
  PROVE  /\ \A m \in {"SPACES", "LITERAL"} :
              Expanded!Kept(m, c) <=> c \notin Quotes \cup {SPACE, NUL}
         /\ Expanded!Kept("QUOTE_SINGLE", c) <=> c \notin {SINGLE, NUL}
         /\ Expanded!Kept("QUOTE_DOUBLE", c) <=> c \notin {DOUBLE, BACKSLASH, NUL}
         /\ Expanded!Kept("QUOTE_DOUBLE_ESCAPE", c) <=> c # NUL
<1>1. c \notin Quotes \cup {SPACE, NUL} <=> c \in Letters \cup {BACKSLASH}
  BY CharacterNames, LettersAssumption DEF Quotes
<1> QED
  BY <1>1, SameNames, CharacterNames DEF Expanded!Kept, Expanded!Quoting

(* What each turn does with the character c at it, where c belongs to the    *)
(* word, ends it, or does neither.                                           *)
LEMMA TurnRefines ==
  ASSUME ExpandInv, Running, Turn(Expanded!After(mode, buf[it])),
         arguments' = IF Expanded!Ends(mode, buf[it]) THEN Append(arguments, Partial)
                                                      ELSE arguments,
         Partial' = IF Expanded!Ends(mode, buf[it]) THEN << >>
                    ELSE IF Expanded!Kept(mode, buf[it]) THEN Append(Partial, buf[it])
                         ELSE Partial
  PROVE  Expanded!Step
<1>1. buf[it] = Append(value, NUL)[it]
  BY LastPlace
<1> QED
  BY <1>1 DEF Running, Ended, Turn, Expanded!Step, Expanded!Ended, Expanded!Further,
              Expanded!Known

(* The turns in a word, by their effects. *)
LEMMA WordTurnRefines ==
  ASSUME ExpandInv, Running, InWord, NEW m, Turn(m),
         m = Expanded!After(mode, buf[it])
  PROVE  /\ m \notin {"SPACES", "END"} /\ (Skip \/ Between)
              /\ ~Expanded!Ends(mode, buf[it]) /\ ~Expanded!Kept(mode, buf[it])
            => Expanded!Step
         /\ m \notin {"SPACES", "END"} /\ Copy
              /\ ~Expanded!Ends(mode, buf[it]) /\ Expanded!Kept(mode, buf[it])
            => Expanded!Step
         /\ m \in {"SPACES", "END"} /\ AppendWord /\ Expanded!Ends(mode, buf[it])
            => Expanded!Step
<1>1. Partial = Word /\ mode' = m
  BY DEF Partial, InWord, Turn
<1>2. Skip \/ Between => Word' = Word /\ arguments' = arguments
  BY WordStays DEF Skip, Between
<1>3. Copy => Word' = Append(Word, buf[it]) /\ arguments' = arguments
  BY CopyAppends DEF Copy
<1>4. AppendWord => arguments' = Append(arguments, Word)
  BY Effects
<1>5. m \notin {"SPACES", "END"} => Partial' = Word'
  BY <1>1 DEF Partial
<1>6. m \in {"SPACES", "END"} => Partial' = << >>
  BY <1>1 DEF Partial
<1> QED
  BY <1>1, <1>2, <1>3, <1>4, <1>5, <1>6, TurnRefines

LEMMA ExpandRefines ==
  ASSUME ExpandInv, Expand
  PROVE  Expanded!Step
<1>0. Running
  BY DEF Expand, ExpandSpaces, ExpandLiteral, ExpandSingle, ExpandDouble, ExpandEscape,
         Running, Ended
<1>1. buf[it] \in Chars \cup {NUL}
  BY <1>0, LastPlace
<1>2. CASE ExpandSpaces
  <2>1. mode = "SPACES" /\ Partial = << >> /\ ~Expanded!Ends(mode, buf[it])
    BY <1>2 DEF ExpandSpaces, Partial, Expanded!Ends
  <2>2. CASE buf[it] \in {NUL, SPACE} /\ Between
             /\ Turn(IF buf[it] = NUL THEN "END" ELSE "SPACES")
    <3>1. ~Expanded!Kept(mode, buf[it])
      BY <1>1, <2>1, <2>2, KeptTable
    <3>2. Expanded!After(mode, buf[it]) = IF buf[it] = NUL THEN "END" ELSE "SPACES"
      BY <1>1, <2>1, <2>2, AfterUnquoted
    <3> QED
      BY <1>0, <2>1, <2>2, <3>1, <3>2, TurnRefines DEF Turn, Between, Partial
  <2>3. CASE buf[it] \in Quotes /\ Turn(Expanded!Opened(buf[it])) /\ BeginWord(0)
    <3>1. ~Expanded!Kept(mode, buf[it])
      BY <1>1, <2>1, <2>3, KeptTable
    <3>2. Expanded!After(mode, buf[it]) = Expanded!Opened(buf[it])
      BY <1>1, <2>1, <2>3, AfterUnquoted
    <3>3. Word' = << >> /\ arguments' = arguments
      BY <1>0, <2>3, BeginWordIsFirst DEF BeginWord
    <3>4. Partial' = << >>
      BY <2>3, <3>3 DEF Partial, Turn, Expanded!Opened
    <3> QED
      BY <1>0, <2>1, <2>3, <3>1, <3>2, <3>3, <3>4, TurnRefines
  <2>4. CASE buf[it] \notin Quotes \cup {SPACE, NUL} /\ Turn("LITERAL") /\ BeginWord(1)
    <3>1. Expanded!Kept(mode, buf[it])
      BY <1>1, <2>1, <2>4, KeptTable
    <3>2. Expanded!After(mode, buf[it]) = "LITERAL"
      BY <1>1, <2>1, <2>4, AfterUnquoted
    <3>3. Word' = <<buf[it]>> /\ arguments' = arguments
      BY <1>0, <2>4, BeginWordIsFirst DEF BeginWord
    <3>4. Partial' = Append(Partial, buf[it])
      BY <2>1, <2>4, <3>3 DEF Partial, Turn
    <3> QED
      BY <1>0, <2>1, <2>4, <3>1, <3>2, <3>3, <3>4, TurnRefines
  <2> QED
    BY <1>2, <2>2, <2>3, <2>4, CharacterNames DEF ExpandSpaces
<1>3. CASE ExpandLiteral
  <2>1. mode = "LITERAL" /\ InWord
    BY <1>3 DEF ExpandLiteral, InWord
  <2>2. Expanded!Ends(mode, buf[it]) <=> buf[it] \in {SPACE, NUL}
    BY <2>1, SameNames DEF Expanded!Ends
  <2>3. CASE buf[it] \in {SPACE, NUL} /\ AppendWord
             /\ Turn(IF buf[it] = NUL THEN "END" ELSE "SPACES")
    <3>1. Expanded!After(mode, buf[it]) = IF buf[it] = NUL THEN "END" ELSE "SPACES"
      BY <1>1, <2>1, <2>3, AfterUnquoted
    <3> QED
      BY <1>0, <2>1, <2>2, <2>3, <3>1, WordTurnRefines
  <2>4. CASE buf[it] \in Quotes /\ Turn(Expanded!Opened(buf[it])) /\ Skip
    <3>1. Expanded!After(mode, buf[it]) = Expanded!Opened(buf[it])
      BY <1>1, <2>1, <2>4, AfterUnquoted
    <3>2. ~Expanded!Kept(mode, buf[it]) /\ ~Expanded!Ends(mode, buf[it])
      BY <1>1, <2>1, <2>2, <2>4, KeptTable, CharacterNames DEF Quotes
    <3>3. Expanded!Opened(buf[it]) \notin {"SPACES", "END"}
      BY DEF Expanded!Opened
    <3> QED
      BY <1>0, <2>1, <2>4, <3>1, <3>2, <3>3, WordTurnRefines
  <2>5. CASE buf[it] \notin Quotes \cup {SPACE, NUL} /\ Turn("LITERAL") /\ Copy
    <3>1. Expanded!After(mode, buf[it]) = "LITERAL"
      BY <1>1, <2>1, <2>5, AfterUnquoted
    <3>2. Expanded!Kept(mode, buf[it]) /\ ~Expanded!Ends(mode, buf[it])
      BY <1>1, <2>1, <2>2, <2>5, KeptTable
    <3> QED
      BY <1>0, <2>1, <2>5, <3>1, <3>2, WordTurnRefines
  <2> QED
    BY <1>3, <2>3, <2>4, <2>5, CharacterNames DEF ExpandLiteral
<1>4. ASSUME mode \in Expanded!Quoting
      PROVE  InWord /\ ~Expanded!Ends(mode, buf[it])
  BY <1>4 DEF InWord, Expanded!Ends, Expanded!Quoting
<1>5. CASE Unclosed /\ mode \in Expanded!Quoting
  <2>1. Expanded!After(mode, buf[it]) = "ERROR_UNCLOSED_QUOTE"
    BY <1>1, <1>5, AfterQuoted DEF Unclosed
  <2>2. ~Expanded!Kept(mode, buf[it])
    BY <1>1, <1>5, KeptTable DEF Unclosed, Expanded!Quoting
  <2> QED
    BY <1>0, <1>4, <1>5, <2>1, <2>2, WordTurnRefines DEF Unclosed
<1>6. CASE ExpandSingle
  <2>1. mode = "QUOTE_SINGLE" /\ mode \in Expanded!Quoting
    BY <1>6 DEF ExpandSingle, Expanded!Quoting
  <2>2. CASE buf[it] = SINGLE /\ Turn("LITERAL") /\ Skip
    BY <1>0, <1>1, <1>4, <2>1, <2>2, KeptTable, AfterQuoted, CharacterNames, WordTurnRefines
  <2>3. CASE buf[it] \notin {SINGLE, NUL} /\ Turn(mode) /\ Copy
    BY <1>0, <1>1, <1>4, <2>1, <2>3, KeptTable, AfterQuoted, WordTurnRefines
  <2> QED
    BY <1>5, <1>6, <2>1, <2>2, <2>3 DEF ExpandSingle
<1>7. CASE ExpandDouble
  <2>1. mode = "QUOTE_DOUBLE" /\ mode \in Expanded!Quoting
    BY <1>7 DEF ExpandDouble, Expanded!Quoting
  <2>2. CASE buf[it] = DOUBLE /\ Turn("LITERAL") /\ Skip
    BY <1>0, <1>1, <1>4, <2>1, <2>2, KeptTable, AfterQuoted, CharacterNames, WordTurnRefines
  <2>3. CASE buf[it] = BACKSLASH /\ Turn("QUOTE_DOUBLE_ESCAPE") /\ Skip
    BY <1>0, <1>1, <1>4, <2>1, <2>3, KeptTable, AfterQuoted, CharacterNames, WordTurnRefines
  <2>4. CASE buf[it] \notin {DOUBLE, BACKSLASH, NUL} /\ Turn(mode) /\ Copy
    BY <1>0, <1>1, <1>4, <2>1, <2>4, KeptTable, AfterQuoted, WordTurnRefines
  <2> QED
    BY <1>5, <1>7, <2>1, <2>2, <2>3, <2>4 DEF ExpandDouble
<1>8. CASE ExpandEscape
  <2>1. mode = "QUOTE_DOUBLE_ESCAPE" /\ mode \in Expanded!Quoting
    BY <1>8 DEF ExpandEscape, Expanded!Quoting
  <2>2. CASE buf[it] # NUL /\ Turn("QUOTE_DOUBLE") /\ Copy
    BY <1>0, <1>1, <1>4, <2>1, <2>2, KeptTable, AfterQuoted, WordTurnRefines
  <2> QED
    BY <1>5, <1>8, <2>1, <2>2 DEF ExpandEscape
<1> QED
  BY <1>2, <1>3, <1>6, <1>7, <1>8 DEF Expand

-----------------------------------------------------------------------------

LEMMA ExpandInvNext == ExpandInv /\ [ArgumentsNext]_argumentsVars => ExpandInv'
<1> SUFFICES ASSUME ExpandInv, [ArgumentsNext]_argumentsVars PROVE ExpandInv'
  OBVIOUS
<1>1. CASE \E v \in Seq(Chars) : ExpandBegin(v)
  BY <1>1, ExpandInvBegin
<1>2. CASE Expand
  BY <1>2, ExpandInvStep
<1>3. CASE UNCHANGED argumentsVars
  BY <1>3 DEF argumentsVars, ExpandInv, Running, NeverOvertakes
<1> QED
  BY <1>1, <1>2, <1>3 DEF ArgumentsNext

(* Whatever a value is made of, the expansion writes only what it has read.  *)
THEOREM ExpansionNeverOvertakes == ArgumentsSpec => []NeverOvertakes
<1>1. ArgumentsInit => ExpandInv
  BY ExpandInvInit
<1>2. ExpandInv /\ [ArgumentsNext]_argumentsVars => ExpandInv'
  BY ExpandInvNext
<1>3. ExpandInv => NeverOvertakes
  BY DEF ExpandInv
<1> QED
  BY <1>1, <1>2, <1>3, PTL DEF ArgumentsSpec

(* The expansion in place implements the abstract one: it gives the words    *)
(* which the value stands for.                                               *)
THEOREM ExpansionInPlace == ArgumentsSpec => Expands
<1>1. ArgumentsInit => Expanded!Init
  BY DEF ArgumentsInit, Expanded!Init, Partial
<1>2. ExpandInv /\ [ArgumentsNext]_argumentsVars =>
        [Expanded!Begin \/ Expanded!Step]_Expanded!vars
  <2> SUFFICES ASSUME ExpandInv, [ArgumentsNext]_argumentsVars
               PROVE  [Expanded!Begin \/ Expanded!Step]_Expanded!vars
    OBVIOUS
  <2>1. ASSUME NEW v \in Seq(Chars), ExpandBegin(v) PROVE Expanded!Begin
    BY <2>1 DEF ExpandBegin, Expanded!Begin, Ended, Expanded!Ended, Partial, Chars
  <2>2. CASE Expand
    BY <2>2, ExpandRefines
  <2>3. CASE UNCHANGED argumentsVars
    BY <2>3 DEF argumentsVars, Expanded!vars, Partial, Word
  <2> QED
    BY <2>1, <2>2, <2>3 DEF ArgumentsNext
<1>3. ArgumentsInit => ExpandInv
  BY ExpandInvInit
<1>4. ExpandInv /\ [ArgumentsNext]_argumentsVars => ExpandInv'
  BY ExpandInvNext
<1> QED
  BY <1>1, <1>2, <1>3, <1>4, PTL DEF ArgumentsSpec, Expands, Expanded!Spec

-----------------------------------------------------------------------------
(* The recursive functions: each of them exists, and is what its equation    *)
(* says.                                                                     *)

(* A set which has no least number missing has them all.                     *)
LEMMA OneByOne ==
  ASSUME NEW S, 0 \in S, \A n \in Nat : n \in S => n + 1 \in S
  PROVE  Nat \subseteq S
<1> DEFINE R == OpToRel(<, Nat)
           M == Nat \ S
<1>1. \A x, y \in Nat : y < x => <<y, x>> \in R
  BY DEF OpToRel
<1>2. IsWellFoundedOn(R, Nat)
  BY NatLessThanWellFounded
<1> SUFFICES ASSUME M # {} PROVE FALSE
  OBVIOUS
<1>3. M \subseteq Nat
  OBVIOUS
<1> HIDE DEF R
<1>4. PICK x \in M : \A y \in M : ~(<<y, x>> \in R)
  <2> HIDE DEF M
  <2> QED
    BY <1>2, <1>3, WFMin
<1>5. x \in Nat \ {0} /\ x - 1 \in Nat /\ x - 1 < x /\ (x - 1) + 1 = x
  OBVIOUS
<1>6. x - 1 \notin M
  BY <1>1, <1>4, <1>5
<1> QED
  BY <1>5, <1>6

(* What is known of v, as far as n.                                          *)
Reads(v, n, f) ==
  f = [m \in 0..n |-> IF m = 0 THEN Expanded!Known("SPACES", << >>, << >>)
                      ELSE Expanded!Further(f[m - 1], Append(v, NUL)[m])]

LEMMA ReadingIs ==
  ASSUME NEW v, Len(v) \in Nat
  PROVE  /\ Expanded!Reading(v)[0] = Expanded!Known("SPACES", << >>, << >>)
         /\ \A n \in 1..Len(v) + 1 :
              Expanded!Reading(v)[n] =
                Expanded!Further(Expanded!Reading(v)[n - 1], Append(v, NUL)[n])
<1> DEFINE S == {n \in Nat : \E f : Reads(v, n, f)}
           b == Expanded!Known("SPACES", << >>, << >>)
           F(k, m) == Expanded!Further(k, Append(v, NUL)[m])
<1>1. 0 \in S
  <2> DEFINE f == [m \in 0..0 |-> b]
  <2>1. f = [m \in 0..0 |-> IF m = 0 THEN b ELSE F(f[m - 1], m)]
    OBVIOUS
  <2> HIDE DEF f
  <2>2. Reads(v, 0, f)
    BY <2>1 DEF Reads
  <2> QED
    BY <2>2
<1>2. ASSUME NEW n \in Nat, n \in S PROVE n + 1 \in S
  <2>1. PICK f : Reads(v, n, f)
    BY <1>2
  <2> DEFINE g == [m \in 0..n + 1 |-> IF m \in 0..n THEN f[m] ELSE F(f[n], m)]
             h == [m \in 0..n + 1 |-> IF m = 0 THEN b ELSE F(g[m - 1], m)]
  <2>2. ASSUME NEW d \in 0..n + 1 PROVE g[d] = h[d]
    <3>1. CASE d = 0
      <4>1. f[0] = b
        BY <2>1 DEF Reads
      <4> QED
        BY <3>1, <4>1
    <3>2. CASE d \in 1..n
      <4>1. d - 1 \in 0..n /\ d \in 0..n /\ d # 0 /\ d - 1 \in 0..n + 1
        BY <3>2
      <4>2. g[d - 1] = f[d - 1] /\ g[d] = f[d]
        BY <4>1
      <4>3. f[d] = F(f[d - 1], d)
        BY <2>1, <4>1 DEF Reads
      <4> HIDE DEF g, F
      <4> QED
        BY <4>1, <4>2, <4>3
    <3>3. CASE d = n + 1
      <4>1. d # 0 /\ d \notin 0..n /\ d - 1 = n /\ n \in 0..n + 1 /\ n \in 0..n
        BY <3>3
      <4>2. g[n] = f[n] /\ g[d] = F(f[n], d)
        BY <4>1
      <4> HIDE DEF g, F
      <4> QED
        BY <4>1, <4>2
    <3>4. d = 0 \/ d \in 1..n \/ d = n + 1
      OBVIOUS
    <3> QED
      BY <3>1, <3>2, <3>3, <3>4
  <2>3. g = h
    BY <2>2
  <2> HIDE DEF g
  <2>4. Reads(v, n + 1, g)
    BY <2>3 DEF Reads
  <2> QED
    BY <2>4
<1> HIDE DEF S
<1>3. Len(v) + 1 \in S
  BY <1>1, <1>2, OneByOne
<1>4. \E f : Reads(v, Len(v) + 1, f)
  BY <1>3 DEF S
<1> DEFINE f == CHOOSE f : Reads(v, Len(v) + 1, f)
<1>5. Reads(v, Len(v) + 1, f)
  BY <1>4
<1>6. Expanded!Reading(v) = f
  BY DEF Expanded!Reading, Reads
<1> HIDE DEF f
<1>7. f[0] = b /\ \A n \in 1..Len(v) + 1 : f[n] = F(f[n - 1], n)
  <2>1. f = [m \in 0..Len(v) + 1 |-> IF m = 0 THEN b ELSE F(f[m - 1], m)]
    BY <1>5 DEF Reads
  <2> HIDE DEF F, b
  <2>2. f[0] = b
    BY <2>1
  <2>3. ASSUME NEW n \in 1..Len(v) + 1 PROVE f[n] = F(f[n - 1], n)
    <3>1. n \in 0..Len(v) + 1 /\ n # 0
      OBVIOUS
    <3> QED
      BY <2>1, <3>1
  <2> QED
    BY <2>2, <2>3
<1> QED
  BY <1>6, <1>7
(* The end of a quoted word, as far as its last n characters.                 *)
LastQuotedAs(w, n, f) ==
  f = [m \in 0..n |-> IF m = 0 THEN <<DOUBLE>> ELSE Escaped(w[Len(w) - m + 1]) \o f[m - 1]]

LEMMA LastQuotedAsIs ==
  ASSUME NEW w, Len(w) \in Nat
  PROVE  /\ LastQuoted(w)[0] = <<DOUBLE>>
         /\ \A n \in 1..Len(w) :
              LastQuoted(w)[n] = Escaped(w[Len(w) - n + 1]) \o LastQuoted(w)[n - 1]
<1> DEFINE S == {n \in Nat : \E f : LastQuotedAs(w, n, f)}
           G(t, m) == Escaped(w[Len(w) - m + 1]) \o t
<1>1. 0 \in S
  <2> DEFINE f == [m \in 0..0 |-> <<DOUBLE>>]
  <2>1. f = [m \in 0..0 |-> IF m = 0 THEN <<DOUBLE>> ELSE G(f[m - 1], m)]
    OBVIOUS
  <2> HIDE DEF f
  <2>2. LastQuotedAs(w, 0, f)
    BY <2>1 DEF LastQuotedAs
  <2> QED
    BY <2>2
<1>2. ASSUME NEW n \in Nat, n \in S PROVE n + 1 \in S
  <2>1. PICK f : LastQuotedAs(w, n, f)
    BY <1>2
  <2> DEFINE g == [m \in 0..n + 1 |-> IF m \in 0..n THEN f[m] ELSE G(f[n], m)]
             h == [m \in 0..n + 1 |-> IF m = 0 THEN <<DOUBLE>> ELSE G(g[m - 1], m)]
  <2>2. ASSUME NEW d \in 0..n + 1 PROVE g[d] = h[d]
    <3>1. CASE d = 0
      <4>1. f[0] = <<DOUBLE>>
        BY <2>1 DEF LastQuotedAs
      <4> QED
        BY <3>1, <4>1
    <3>2. CASE d \in 1..n
      <4>1. d - 1 \in 0..n /\ d \in 0..n /\ d # 0 /\ d - 1 \in 0..n + 1
        BY <3>2
      <4>2. g[d - 1] = f[d - 1] /\ g[d] = f[d]
        BY <4>1
      <4>3. f[d] = G(f[d - 1], d)
        BY <2>1, <4>1 DEF LastQuotedAs
      <4> HIDE DEF g, G
      <4> QED
        BY <4>1, <4>2, <4>3
    <3>3. CASE d = n + 1
      <4>1. d # 0 /\ d \notin 0..n /\ d - 1 = n /\ n \in 0..n + 1 /\ n \in 0..n
        BY <3>3
      <4>2. g[n] = f[n] /\ g[d] = G(f[n], d)
        BY <4>1
      <4> HIDE DEF g, G
      <4> QED
        BY <4>1, <4>2
    <3>4. d = 0 \/ d \in 1..n \/ d = n + 1
      OBVIOUS
    <3> QED
      BY <3>1, <3>2, <3>3, <3>4
  <2>3. g = h
    BY <2>2
  <2> HIDE DEF g
  <2>4. LastQuotedAs(w, n + 1, g)
    BY <2>3 DEF LastQuotedAs
  <2> QED
    BY <2>4
<1> HIDE DEF S
<1>3. Len(w) \in S
  BY <1>1, <1>2, OneByOne
<1>4. \E f : LastQuotedAs(w, Len(w), f)
  BY <1>3 DEF S
<1> DEFINE f == CHOOSE f : LastQuotedAs(w, Len(w), f)
<1>5. LastQuotedAs(w, Len(w), f)
  BY <1>4
<1>6. LastQuoted(w) = f
  BY DEF LastQuoted, LastQuotedAs
<1> HIDE DEF f
<1>7. f[0] = <<DOUBLE>>
  BY <1>5 DEF LastQuotedAs
<1>8. ASSUME NEW n \in 1..Len(w) PROVE f[n] = G(f[n - 1], n)
  <2>1. n \in 0..Len(w) /\ n # 0
    OBVIOUS
  <2> HIDE DEF G
  <2>2. f = [m \in 0..Len(w) |-> IF m = 0 THEN <<DOUBLE>> ELSE G(f[m - 1], m)]
    BY <1>5 DEF LastQuotedAs, G
  <2> QED
    BY <2>1, <2>2
<1> QED
  BY <1>6, <1>7, <1>8

(* The end of a list, as far as its last n words.                             *)
LastOfListAs(ws, n, f) ==
  f = [m \in 0..n |-> IF m = 0 THEN << >> ELSE <<SPACE>> \o Quoted(ws[Len(ws) - m + 1]) \o f[m - 1]]

LEMMA LastOfListAsIs ==
  ASSUME NEW ws, Len(ws) \in Nat
  PROVE  /\ LastOfList(ws)[0] = << >>
         /\ \A n \in 1..Len(ws) :
              LastOfList(ws)[n] = <<SPACE>> \o Quoted(ws[Len(ws) - n + 1]) \o LastOfList(ws)[n - 1]
<1> DEFINE S == {n \in Nat : \E f : LastOfListAs(ws, n, f)}
           G(t, m) == <<SPACE>> \o Quoted(ws[Len(ws) - m + 1]) \o t
<1>1. 0 \in S
  <2> DEFINE f == [m \in 0..0 |-> << >>]
  <2>1. f = [m \in 0..0 |-> IF m = 0 THEN << >> ELSE G(f[m - 1], m)]
    OBVIOUS
  <2> HIDE DEF f
  <2>2. LastOfListAs(ws, 0, f)
    BY <2>1 DEF LastOfListAs
  <2> QED
    BY <2>2
<1>2. ASSUME NEW n \in Nat, n \in S PROVE n + 1 \in S
  <2>1. PICK f : LastOfListAs(ws, n, f)
    BY <1>2
  <2> DEFINE g == [m \in 0..n + 1 |-> IF m \in 0..n THEN f[m] ELSE G(f[n], m)]
             h == [m \in 0..n + 1 |-> IF m = 0 THEN << >> ELSE G(g[m - 1], m)]
  <2>2. ASSUME NEW d \in 0..n + 1 PROVE g[d] = h[d]
    <3>1. CASE d = 0
      <4>1. f[0] = << >>
        BY <2>1 DEF LastOfListAs
      <4> QED
        BY <3>1, <4>1
    <3>2. CASE d \in 1..n
      <4>1. d - 1 \in 0..n /\ d \in 0..n /\ d # 0 /\ d - 1 \in 0..n + 1
        BY <3>2
      <4>2. g[d - 1] = f[d - 1] /\ g[d] = f[d]
        BY <4>1
      <4>3. f[d] = G(f[d - 1], d)
        BY <2>1, <4>1 DEF LastOfListAs
      <4> HIDE DEF g, G
      <4> QED
        BY <4>1, <4>2, <4>3
    <3>3. CASE d = n + 1
      <4>1. d # 0 /\ d \notin 0..n /\ d - 1 = n /\ n \in 0..n + 1 /\ n \in 0..n
        BY <3>3
      <4>2. g[n] = f[n] /\ g[d] = G(f[n], d)
        BY <4>1
      <4> HIDE DEF g, G
      <4> QED
        BY <4>1, <4>2
    <3>4. d = 0 \/ d \in 1..n \/ d = n + 1
      OBVIOUS
    <3> QED
      BY <3>1, <3>2, <3>3, <3>4
  <2>3. g = h
    BY <2>2
  <2> HIDE DEF g
  <2>4. LastOfListAs(ws, n + 1, g)
    BY <2>3 DEF LastOfListAs
  <2> QED
    BY <2>4
<1> HIDE DEF S
<1>3. Len(ws) \in S
  BY <1>1, <1>2, OneByOne
<1>4. \E f : LastOfListAs(ws, Len(ws), f)
  BY <1>3 DEF S
<1> DEFINE f == CHOOSE f : LastOfListAs(ws, Len(ws), f)
<1>5. LastOfListAs(ws, Len(ws), f)
  BY <1>4
<1>6. LastOfList(ws) = f
  BY DEF LastOfList, LastOfListAs
<1> HIDE DEF f
<1>7. f[0] = << >>
  BY <1>5 DEF LastOfListAs
<1>8. ASSUME NEW n \in 1..Len(ws) PROVE f[n] = G(f[n - 1], n)
  <2>1. n \in 0..Len(ws) /\ n # 0
    OBVIOUS
  <2> HIDE DEF G
  <2>2. f = [m \in 0..Len(ws) |-> IF m = 0 THEN << >> ELSE G(f[m - 1], m)]
    BY <1>5 DEF LastOfListAs, G
  <2> QED
    BY <2>1, <2>2
<1> QED
  BY <1>6, <1>7, <1>8

-----------------------------------------------------------------------------
(* A list of words which was quoted is read as it was. *)

(* What is left of a quoted word behind its first j characters, and of a     *)
(* list behind its first k words.                                            *)
LeftOfWord(w, j) == LastQuoted(w)[Len(w) - j]
LeftOfList(ws, k) == LastOfList(ws)[Len(ws) - k]

LEMMA EscapedType ==
  ASSUME NEW c \in Chars PROVE Escaped(c) \in Seq(Chars)
<1>1. BACKSLASH \in Chars
  BY CharacterNames
<1>2. <<c>> \in Seq(Chars) /\ <<BACKSLASH, c>> \in Seq(Chars)
  BY ONLY <1>1, c \in Chars
<1> QED
  BY <1>2 DEF Escaped

LEMMA WordLeft ==
  ASSUME NEW w \in Seq(Chars)
  PROVE  /\ \A j \in 0..Len(w) : LeftOfWord(w, j) \in Seq(Chars)
         /\ LeftOfWord(w, Len(w)) = <<DOUBLE>>
         /\ \A j \in 0..Len(w) - 1 :
              LeftOfWord(w, j) = Escaped(w[j + 1]) \o LeftOfWord(w, j + 1)
         /\ Quoted(w) = <<DOUBLE>> \o LeftOfWord(w, 0) /\ Quoted(w) \in Seq(Chars)
<1>1. Len(w) \in Nat /\ DOUBLE \in Chars
  BY CharacterNames
<1>2. /\ LastQuoted(w)[0] = <<DOUBLE>>
      /\ \A n \in 1..Len(w) :
           LastQuoted(w)[n] = Escaped(w[Len(w) - n + 1]) \o LastQuoted(w)[n - 1]
  BY <1>1, LastQuotedAsIs
<1> DEFINE S == {n \in Nat : n <= Len(w) => LastQuoted(w)[n] \in Seq(Chars)}
<1>3. 0 \in S
  <2>1. <<DOUBLE>> \in Seq(Chars)
    BY <1>1
  <2> QED
    BY <1>2, <2>1
<1>4. ASSUME NEW n \in Nat, n \in S PROVE n + 1 \in S
  <2>1. CASE n + 1 <= Len(w)
    <3>1. n + 1 \in 1..Len(w) /\ (n + 1) - 1 = n /\ n <= Len(w)
      BY <1>1, <2>1
    <3>2. Len(w) - (n + 1) + 1 \in 1..Len(w)
      BY <1>1, <3>1
    <3>3. w[Len(w) - (n + 1) + 1] \in Chars
      BY <3>2, ElementOfSeq
    <3>4. Escaped(w[Len(w) - (n + 1) + 1]) \in Seq(Chars)
      BY <3>3, EscapedType
    <3>5. LastQuoted(w)[n] \in Seq(Chars)
      BY <1>4, <3>1
    <3>6. LastQuoted(w)[n + 1] = Escaped(w[Len(w) - (n + 1) + 1]) \o LastQuoted(w)[n]
      BY <1>2, <3>1
    <3>7. LastQuoted(w)[n + 1] \in Seq(Chars)
      BY <3>4, <3>5, <3>6, ConcatProperties
    <3> QED
      BY <3>7
  <2>2. CASE ~(n + 1 <= Len(w))
    BY <2>2
  <2> QED
    BY <2>1, <2>2
<1>5. Nat \subseteq S
  <2> HIDE DEF S
  <2> QED
    BY <1>3, <1>4, OneByOne
<1>6. ASSUME NEW j \in 0..Len(w) PROVE LeftOfWord(w, j) \in Seq(Chars)
  <2>1. Len(w) - j \in Nat /\ Len(w) - j <= Len(w)
    BY <1>1
  <2> QED
    BY <1>5, <2>1 DEF LeftOfWord
<1>7. LeftOfWord(w, Len(w)) = <<DOUBLE>>
  <2>1. Len(w) - Len(w) = 0
    BY <1>1
  <2> QED
    BY <1>2, <2>1 DEF LeftOfWord
<1>8. ASSUME NEW j \in 0..Len(w) - 1
      PROVE  LeftOfWord(w, j) = Escaped(w[j + 1]) \o LeftOfWord(w, j + 1)
  <2>1. /\ Len(w) - j \in 1..Len(w) /\ (Len(w) - j) - 1 = Len(w) - (j + 1)
        /\ Len(w) - (Len(w) - j) + 1 = j + 1
    BY <1>1
  <2> QED
    BY <1>2, <2>1 DEF LeftOfWord
<1>9. Quoted(w) = <<DOUBLE>> \o LeftOfWord(w, 0)
  <2>1. Len(w) - 0 = Len(w)
    BY <1>1
  <2> QED
    BY <2>1 DEF Quoted, LeftOfWord
<1>10. Quoted(w) \in Seq(Chars)
  <2>1. <<DOUBLE>> \in Seq(Chars) /\ LeftOfWord(w, 0) \in Seq(Chars)
    BY <1>1, <1>6
  <2> QED
    BY <1>9, <2>1, ConcatProperties
<1> QED
  BY <1>6, <1>7, <1>8, <1>9, <1>10

LEMMA ListLeft ==
  ASSUME NEW ws \in Seq(Seq(Chars))
  PROVE  /\ \A k \in 0..Len(ws) : LeftOfList(ws, k) \in Seq(Chars)
         /\ LeftOfList(ws, Len(ws)) = << >>
         /\ \A k \in 0..Len(ws) - 1 :
              LeftOfList(ws, k) = <<SPACE>> \o Quoted(ws[k + 1]) \o LeftOfList(ws, k + 1)
<1>1. Len(ws) \in Nat /\ SPACE \in Chars
  BY CharacterNames
<1>2. /\ LastOfList(ws)[0] = << >>
      /\ \A n \in 1..Len(ws) :
           LastOfList(ws)[n] = <<SPACE>> \o Quoted(ws[Len(ws) - n + 1]) \o LastOfList(ws)[n - 1]
  BY <1>1, LastOfListAsIs
<1> DEFINE S == {n \in Nat : n <= Len(ws) => LastOfList(ws)[n] \in Seq(Chars)}
<1>3. 0 \in S
  <2>1. << >> \in Seq(Chars)
    BY EmptySeq
  <2> QED
    BY <1>2, <2>1
<1>4. ASSUME NEW n \in Nat, n \in S PROVE n + 1 \in S
  <2>1. CASE n + 1 <= Len(ws)
    <3>1. n + 1 \in 1..Len(ws) /\ (n + 1) - 1 = n /\ n <= Len(ws)
      BY <1>1, <2>1
    <3>2. Len(ws) - (n + 1) + 1 \in 1..Len(ws)
      BY <1>1, <3>1
    <3>3. ws[Len(ws) - (n + 1) + 1] \in Seq(Chars)
      BY <3>2, ElementOfSeq
    <3>4. PICK q : q = Quoted(ws[Len(ws) - (n + 1) + 1])
      OBVIOUS
    <3>5. q \in Seq(Chars) /\ <<SPACE>> \in Seq(Chars)
      BY <1>1, <3>3, <3>4, WordLeft
    <3>6. PICK l : l = LastOfList(ws)[n]
      OBVIOUS
    <3>7. l \in Seq(Chars)
      BY <1>4, <3>1, <3>6
    <3>8. LastOfList(ws)[n + 1] = <<SPACE>> \o q \o l
      BY <1>2, <3>1, <3>4, <3>6
    <3>9. <<SPACE>> \o q \in Seq(Chars)
      BY <3>5, ConcatProperties
    <3>10. (<<SPACE>> \o q) \o l \in Seq(Chars)
      BY <3>7, <3>9, ConcatProperties
    <3>11. LastOfList(ws)[n + 1] \in Seq(Chars)
      BY <3>8, <3>10
    <3> QED
      BY <3>11
  <2>2. CASE ~(n + 1 <= Len(ws))
    BY <2>2
  <2> QED
    BY <2>1, <2>2
<1>5. Nat \subseteq S
  <2> HIDE DEF S
  <2> QED
    BY <1>3, <1>4, OneByOne
<1>6. ASSUME NEW k \in 0..Len(ws) PROVE LeftOfList(ws, k) \in Seq(Chars)
  <2>1. Len(ws) - k \in Nat /\ Len(ws) - k <= Len(ws)
    BY <1>1
  <2> QED
    BY <1>5, <2>1 DEF LeftOfList
<1>7. LeftOfList(ws, Len(ws)) = << >>
  <2>1. Len(ws) - Len(ws) = 0
    BY <1>1
  <2> QED
    BY <1>2, <2>1 DEF LeftOfList
<1>8. ASSUME NEW k \in 0..Len(ws) - 1
      PROVE  LeftOfList(ws, k) = <<SPACE>> \o Quoted(ws[k + 1]) \o LeftOfList(ws, k + 1)
  <2>1. /\ Len(ws) - k \in 1..Len(ws) /\ (Len(ws) - k) - 1 = Len(ws) - (k + 1)
        /\ Len(ws) - (Len(ws) - k) + 1 = k + 1
    BY <1>1
  <2> QED
    BY <1>2, <2>1 DEF LeftOfList
<1> QED
  BY <1>6, <1>7, <1>8

(* What is known while a quoted list is read: k is the word which is read,   *)
(* and t what is left to read.                                               *)
AtWord(ws, k, known, t) ==
  /\ known.words = SubSeq(ws, 1, k - 1)
  /\ \/ /\ known.mode = "SPACES" /\ known.word = << >>
        /\ t = Quoted(ws[k]) \o LeftOfList(ws, k)
     \/ known.mode = "LITERAL" /\ known.word = ws[k] /\ t = LeftOfList(ws, k)
     \/ \E j \in 0..Len(ws[k]) :
          /\ known.mode = "QUOTE_DOUBLE" /\ known.word = SubSeq(ws[k], 1, j)
          /\ t = LeftOfWord(ws[k], j) \o LeftOfList(ws, k)
     \/ \E j \in 0..Len(ws[k]) - 1 :
          /\ known.mode = "QUOTE_DOUBLE_ESCAPE" /\ known.word = SubSeq(ws[k], 1, j)
          /\ t = <<ws[k][j + 1]>> \o LeftOfWord(ws[k], j + 1) \o LeftOfList(ws, k)

(* The first character of a text, and the others.                            *)
LEMMA FirstOf ==
  ASSUME NEW S, NEW c \in S, NEW u \in Seq(S), NEW t, t = <<c>> \o u
  PROVE  t # << >> /\ t[1] = c /\ Tail(t) = u
<1>1. <<c>> \in Seq(S) /\ Len(<<c>>) = 1 /\ <<c>>[1] = c
  OBVIOUS
<1>2. /\ t \in Seq(S) /\ Len(t) = Len(u) + 1 /\ t[1] = c
      /\ \A i \in 1..Len(u) : t[i + 1] = u[i]
  <2>1. /\ <<c>> \o u \in Seq(S) /\ Len(<<c>> \o u) = Len(<<c>>) + Len(u)
        /\ \A i \in 1..Len(<<c>>) + Len(u) :
             (<<c>> \o u)[i] = IF i <= Len(<<c>>) THEN <<c>>[i] ELSE u[i - Len(<<c>>)]
    BY <1>1, ConcatProperties
  <2>2. t \in Seq(S) /\ Len(t) = 1 + Len(u) /\ Len(u) \in Nat
        /\ \A i \in 1..1 + Len(u) : t[i] = IF i <= 1 THEN c ELSE u[i - 1]
    BY <1>1, <2>1
  <2> QED
    BY <2>2
<1>3. t # << >>
  BY <1>2
<1>4. Tail(t) \in Seq(S) /\ Len(Tail(t)) = Len(u) /\ \A i \in 1..Len(u) : Tail(t)[i] = u[i]
  BY <1>2, <1>3, HeadTailProperties
<1> QED
  BY <1>2, <1>3, <1>4, SeqEqual

(* The part of a sequence as far as one more element.                        *)
LEMMA OneFurther ==
  ASSUME NEW S, NEW w \in Seq(S), NEW j \in 0..Len(w) - 1
  PROVE  Append(SubSeq(w, 1, j), w[j + 1]) = SubSeq(w, 1, j + 1)
<1>1. /\ SubSeq(w, 1, j) \in Seq(S) /\ w[j + 1] \in S /\ 1 \in Nat /\ j + 1 \in 1..Len(w)
  OBVIOUS
<1>2. SubSeq(w, 1, j + 1) = SubSeq(w, 1, j) \o <<w[j + 1]>>
  <2>1. SubSeq(w, 1, j + 1) = SubSeq(w, 1, (j + 1) - 1) \o <<w[j + 1]>>
    BY <1>1, SubSeqRecursiveSecond
  <2>2. (j + 1) - 1 = j
    OBVIOUS
  <2> QED
    BY <2>1, <2>2
<1> QED
  BY <1>1, <1>2, AppendIsConcat

(* What is known after the character c, by its fields, where the mode before *)
(* was m.                                                                    *)
LEMMA FurtherFields ==
  ASSUME NEW known, NEW c, NEW k, k = Expanded!Further(known, c), NEW m, known.mode = m
  PROVE  /\ k.mode = Expanded!After(m, c)
         /\ ~Expanded!Ends(m, c) =>
              /\ k.words = known.words
              /\ k.word = IF Expanded!Kept(m, c) THEN Append(known.word, c) ELSE known.word
         /\ Expanded!Ends(m, c) =>
              k.words = Append(known.words, known.word) /\ k.word = << >>
BY DEF Expanded!Further, Expanded!Known

(* The first character of a text, where two texts are behind it.             *)
LEMMA FirstOfTwo ==
  ASSUME NEW S, NEW c \in S, NEW q \in Seq(S), NEW rest \in Seq(S), NEW t,
         t = <<c>> \o q \o rest
  PROVE  t # << >> /\ t[1] = c /\ Tail(t) = q \o rest
<1>1. <<c>> \in Seq(S) /\ q \o rest \in Seq(S)
  BY ConcatProperties
<1>2. (<<c>> \o q) \o rest = <<c>> \o (q \o rest)
  BY <1>1, ConcatAssociative
<1>3. t = <<c>> \o (q \o rest)
  BY <1>2
<1> QED
  BY ONLY <1>1, <1>3, FirstOf

LEMMA SpaceFirst ==
  ASSUME NEW q \in Seq(Chars), NEW rest \in Seq(Chars), NEW t,
         t = <<SPACE>> \o q \o rest
  PROVE  t # << >> /\ t[1] = SPACE /\ Tail(t) = q \o rest
<1>1. SPACE \in Chars
  BY CharacterNames
<1> QED
  BY ONLY <1>1, t = <<SPACE>> \o q \o rest, FirstOfTwo

(* A text which begins with c, the text u is behind it.                      *)
Begins(t, c, u) == t # << >> /\ t[1] = c /\ Tail(t) = u

LEMMA PlainFirst ==
  ASSUME NEW c \in Chars, NEW left \in Seq(Chars), NEW rest \in Seq(Chars)
  PROVE  Begins(<<c>> \o left \o rest, c, left \o rest)
<1>1. PICK t : t = <<c>> \o left \o rest
  OBVIOUS
<1>2. t # << >> /\ t[1] = c /\ Tail(t) = left \o rest
  BY ONLY <1>1, FirstOfTwo
<1> QED
  BY <1>1, <1>2 DEF Begins

(* One character more: where the quotes open.                                *)
LEMMA AtOpening ==
  ASSUME NEW ws \in Seq(Seq(Chars)), NEW k \in 1..Len(ws), NEW known, NEW t,
         known.words = SubSeq(ws, 1, k - 1),
         known.mode = "SPACES", known.word = << >>,
         t = Quoted(ws[k]) \o LeftOfList(ws, k)
  PROVE  t # << >> /\ AtWord(ws, k, Expanded!Further(known, t[1]), Tail(t))
<1>1. PICK w \in Seq(Chars) : w = ws[k]
  BY ElementOfSeq
<1>2. PICK rest \in Seq(Chars) : rest = LeftOfList(ws, k)
  <2>1. k \in 0..Len(ws)
    OBVIOUS
  <2> QED
    BY <2>1, ListLeft
<1>3. PICK q \in Seq(Chars) : q = LeftOfWord(w, 0)
  <2>1. 0 \in 0..Len(w)
    OBVIOUS
  <2> QED
    BY <2>1, WordLeft
<1>4. t = <<DOUBLE>> \o q \o rest
  <2>1. Quoted(w) = <<DOUBLE>> \o q
    BY <1>3, WordLeft
  <2> QED
    BY <1>1, <1>2, <2>1
<1>5. DOUBLE \in Chars
  BY CharacterNames
<1>6. t # << >> /\ t[1] = DOUBLE /\ Tail(t) = q \o rest
  <2>1. PICK d \in Chars : d = DOUBLE
    BY <1>5
  <2>2. Begins(<<d>> \o q \o rest, d, q \o rest)
    BY ONLY PlainFirst, Zenon
  <2> QED
    BY <1>4, <2>1, <2>2 DEF Begins
<1>7. /\ Expanded!After("SPACES", DOUBLE) = "QUOTE_DOUBLE"
      /\ ~Expanded!Kept("SPACES", DOUBLE) /\ ~Expanded!Ends("SPACES", DOUBLE)
  <2>1. DOUBLE \in Quotes /\ Expanded!Opened(DOUBLE) = "QUOTE_DOUBLE"
    BY CharacterNames, SameNames DEF Quotes, Expanded!Opened
  <2> QED
    BY <1>5, <2>1, AfterUnquoted, KeptTable DEF Expanded!Ends
<1>8. PICK r : r = Expanded!Further(known, t[1])
  OBVIOUS
<1>9. r.mode = "QUOTE_DOUBLE" /\ r.words = SubSeq(ws, 1, k - 1) /\ r.word = << >>
  <2>1. r = Expanded!Further(known, DOUBLE)
    BY <1>6, <1>8
  <2>2. /\ r.mode = Expanded!After("SPACES", DOUBLE)
        /\ r.words = known.words /\ r.word = known.word
    BY ONLY <1>7, <2>1, known.mode = "SPACES", FurtherFields
  <2> QED
    BY <1>7, <2>2
<1>10. SubSeq(w, 1, 0) = << >> /\ 0 \in 0..Len(w)
  BY SubSeqEmpty
<1>11. AtWord(ws, k, r, Tail(t))
  BY <1>1, <1>2, <1>3, <1>6, <1>9, <1>10 DEF AtWord
<1> QED
  BY <1>6, <1>8, <1>11

(* One character more: behind a word.                                        *)
LEMMA AtSpace ==
  ASSUME NEW ws \in Seq(Seq(Chars)), NEW k \in 1..Len(ws), NEW known, NEW t,
         known.words = SubSeq(ws, 1, k - 1),
         known.mode = "LITERAL", known.word = ws[k],
         t = LeftOfList(ws, k)
  PROVE  IF k = Len(ws)
         THEN t = << >> /\ Expanded!Further(known, NUL) = Expanded!Known("END", << >>, ws)
         ELSE t # << >> /\ AtWord(ws, k + 1, Expanded!Further(known, t[1]), Tail(t))
<1>1. Append(SubSeq(ws, 1, k - 1), ws[k]) = SubSeq(ws, 1, k)
  <2>1. k - 1 \in 0..Len(ws) - 1 /\ (k - 1) + 1 = k
    OBVIOUS
  <2> DEFINE S == Seq(Chars)
  <2>2. ws \in Seq(S)
    OBVIOUS
  <2> HIDE DEF S
  <2>3. Append(SubSeq(ws, 1, k - 1), ws[(k - 1) + 1]) = SubSeq(ws, 1, (k - 1) + 1)
    BY <2>1, <2>2, OneFurther
  <2> QED
    BY <2>1, <2>3
<1>2. CASE k = Len(ws)
  <2>1. t = << >>
    BY <1>2, ListLeft
  <2>2. /\ Expanded!After("LITERAL", NUL) = "END" /\ Expanded!Ends("LITERAL", NUL)
    BY AfterUnquoted DEF Expanded!Ends
  <2>3. SubSeq(ws, 1, Len(ws)) = ws
    BY SubSeqFull
  <2>4. Append(known.words, known.word) = ws
    BY <1>1, <1>2, <2>3
  <2>5. Expanded!Further(known, NUL) = Expanded!Known("END", << >>, ws)
    BY <2>2, <2>4 DEF Expanded!Further
  <2> QED
    BY <1>2, <2>1, <2>5
<1>3. CASE k # Len(ws)
  <2>1. k \in 0..Len(ws) - 1 /\ k + 1 \in 1..Len(ws) /\ k + 1 \in 0..Len(ws)
    BY <1>3
  <2>2. PICK q \in Seq(Chars) : q = Quoted(ws[k + 1])
    <3>1. ws[k + 1] \in Seq(Chars)
      BY <2>1, ElementOfSeq
    <3> QED
      BY <3>1, WordLeft
  <2>3. PICK rest \in Seq(Chars) : rest = LeftOfList(ws, k + 1)
    BY <2>1, ListLeft
  <2>4. t = <<SPACE>> \o q \o rest
    BY <2>1, <2>2, <2>3, ListLeft
  <2>5. SPACE \in Chars
    BY CharacterNames
  <2>7. t # << >> /\ t[1] = SPACE /\ Tail(t) = q \o rest
    BY ONLY <2>4, SpaceFirst
  <2>8. Expanded!After("LITERAL", SPACE) = "SPACES" /\ Expanded!Ends("LITERAL", SPACE)
    BY <2>5, AfterUnquoted, SameNames DEF Expanded!Ends
  <2>9. PICK r : r = Expanded!Further(known, t[1])
    OBVIOUS
  <2>10. r.mode = "SPACES" /\ r.words = SubSeq(ws, 1, k) /\ r.word = << >>
    <3>1. r = Expanded!Further(known, SPACE)
      BY <2>7, <2>9
    <3>2. /\ r.mode = Expanded!After("LITERAL", SPACE)
          /\ r.words = Append(known.words, known.word) /\ r.word = << >>
      BY ONLY <2>8, <3>1, known.mode = "LITERAL", FurtherFields
    <3> QED
      BY <1>1, <2>8, <3>2
  <2>11. (k + 1) - 1 = k
    OBVIOUS
  <2>12. AtWord(ws, k + 1, r, Tail(t))
    BY <2>2, <2>3, <2>7, <2>10, <2>11 DEF AtWord
  <2> QED
    BY <1>3, <2>7, <2>9, <2>12
<1> QED
  BY <1>2, <1>3

(* What an escaped character is written as: itself, or a backslash and it.   *)
LEMMA EscapedFirst ==
  ASSUME NEW c \in Chars, NEW left \in Seq(Chars), NEW rest \in Seq(Chars)
  PROVE  IF c \in {BACKSLASH, DOUBLE}
         THEN Begins(Escaped(c) \o left \o rest, BACKSLASH, <<c>> \o left \o rest)
         ELSE Begins(Escaped(c) \o left \o rest, c, left \o rest)
<1>1. CASE c \in {BACKSLASH, DOUBLE}
  <2>1. PICK b \in Chars : b = BACKSLASH
    BY CharacterNames
  <2>2. Escaped(c) = <<b>> \o <<c>>
    <3>1. Escaped(c) = <<b, c>>
      BY <1>1, <2>1 DEF Escaped
    <3> QED
      BY <3>1
  <2>3. <<b>> \in Seq(Chars) /\ <<c>> \in Seq(Chars)
    OBVIOUS
  <2>4. PICK q \in Seq(Chars) : q = <<c>> \o left
    BY <2>3, ConcatProperties
  <2>5. (<<b>> \o <<c>>) \o left = <<b>> \o q
    BY <2>3, <2>4, ConcatAssociative
  <2>6. Begins(<<b>> \o q \o rest, b, q \o rest)
    BY PlainFirst
  <2> QED
    BY <1>1, <2>1, <2>2, <2>4, <2>5, <2>6
<1>2. CASE c \notin {BACKSLASH, DOUBLE}
  <2>1. Escaped(c) = <<c>>
    BY <1>2 DEF Escaped
  <2>2. Begins(<<c>> \o left \o rest, c, left \o rest)
    BY PlainFirst
  <2> QED
    BY <1>2, <2>1, <2>2
<1> QED
  BY <1>1, <1>2

(* One character more: between the quotes.                                   *)
LEMMA AtQuoted ==
  ASSUME NEW ws \in Seq(Seq(Chars)), NEW k \in 1..Len(ws), NEW known, NEW t,
         known.words = SubSeq(ws, 1, k - 1), NEW j \in 0..Len(ws[k]),
         known.mode = "QUOTE_DOUBLE", known.word = SubSeq(ws[k], 1, j),
         t = LeftOfWord(ws[k], j) \o LeftOfList(ws, k)
  PROVE  t # << >> /\ AtWord(ws, k, Expanded!Further(known, t[1]), Tail(t))
<1>1. PICK w \in Seq(Chars) : w = ws[k]
  BY ElementOfSeq
<1>2. PICK rest \in Seq(Chars) : rest = LeftOfList(ws, k)
  <2>1. k \in 0..Len(ws)
    OBVIOUS
  <2> QED
    BY <2>1, ListLeft
<1>3. t = LeftOfWord(w, j) \o rest /\ j \in 0..Len(w) /\ Len(w) \in Nat
  BY <1>1, <1>2
<1>4. PICK r : r = Expanded!Further(known, t[1])
  OBVIOUS
<1>5. ASSUME NEW c, t[1] = c, ~Expanded!Ends("QUOTE_DOUBLE", c)
      PROVE  /\ r.mode = Expanded!After("QUOTE_DOUBLE", c)
             /\ r.words = SubSeq(ws, 1, k - 1)
             /\ r.word = IF Expanded!Kept("QUOTE_DOUBLE", c) THEN Append(SubSeq(w, 1, j), c)
                         ELSE SubSeq(w, 1, j)
  <2>1. r = Expanded!Further(known, c)
    BY <1>4, <1>5
  <2>2. /\ r.mode = Expanded!After("QUOTE_DOUBLE", c)
        /\ r.words = known.words
        /\ r.word = IF Expanded!Kept("QUOTE_DOUBLE", c) THEN Append(known.word, c)
                    ELSE known.word
    BY ONLY <1>5, <2>1, known.mode = "QUOTE_DOUBLE", FurtherFields
  <2> QED
    BY <1>1, <2>2
<1>6. \A c : ~Expanded!Ends("QUOTE_DOUBLE", c)
  BY DEF Expanded!Ends
<1>7. CASE j = Len(w)
  <2>1. t = <<DOUBLE>> \o rest /\ DOUBLE \in Chars
    BY <1>3, <1>7, WordLeft, CharacterNames
  <2>2. t # << >> /\ t[1] = DOUBLE /\ Tail(t) = rest
    BY ONLY <2>1, FirstOf
  <2>3. /\ Expanded!After("QUOTE_DOUBLE", DOUBLE) = "LITERAL"
        /\ ~Expanded!Kept("QUOTE_DOUBLE", DOUBLE)
    BY <2>1, AfterQuoted, KeptTable
  <2>4. SubSeq(w, 1, j) = w
    BY <1>7, SubSeqFull
  <2>5. r.mode = "LITERAL" /\ r.words = SubSeq(ws, 1, k - 1) /\ r.word = w
    BY <1>5, <1>6, <2>2, <2>3, <2>4
  <2>6. AtWord(ws, k, r, Tail(t))
    BY <1>1, <1>2, <2>2, <2>5 DEF AtWord
  <2> QED
    BY <1>4, <2>2, <2>6
<1>8. CASE j # Len(w)
  <2>1. j \in 0..Len(w) - 1 /\ j + 1 \in 1..Len(w) /\ j + 1 \in 0..Len(w)
    BY <1>3, <1>8
  <2>2. PICK c \in Chars : c = w[j + 1]
    BY <2>1, ElementOfSeq
  <2>3. PICK left \in Seq(Chars) : left = LeftOfWord(w, j + 1)
    BY <2>1, WordLeft
  <2>4. t = Escaped(c) \o left \o rest
    BY <1>3, <2>1, <2>2, <2>3, WordLeft
  <2>5. /\ t # << >>
        /\ c \in {BACKSLASH, DOUBLE} =>
             t[1] = BACKSLASH /\ Tail(t) = <<c>> \o left \o rest
        /\ c \notin {BACKSLASH, DOUBLE} => t[1] = c /\ Tail(t) = left \o rest
    <3>1. PICK u : u = Escaped(c) \o left \o rest
      OBVIOUS
    <3>2. IF c \in {BACKSLASH, DOUBLE}
          THEN Begins(u, BACKSLASH, <<c>> \o left \o rest) ELSE Begins(u, c, left \o rest)
      BY ONLY <3>1, EscapedFirst, Zenon
    <3> QED
      BY <2>4, <3>1, <3>2 DEF Begins
  <2>6. CASE c \in {BACKSLASH, DOUBLE}
    <3>1. /\ Expanded!After("QUOTE_DOUBLE", BACKSLASH) = "QUOTE_DOUBLE_ESCAPE"
          /\ ~Expanded!Kept("QUOTE_DOUBLE", BACKSLASH)
      BY AfterQuoted, KeptTable, CharacterNames
    <3>2. /\ r.mode = "QUOTE_DOUBLE_ESCAPE" /\ r.words = SubSeq(ws, 1, k - 1)
          /\ r.word = SubSeq(w, 1, j)
      BY <1>5, <1>6, <2>5, <2>6, <3>1
    <3>3. Tail(t) = <<w[j + 1]>> \o LeftOfWord(w, j + 1) \o LeftOfList(ws, k)
      BY <1>2, <2>2, <2>3, <2>5, <2>6
    <3>4. AtWord(ws, k, r, Tail(t))
      BY <1>1, <2>1, <3>2, <3>3 DEF AtWord
    <3> QED
      BY <1>4, <2>5, <3>4
  <2>7. CASE c \notin {BACKSLASH, DOUBLE}
    <3>1. /\ Expanded!After("QUOTE_DOUBLE", c) = "QUOTE_DOUBLE"
          /\ Expanded!Kept("QUOTE_DOUBLE", c)
      BY <2>7, AfterQuoted, KeptTable, LettersAssumption
    <3>2. /\ r.mode = "QUOTE_DOUBLE" /\ r.words = SubSeq(ws, 1, k - 1)
          /\ r.word = Append(SubSeq(w, 1, j), w[j + 1])
      BY <1>5, <1>6, <2>2, <2>5, <2>7, <3>1
    <3>3. Append(SubSeq(w, 1, j), w[j + 1]) = SubSeq(w, 1, j + 1)
      BY <2>1, OneFurther
    <3>4. Tail(t) = LeftOfWord(w, j + 1) \o LeftOfList(ws, k)
      BY <1>2, <2>3, <2>5, <2>7
    <3>5. AtWord(ws, k, r, Tail(t))
      BY <1>1, <2>1, <3>2, <3>3, <3>4 DEF AtWord
    <3> QED
      BY <1>4, <2>5, <3>5
  <2> QED
    BY <2>6, <2>7
<1> QED
  BY <1>7, <1>8

(* One character more: behind a backslash.                                   *)
LEMMA AtEscaped ==
  ASSUME NEW ws \in Seq(Seq(Chars)), NEW k \in 1..Len(ws), NEW known, NEW t,
         known.words = SubSeq(ws, 1, k - 1), NEW j \in 0..Len(ws[k]) - 1,
         known.mode = "QUOTE_DOUBLE_ESCAPE", known.word = SubSeq(ws[k], 1, j),
         t = <<ws[k][j + 1]>> \o LeftOfWord(ws[k], j + 1) \o LeftOfList(ws, k)
  PROVE  t # << >> /\ AtWord(ws, k, Expanded!Further(known, t[1]), Tail(t))
<1>1. PICK w \in Seq(Chars) : w = ws[k]
  BY ElementOfSeq
<1>2. PICK rest \in Seq(Chars) : rest = LeftOfList(ws, k)
  <2>1. k \in 0..Len(ws)
    OBVIOUS
  <2> QED
    BY <2>1, ListLeft
<1>3. j \in 0..Len(w) - 1 /\ j + 1 \in 1..Len(w) /\ j + 1 \in 0..Len(w)
  BY <1>1
<1>4. PICK c \in Chars : c = w[j + 1]
  BY <1>3, ElementOfSeq
<1>5. PICK left \in Seq(Chars) : left = LeftOfWord(w, j + 1)
  BY <1>3, WordLeft
<1>6. t = <<c>> \o left \o rest
  BY <1>1, <1>2, <1>4, <1>5
<1>7. t # << >> /\ t[1] = c /\ Tail(t) = left \o rest
  <2>1. Begins(<<c>> \o left \o rest, c, left \o rest)
    BY ONLY PlainFirst, Zenon
  <2> QED
    BY <1>6, <2>1 DEF Begins
<1>8. PICK r : r = Expanded!Further(known, c)
  OBVIOUS
<1>9. /\ Expanded!After("QUOTE_DOUBLE_ESCAPE", c) = "QUOTE_DOUBLE"
      /\ Expanded!Kept("QUOTE_DOUBLE_ESCAPE", c) /\ ~Expanded!Ends("QUOTE_DOUBLE_ESCAPE", c)
  <2>1. c # NUL
    BY LettersAssumption
  <2> QED
    BY <2>1, AfterQuoted, KeptTable DEF Expanded!Ends
<1>10. /\ r.mode = "QUOTE_DOUBLE" /\ r.words = known.words
       /\ r.word = Append(known.word, c)
  <2>1. PICK m : m = "QUOTE_DOUBLE_ESCAPE"
    OBVIOUS
  <2>2. known.mode = m
    BY ONLY <2>1, known.mode = "QUOTE_DOUBLE_ESCAPE"
  <2>3. /\ r.mode = Expanded!After(m, c)
        /\ ~Expanded!Ends(m, c) =>
             /\ r.words = known.words
             /\ r.word = IF Expanded!Kept(m, c) THEN Append(known.word, c) ELSE known.word
    BY ONLY <1>8, <2>2, FurtherFields
  <2> QED
    BY ONLY <1>9, <2>1, <2>3
<1>11. r.word = SubSeq(w, 1, j + 1)
  <2>1. Append(SubSeq(w, 1, j), w[j + 1]) = SubSeq(w, 1, j + 1)
    BY <1>3, OneFurther
  <2> QED
    BY <1>1, <1>4, <1>10, <2>1
<1>12. AtWord(ws, k, r, Tail(t))
  <2>1. Tail(t) = LeftOfWord(w, j + 1) \o LeftOfList(ws, k)
    BY <1>2, <1>5, <1>7
  <2> QED
    BY <1>1, <1>3, <1>10, <1>11, <2>1 DEF AtWord
<1> QED
  BY <1>7, <1>8, <1>12

(* Every character of a quoted list takes what is known a character further, *)
(* and its end gives the list.                                               *)
LEMMA AtWordNext ==
  ASSUME NEW ws \in Seq(Seq(Chars)), NEW k \in 1..Len(ws), NEW known, NEW t,
         AtWord(ws, k, known, t)
  PROVE  /\ t # << >> =>
              \E l \in 1..Len(ws) : AtWord(ws, l, Expanded!Further(known, t[1]), Tail(t))
         /\ t = << >> => Expanded!Further(known, NUL) = Expanded!Known("END", << >>, ws)
<1>1. known.words = SubSeq(ws, 1, k - 1)
  BY DEF AtWord
<1>2. CASE /\ known.mode = "SPACES" /\ known.word = << >>
           /\ t = Quoted(ws[k]) \o LeftOfList(ws, k)
  <2>1. t # << >> /\ AtWord(ws, k, Expanded!Further(known, t[1]), Tail(t))
    BY <1>1, <1>2, AtOpening
  <2> QED
    BY <2>1
<1>3. CASE known.mode = "LITERAL" /\ known.word = ws[k] /\ t = LeftOfList(ws, k)
  <2>1. IF k = Len(ws)
        THEN t = << >> /\ Expanded!Further(known, NUL) = Expanded!Known("END", << >>, ws)
        ELSE t # << >> /\ AtWord(ws, k + 1, Expanded!Further(known, t[1]), Tail(t))
    BY <1>1, <1>3, AtSpace
  <2>2. k # Len(ws) => k + 1 \in 1..Len(ws)
    OBVIOUS
  <2> QED
    BY <2>1, <2>2
<1>4. ASSUME NEW j \in 0..Len(ws[k]),
             known.mode = "QUOTE_DOUBLE", known.word = SubSeq(ws[k], 1, j),
             t = LeftOfWord(ws[k], j) \o LeftOfList(ws, k)
      PROVE  t # << >> /\ AtWord(ws, k, Expanded!Further(known, t[1]), Tail(t))
  BY <1>1, <1>4, AtQuoted
<1>5. ASSUME NEW j \in 0..Len(ws[k]) - 1,
             known.mode = "QUOTE_DOUBLE_ESCAPE", known.word = SubSeq(ws[k], 1, j),
             t = <<ws[k][j + 1]>> \o LeftOfWord(ws[k], j + 1) \o LeftOfList(ws, k)
      PROVE  t # << >> /\ AtWord(ws, k, Expanded!Further(known, t[1]), Tail(t))
  BY <1>1, <1>5, AtEscaped
<1> QED
  BY <1>2, <1>3, <1>4, <1>5 DEF AtWord

(* What is left of a text behind its first n characters.                     *)
LEMMA Behind ==
  ASSUME NEW S, NEW v \in Seq(S), NEW n \in 0..Len(v) - 1
  PROVE  /\ SubSeq(v, n + 1, Len(v)) # << >>
         /\ SubSeq(v, n + 1, Len(v))[1] = v[n + 1]
         /\ Tail(SubSeq(v, n + 1, Len(v))) = SubSeq(v, n + 2, Len(v))
<1>1. /\ v[n + 1] \in S /\ n + 1 \in 1..Len(v) /\ Len(v) \in Nat
  OBVIOUS
<1>2. PICK u : u = SubSeq(v, n + 2, Len(v))
  OBVIOUS
<1>3. SubSeq(v, n + 1, Len(v)) = <<v[n + 1]>> \o SubSeq(v, (n + 1) + 1, Len(v))
  BY <1>1, SubSeqRecursiveFirst
<1>4. (n + 1) + 1 = n + 2
  OBVIOUS
<1>5. SubSeq(v, n + 1, Len(v)) = <<v[n + 1]>> \o u
  BY <1>2, <1>3, <1>4
<1>6. u \in Seq(S)
  BY <1>1, <1>2
<1>7. PICK c \in S : c = v[n + 1]
  BY <1>1
<1>8. PICK t : t = SubSeq(v, n + 1, Len(v))
  OBVIOUS
<1>9. t = <<c>> \o u
  BY <1>5, <1>7, <1>8
<1>10. t # << >> /\ t[1] = c /\ Tail(t) = u
  BY ONLY <1>6, <1>9, FirstOf
<1> QED
  BY <1>2, <1>7, <1>8, <1>10

(* A list of words which was quoted is made of characters, and reading it    *)
(* gives the list.                                                           *)
LEMMA QuotedReads ==
  ASSUME NEW ws \in Seq(Seq(Chars)), ws # << >>
  PROVE  /\ QuotedList(ws) \in Seq(Chars)
         /\ Expanded!Whole(QuotedList(ws)) = Expanded!Known("END", << >>, ws)
<1>1. Len(ws) \in Nat /\ 0 \in 0..Len(ws) - 1 /\ 1 \in 1..Len(ws) /\ 1 \in 0..Len(ws)
  <2>1. Len(ws) \in Nat \ {0}
    BY EmptySeq
  <2> QED
    BY <2>1
<1>2. PICK q \in Seq(Chars) : q = Quoted(ws[1])
  <2>1. ws[1] \in Seq(Chars)
    BY <1>1, ElementOfSeq
  <2> QED
    BY <2>1, WordLeft
<1>3. PICK rest \in Seq(Chars) : rest = LeftOfList(ws, 1)
  BY <1>1, ListLeft
<1>4. PICK v \in Seq(Chars) : v = q \o rest
  BY ConcatProperties
<1>5. QuotedList(ws) = v
  <2>1. LeftOfList(ws, 0) = <<SPACE>> \o Quoted(ws[0 + 1]) \o LeftOfList(ws, 0 + 1)
    BY <1>1, ListLeft
  <2>2. 0 + 1 = 1 /\ Len(ws) - 0 = Len(ws)
    BY <1>1
  <2>3. LastOfList(ws)[Len(ws)] = <<SPACE>> \o q \o rest
    BY <1>2, <1>3, <2>1, <2>2 DEF LeftOfList
  <2>4. PICK t : t = LastOfList(ws)[Len(ws)]
    OBVIOUS
  <2>5. t = <<SPACE>> \o q \o rest
    BY <2>3, <2>4
  <2>6. t # << >> /\ t[1] = SPACE /\ Tail(t) = q \o rest
    BY ONLY <2>5, SpaceFirst
  <2> QED
    BY <1>4, <2>4, <2>6 DEF QuotedList
<1>6. Len(v) \in Nat
  OBVIOUS
<1>7. PICK known : known = Expanded!Reading(v)
  OBVIOUS
<1>8. /\ known[0] = Expanded!Known("SPACES", << >>, << >>)
      /\ \A n \in 1..Len(v) + 1 :
           known[n] = Expanded!Further(known[n - 1], Append(v, NUL)[n])
  BY <1>6, <1>7, ReadingIs
<1> DEFINE S == {n \in Nat : n <= Len(v) =>
                   \E k \in 1..Len(ws) :
                     AtWord(ws, k, known[n], SubSeq(v, n + 1, Len(v)))}
<1>9. 0 \in S
  <2>1. SubSeq(v, 0 + 1, Len(v)) = Quoted(ws[1]) \o LeftOfList(ws, 1)
    <3>1. SubSeq(v, 1, Len(v)) = v /\ 0 + 1 = 1
      BY SubSeqFull
    <3> QED
      BY <1>2, <1>3, <1>4, <3>1
  <2>2. SubSeq(ws, 1, 1 - 1) = << >>
    BY SubSeqEmpty
  <2>3. AtWord(ws, 1, known[0], SubSeq(v, 0 + 1, Len(v)))
    BY <1>8, <2>1, <2>2 DEF AtWord, Expanded!Known
  <2> QED
    BY <1>1, <2>3
<1>10. ASSUME NEW n \in Nat, n \in S PROVE n + 1 \in S
  <2>1. CASE n + 1 <= Len(v)
    <3>1. n \in 0..Len(v) - 1 /\ n + 1 \in 1..Len(v) + 1 /\ (n + 1) - 1 = n
          /\ n <= Len(v) /\ (n + 1) + 1 = n + 2
      BY <1>6, <2>1
    <3>2. PICK k \in 1..Len(ws) : AtWord(ws, k, known[n], SubSeq(v, n + 1, Len(v)))
      BY <1>10, <3>1
    <3>3. PICK t : t = SubSeq(v, n + 1, Len(v))
      OBVIOUS
    <3>4. t # << >> /\ t[1] = v[n + 1] /\ Tail(t) = SubSeq(v, n + 2, Len(v))
      BY <3>1, <3>3, Behind
    <3>5. PICK r : r = known[n]
      OBVIOUS
    <3>6. AtWord(ws, k, r, t)
      BY <3>2, <3>3, <3>5
    <3>7. PICK l \in 1..Len(ws) : AtWord(ws, l, Expanded!Further(r, t[1]), Tail(t))
      BY <3>4, <3>6, AtWordNext
    <3>8. Append(v, NUL)[n + 1] = v[n + 1]
      BY <3>1, <2>1
    <3>9. known[n + 1] = Expanded!Further(r, t[1])
      BY <1>8, <3>1, <3>4, <3>5, <3>8
    <3>10. AtWord(ws, l, known[n + 1], SubSeq(v, (n + 1) + 1, Len(v)))
      BY <3>1, <3>4, <3>7, <3>9
    <3> QED
      BY <3>10
  <2>2. CASE ~(n + 1 <= Len(v))
    BY <2>2
  <2> QED
    BY <2>1, <2>2
<1>11. Nat \subseteq S
  <2> HIDE DEF S
  <2> QED
    BY <1>9, <1>10, OneByOne
<1>12. PICK k \in 1..Len(ws) : AtWord(ws, k, known[Len(v)], SubSeq(v, Len(v) + 1, Len(v)))
  <2>1. \A n \in Nat : n <= Len(v) =>
           \E k \in 1..Len(ws) : AtWord(ws, k, known[n], SubSeq(v, n + 1, Len(v)))
    BY <1>11
  <2>2. Len(v) <= Len(v)
    BY <1>6
  <2> QED
    BY <1>6, <2>1, <2>2, Zenon
<1>13. SubSeq(v, Len(v) + 1, Len(v)) = << >>
  BY <1>6, SubSeqEmpty
<1>14. PICK r : r = known[Len(v)]
  OBVIOUS
<1>15. Expanded!Further(r, NUL) = Expanded!Known("END", << >>, ws)
  <2>1. PICK t : t = << >>
    OBVIOUS
  <2>2. AtWord(ws, k, r, t)
    BY <1>12, <1>13, <1>14, <2>1
  <2> QED
    BY <2>1, <2>2, AtWordNext
<1>16. known[Len(v) + 1] = Expanded!Further(r, NUL)
  <2>1. Len(v) + 1 \in 1..Len(v) + 1 /\ (Len(v) + 1) - 1 = Len(v)
    BY <1>6
  <2>2. Append(v, NUL)[Len(v) + 1] = NUL
    OBVIOUS
  <2> QED
    BY <1>8, <1>14, <2>1, <2>2
<1>17. Expanded!Whole(v) = known[Len(v) + 1]
  BY <1>7 DEF Expanded!Whole
<1> QED
  BY <1>5, <1>15, <1>16, <1>17

-----------------------------------------------------------------------------
(* What is known in the course of an expansion is what the value reads as.   *)

(* How far the value is read.                                                *)
SoFar == IF mode \in Ended THEN Len(value) + 1 ELSE it - 1
ReadInv == Expanded!Known(mode, Partial, arguments) = Expanded!Reading(value)[SoFar]

LEMMA ReadInvInit == ArgumentsInit => ReadInv
<1> SUFFICES ASSUME ArgumentsInit PROVE ReadInv
  OBVIOUS
<1>1. value = << >> /\ mode = "END" /\ Partial = << >> /\ arguments = << >>
  BY DEF ArgumentsInit, Partial
<1>2. PICK v : v = value
  OBVIOUS
<1>3. v \in Seq(Chars) /\ Len(v) = 0
  BY <1>1, <1>2
<1>4. PICK known : known = Expanded!Reading(v)
  OBVIOUS
<1>5. /\ known[0] = Expanded!Known("SPACES", << >>, << >>)
      /\ \A n \in 1..Len(v) + 1 :
           known[n] = Expanded!Further(known[n - 1], Append(v, NUL)[n])
  BY <1>3, <1>4, ReadingIs
<1>6. known[1] = Expanded!Further(known[0], NUL)
  <2>1. 1 \in 1..Len(v) + 1 /\ 1 - 1 = 0
    BY <1>3
  <2>2. Append(v, NUL)[1] = NUL
    BY <1>3
  <2> QED
    BY <1>5, <2>1, <2>2
<1>7. Expanded!Further(known[0], NUL) = Expanded!Known("END", << >>, << >>)
  <2>1. /\ Expanded!After("SPACES", NUL) = "END"
        /\ ~Expanded!Ends("SPACES", NUL) /\ ~Expanded!Kept("SPACES", NUL)
    BY AfterUnquoted, KeptTable DEF Expanded!Ends
  <2> QED
    BY <1>5, <2>1 DEF Expanded!Further, Expanded!Known
<1>8. SoFar = 1
  BY <1>1, <1>2, <1>3 DEF SoFar, Ended
<1> QED
  BY <1>1, <1>2, <1>4, <1>6, <1>7, <1>8 DEF ReadInv

LEMMA ReadInvBegin ==
  ASSUME NEW v \in Seq(Chars), ExpandBegin(v)
  PROVE  ReadInv'
<1>1. value' = v /\ it' = 1 /\ mode' = "SPACES" /\ arguments' = << >>
  BY DEF ExpandBegin
<1>2. Partial' = << >> /\ SoFar' = 0
  BY <1>1 DEF Partial, SoFar, Ended
<1>3. Len(v) \in Nat
  OBVIOUS
<1>4. Expanded!Reading(v)[0] = Expanded!Known("SPACES", << >>, << >>)
  BY <1>3, ReadingIs
<1> QED
  BY <1>1, <1>2, <1>4 DEF ReadInv

(* An expansion ends at the end of the value, and not before.                *)
LEMMA EndsAtEnd ==
  ASSUME NEW m \in Expanded!Modes, m \notin Ended, NEW c \in Chars \cup {NUL}
  PROVE  Expanded!After(m, c) \in Ended <=> c = NUL
<1>1. Expanded!Opened(c) \notin Ended
  BY DEF Expanded!Opened, Ended
<1>2. CASE m \in {"SPACES", "LITERAL"}
  BY <1>1, <1>2, AfterUnquoted, CharacterNames DEF Ended, Quotes
<1>3. CASE m = "QUOTE_SINGLE"
  BY <1>3, AfterQuoted, CharacterNames DEF Ended, Expanded!Quoting
<1>4. CASE m = "QUOTE_DOUBLE"
  BY <1>4, AfterQuoted, CharacterNames DEF Ended, Expanded!Quoting
<1>5. CASE m = "QUOTE_DOUBLE_ESCAPE"
  BY <1>5, AfterQuoted DEF Ended, Expanded!Quoting
<1> QED
  BY <1>2, <1>3, <1>4, <1>5 DEF Expanded!Modes, Ended

LEMMA ReadInvTurn ==
  ASSUME ExpandInv, ReadInv, Expand
  PROVE  ReadInv'
<1>1. Expanded!Step /\ Running
  BY ExpandRefines
     DEF Expand, ExpandSpaces, ExpandLiteral, ExpandSingle, ExpandDouble, ExpandEscape,
         Running, Ended
<1>2. PICK v, p, c : v = value /\ p = it /\ c = Append(value, NUL)[it]
  OBVIOUS
<1>3. /\ v \in Seq(Chars) /\ Len(v) \in Nat /\ p \in 1..Len(v) + 1
      /\ c = Append(v, NUL)[p] /\ mode \in Expanded!Modes /\ mode \notin Ended
  BY <1>1, <1>2 DEF ExpandInv, Running
<1>4. c \in Chars \cup {NUL} /\ (c = NUL <=> p = Len(v) + 1)
  <2>1. CASE p = Len(v) + 1
    BY <1>3, <2>1
  <2>2. CASE p # Len(v) + 1
    <3>1. p \in 1..Len(v)
      BY <1>3, <2>2
    <3>2. c = v[p] /\ v[p] \in Chars
      BY <1>3, <3>1
    <3> QED
      BY <2>2, <3>2, LettersAssumption
  <2> QED
    BY <2>1, <2>2
<1>5. PICK known : known = Expanded!Known(mode, Partial, arguments)
  OBVIOUS
<1>6. known = Expanded!Reading(v)[p - 1]
  BY <1>1, <1>2, <1>5 DEF ReadInv, SoFar, Running
<1>7. Expanded!Reading(v)[p] = Expanded!Further(known, c)
  <2>1. Expanded!Reading(v)[p] = Expanded!Further(Expanded!Reading(v)[p - 1], Append(v, NUL)[p])
    BY <1>3, ReadingIs
  <2> QED
    BY <1>3, <1>6, <2>1
<1>8. Expanded!Known(mode', Partial', arguments') = Expanded!Further(known, c)
  <2>1. PICK k : k = Expanded!Further(known, c)
    OBVIOUS
  <2>2. mode' = k.mode /\ Partial' = k.word /\ arguments' = k.words
    BY <1>1, <1>2, <1>5, <2>1 DEF Expanded!Step
  <2>3. k = Expanded!Known(k.mode, k.word, k.words)
    BY <2>1 DEF Expanded!Further, Expanded!Known
  <2> QED
    BY <2>1, <2>2, <2>3
<1>9. mode' = Expanded!After(mode, c) /\ it' = p + 1 /\ value' = v
  <2>1. known.mode = mode
    BY <1>5 DEF Expanded!Known
  <2>2. Expanded!Known(mode', Partial', arguments').mode = mode'
    BY DEF Expanded!Known
  <2>3. Expanded!Further(known, c).mode = Expanded!After(known.mode, c)
    BY DEF Expanded!Further, Expanded!Known
  <2>4. it' = it + 1 /\ value' = value
    BY <1>1 DEF Expanded!Step
  <2> QED
    BY <1>2, <1>8, <2>1, <2>2, <2>3, <2>4
<1>10. mode' \in Ended <=> p = Len(v) + 1
  <2>1. Expanded!After(mode, c) \in Ended <=> c = NUL
    BY <1>3, <1>4, EndsAtEnd
  <2> QED
    BY <1>4, <1>9, <2>1
<1>11. SoFar' = p
  <2>1. p + 1 - 1 = p
    BY <1>3
  <2>2. CASE mode' \in Ended
    BY <1>9, <1>10, <2>2 DEF SoFar
  <2>3. CASE mode' \notin Ended
    <3>1. SoFar' = it' - 1
      BY <2>3 DEF SoFar
    <3>2. SoFar' = p + 1 - 1
      BY <1>3, <1>9, <3>1
    <3> QED
      BY <2>1, <3>2
  <2> QED
    BY <2>2, <2>3
<1> QED
  BY <1>7, <1>8, <1>9, <1>11 DEF ReadInv

(* What is done with the words leaves what is known of them alone.           *)
LEMMA ReadInvStays ==
  ASSUME ReadInv, UNCHANGED argumentsVars PROVE ReadInv'
BY DEF ReadInv, SoFar, Partial, Word, argumentsVars

(* At the end, the words are those which the whole value stands for.         *)
LEMMA EndedReads ==
  ASSUME ReadInv, mode \in Ended
  PROVE  /\ Expanded!Whole(value).mode = mode
         /\ mode = "END" => Expanded!Whole(value) = Expanded!Known("END", << >>, arguments)
         /\ Expanded!Whole(value).words = arguments
BY DEF ReadInv, SoFar, Expanded!Whole, Expanded!Known, Partial

=============================================================================
