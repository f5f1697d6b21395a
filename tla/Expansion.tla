----------------------------- MODULE Expansion ------------------------------
(***************************************************************************)
(* What the value of the arguments key stands for: the words it is made    *)
(* of.  Words are separated by spaces.  Between single quotes every        *)
(* character stands for itself, between double quotes every one but the    *)
(* backslash, which stands for the character behind it.  Quotes may open   *)
(* anywhere, also within a word, and have to be closed.                    *)
(*                                                                         *)
(* This is the abstract specification of daemon_conf.c's expansion, which  *)
(* module Arguments describes: it reads each character once and writes     *)
(* nowhere but behind the words it has.                                    *)
(***************************************************************************)
EXTENDS Naturals, Sequences

CONSTANTS
  Letters,  \* the characters which have no meaning of their own
  NUL       \* the end of a string

SPACE == " "
SINGLE == "single quote"
DOUBLE == "double quote"
BACKSLASH == "backslash"
Quotes == {SINGLE, DOUBLE}
Chars == Letters \cup {SPACE, BACKSLASH} \cup Quotes

Modes == {"SPACES", "LITERAL", "QUOTE_SINGLE", "QUOTE_DOUBLE",
          "QUOTE_DOUBLE_ESCAPE", "END", "ERROR_UNCLOSED_QUOTE"}
Quoting == {"QUOTE_SINGLE", "QUOTE_DOUBLE", "QUOTE_DOUBLE_ESCAPE"}
Ended == {"END", "ERROR_UNCLOSED_QUOTE"}

(* The mode which a quote opens. *)
Opened(c) == IF c = SINGLE THEN "QUOTE_SINGLE" ELSE "QUOTE_DOUBLE"

VARIABLES
  value,  \* the characters which are expanded
  at,     \* the place of the character which is read next
  mode,   \* what this character is to be taken for
  word,   \* the part which was read of a word
  words   \* the words before it

vars == <<value, at, mode, word, words>>

Init == value = << >> /\ at = 1 /\ mode = "END" /\ word = << >> /\ words = << >>

Begin ==
  /\ mode \in Ended
  /\ value' \in Seq(Chars)
  /\ at' = 1 /\ mode' = "SPACES" /\ word' = << >> /\ words' = << >>

(* What the character after c is to be taken for, c being taken for m. *)
After(m, c) ==
  CASE m \in Quoting /\ c = NUL -> "ERROR_UNCLOSED_QUOTE"
    [] m = "QUOTE_SINGLE" /\ c = SINGLE -> "LITERAL"
    [] m = "QUOTE_DOUBLE" /\ c = DOUBLE -> "LITERAL"
    [] m = "QUOTE_DOUBLE" /\ c = BACKSLASH -> "QUOTE_DOUBLE_ESCAPE"
    [] m = "QUOTE_DOUBLE_ESCAPE" /\ c # NUL -> "QUOTE_DOUBLE"
    [] m \notin Quoting /\ c = NUL -> "END"
    [] m \notin Quoting /\ c = SPACE -> "SPACES"
    [] m \notin Quoting /\ c \in Quotes -> Opened(c)
    [] m \notin Quoting /\ c \in Letters \cup {BACKSLASH} -> "LITERAL"
    [] OTHER -> m

(* Whether c belongs to the word. *)
Kept(m, c) ==
  \/ m = "QUOTE_SINGLE" /\ c \notin {SINGLE, NUL}
  \/ m = "QUOTE_DOUBLE" /\ c \notin {DOUBLE, BACKSLASH, NUL}
  \/ m = "QUOTE_DOUBLE_ESCAPE" /\ c # NUL
  \/ m \notin Quoting /\ c \in Letters \cup {BACKSLASH}

(* Whether the word ends at c. *)
Ends(m, c) == m = "LITERAL" /\ c \in {SPACE, NUL}

(* What is known of a value: the mode, the word and the words; and what is   *)
(* known after one more character c.                                         *)
Known(m, w, ws) == [mode |-> m, word |-> w, words |-> ws]
Further(k, c) ==
  Known(After(k.mode, c),
        IF Ends(k.mode, c) THEN << >> ELSE IF Kept(k.mode, c) THEN Append(k.word, c) ELSE k.word,
        IF Ends(k.mode, c) THEN Append(k.words, k.word) ELSE k.words)

Step ==
  /\ mode \notin Ended
  /\ LET k == Further(Known(mode, word, words), Append(value, NUL)[at]) IN
     mode' = k.mode /\ word' = k.word /\ words' = k.words
  /\ at' = at + 1
  /\ UNCHANGED value

(* What is known of the value v after its first n characters, its end is one *)
(* of them.                                                                  *)
Reading(v) ==
  LET known[n \in 0..Len(v) + 1] ==
        IF n = 0 THEN Known("SPACES", << >>, << >>)
        ELSE Further(known[n - 1], Append(v, NUL)[n])
  IN known
Whole(v) == Reading(v)[Len(v) + 1]

Spec == Init /\ [][Begin \/ Step]_vars
=============================================================================
