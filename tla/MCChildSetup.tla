---------------------------- MODULE MCChildSetup ----------------------------
(* Instances of ChildSetup for TLC. *)
EXTENDS ChildSetup, TLC
LOCAL INSTANCE SequencesExt

EOL == "end of line"

(* Names are strings of one word, as values are.                             *)
TheName == <<"name">>
TheDevNull == <<"/", "dev/null">>
TheRoot == <<"/">>
TheConsole == <<"console">>
TheSocket == <<"socket">>
TheSource == <<"source">>

(* Words of the files below, and what they are to the parser.                *)
AnyChar == {"x", "=", "#", "[", "]", SPACE}
AllLetters ==
  {"x", "=", "#", "/", "[", "]", "tab", EOL, "5", "15", "20", "-5", "SIG", "USR1", "bin", "bob",
   "general", "environment", "start", "any", "exit", "success", "load", "path", "arguments",
   "stdin", "err", "stderr", "nosid", "user", "group", "umask", "priority", "sigfinish"}
Numbers ==
  (<< >> :> 0) @@ (<<"5">> :> 5) @@ (<<"15">> :> 15) @@ (<<"-5">> :> -5) @@ (<<"20">> :> 20)
    @@ (<<"70000">> :> 70000)
Octals == (<< >> :> 0) @@ (<<"5">> :> 5) @@ (<<"15">> :> 13) @@ (<<"-5">> :> -5) @@ (<<"20">> :> 16)
    @@ (<<"70000">> :> 28672)
Signals == (<<"TERM">> :> 15) @@ (<<"HUP">> :> 1) @@ (<<"CHLD">> :> 17) @@ (<<"USR1">> :> 10)
Uids == (<<"bob">> :> 7) @@ (<<"5">> :> 9)
Gids == (<<"bob">> :> 8)

WordsUpTo(S, n) == UNION {[1..k -> S] : k \in 0..n}

(* Lines of any shape. *)
LineFiles == {<<l \o <<EOL>>>> : l \in WordsUpTo(AnyChar, 5)}

(* Files of several sections, with keys in the right ones and in others, and *)
(* values which are valid, and which are not.                                *)
Lines ==
  {<<"[", "general", "]">>, <<"[", SPACE, "start", "]", "#">>, <<"[", "environment", "]">>,
   <<"[", "x", "]">>,
   <<"exit">>, <<"exit", SPACE, "success", SPACE>>, <<"load", "=", "x">>,
   <<"any", SPACE, "exit">>, <<"nosid">>, <<"user", "=", "bob">>, <<"user", "=", "5">>,
   <<"group", "=", "-5">>, <<"group", "=", "15">>, <<"priority", "=", "20">>,
   <<"priority", "=", "-5">>,
   <<"tab", "stdin", SPACE, "=", "/", "x">>, <<"stdin", "=", "x">>, <<"path", "=", "x">>}
SectionFiles == {[i \in DOMAIN f |-> f[i] \o <<EOL>>] : f \in WordsUpTo(Lines, 3)}

(* Values of the arguments key: texts of any shape, lists of words which are *)
(* quoted, and several lines of which some are not valid.                    *)
ArgumentsLine(t) == <<"arguments", "=">> \o t
Texts(n) == WordsUpTo({"x", SPACE, BACKSLASH, SINGLE, DOUBLE}, n)
TextFiles == {<<ArgumentsLine(t)>> : t \in Texts(4)}
WordLists == [1..1 -> Texts(3)] \cup [1..2 -> Texts(1)]
QuotedFiles == {<<ArgumentsLine(QuotedList(ws))>> : ws \in WordLists}
ListLines ==
  {ArgumentsLine(QuotedList(<<<<DOUBLE>>>>)), ArgumentsLine(<<SINGLE, "x">>),
   ArgumentsLine(<<"x", SPACE, "x">>), <<"arguments">>, <<"[", "environment", "]">>,
   <<"[", "general", "]">>}
ListFiles == [1..3 -> ListLines]

(* Files of daemons, which are set up.                                       *)
Ranked == {<<"group", "=", "bob">>, <<"priority", "=", "-5">>, <<"priority", "=", "5">>}
Options == Ranked \cup
  {<<"user", "=", "bob">>, <<"stderr", "=", "/", "err">>, <<"nosid">>,
   <<"sigfinish", "=", "SIG", "USR1">>, <<"umask", "=", "20">>,
   <<"arguments", "=", "x", SPACE, "x">>}
Daemon(options) ==
  <<<<"path", "=", "/", "bin">>, <<"stdin", "=", "/", "x">>>> \o SetToSeq(options)
DaemonFiles ==
  {Daemon(o) : o \in {{p} : p \in Options} \cup
     {{<<"user", "=", "bob">>, p} : p \in Ranked}}

AllFiles == LineFiles \cup SectionFiles \cup TextFiles \cup QuotedFiles \cup ListFiles
              \cup DaemonFiles
=============================================================================
