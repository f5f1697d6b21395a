----------------------------- MODULE DaemonConf -----------------------------
(***************************************************************************)
(* daemon_conf.c: the configuration file of a daemon, line by line.        *)
(*                                                                         *)
(* A file is a sequence of lines, a line a sequence of characters with its *)
(* end of line.  Words which no part of the parser looks into (names of    *)
(* keys and sections, numbers, parts of paths) count as one character.     *)
(* A line has no nul character in it.  A list which is NULL is empty.      *)
(*                                                                         *)
(* Errors in a line are logged, and the file is read on.                   *)
(*                                                                         *)
(* An operator named Wrong... is a bug which the one after it does not     *)
(* have: no module uses it, it is there to be put in its place, so that    *)
(* the properties are seen to fail.                                        *)
(***************************************************************************)
EXTENDS Arguments, Integers, FiniteSetsExt

CONSTANTS
  NULL,     \* a null pointer
  Decimal,  \* the numbers which strings are, to base 10; the empty string is 0
  Octal,    \* and to base 8
  Signo,    \* numbers of signals, by their names without SIG; also of RT names
  NSIG,     \* the greatest number which may stand for a signal
  Users,    \* the user database: uids by name
  Groups,   \* the group database: gids by name
  MaxId,    \* CONFIG_DAEMON_CONF_MAX_UID and _GID
  Lists     \* lists of words which someone may want to write, and none is empty

VARIABLES
  file,      \* the file
  database,  \* whether the user and group databases can be read
  line,      \* the line which is read next
  section,   \* the section it is in, NULL for one which is not known
  conf,      \* the configuration
  parse      \* how far daemon_conf_parse is

parserVars == <<file, database, line, section, parse>>

General == <<"general">>
Environment == <<"environment">>
Start == <<"start">>
Sections == {General, Environment, Start}

ASSUME NullAssumption == NULL \notin Sections
ASSUME ListsAssumption == \A ws \in Lists : ws \in Seq(Seq(Chars)) /\ ws # << >>

(* daemon_conf_init *)
DefaultConf ==
  [path |-> NULL, arguments |-> << >>, environment |-> << >>, workdir |-> NULL,
   in |-> NULL, out |-> NULL, err |-> NULL,
   sigfinish |-> Signo[<<"TERM">>], sigreload |-> Signo[<<"HUP">>],
   uid |-> 0, gid |-> 0, nosid |-> FALSE, umask |-> 18, priority |-> 0, start |-> {}]

-----------------------------------------------------------------------------
(* Lines. *)

Blank(c) == c \in {SPACE, "tab", "end of line"}

(* The places of the first and of the last character which is not blank, if  *)
(* there is none the ones behind s and in front of it.                       *)
FirstDark(s) == Min({i \in DOMAIN s : ~Blank(s[i])} \cup {Len(s) + 1})
LastDark(s) == Max({i \in DOMAIN s : ~Blank(s[i])} \cup {0})

LeftTrimmed(s) == SubSeq(s, FirstDark(s), Len(s))
RightTrimmed(s) == SubSeq(s, 1, LastDark(s))
Trimmed(s) == LeftTrimmed(RightTrimmed(s))

(* The place of the first c in s, or the one behind s. *)
Place(s, c) == Min({i \in DOMAIN s : s[i] = c} \cup {Len(s) + 1})

Uncommented(l) == SubSeq(l, 1, Place(l, "#") - 1)
IsSection(s) == s # << >> /\ s[1] = "[" /\ s[Len(s)] = "]"

Line(isSection, key, v) == [section |-> isSection, key |-> key, value |-> v]

(* Wrong: the end is trimmed before the comment is cut off.                  *)
WrongLineText(l, indent) ==
  LET end == LastDark(l)
      cut == Place(l, "#") - 1 IN
  IF cut < end THEN SubSeq(l, indent + 1, cut) ELSE SubSeq(l, indent + 1, end)

(* The text of a line.  Its end is looked for from the comment backwards,    *)
(* also over the indentation if there is nothing else; the nul is then       *)
(* written in front of the text, which ends where the line does.             *)
LineText(l, indent) ==
  LET end == LastDark(Uncommented(l)) IN
  IF end < indent THEN SubSeq(l, indent + 1, Len(l)) ELSE SubSeq(l, indent + 1, end)

(* daemon_conf_parse_line.  Where the key is missing, its end is looked for  *)
(* in the indentation, and the whole text is the key; without indentation it *)
(* is in front of the line, and the key is empty.  An empty name in brackets *)
(* may also come out as a bracket, and is as unknown.                        *)
ParseLine(l) ==
  LET indent == FirstDark(l) - 1
      t == LineText(l, indent)
      separator == Place(t, "=") IN
  IF IsSection(t) THEN Line(TRUE, Trimmed(SubSeq(t, 2, Len(t) - 1)), NULL)
  ELSE IF separator > Len(t) THEN Line(FALSE, t, NULL)
  ELSE Line(FALSE,
            IF separator = 1 /\ indent # 0 THEN t
                                           ELSE RightTrimmed(SubSeq(t, 1, separator - 1)),
            LeftTrimmed(SubSeq(t, separator + 1, Len(t))))

-----------------------------------------------------------------------------
(* Values: what becomes of the configuration c.  One which is in error       *)
(* leaves it as it is.                                                       *)

PathField ==
  [k \in {<<"path">>, <<"workdir">>, <<"stdin">>, <<"stdout">>, <<"stderr">>} |->
    CASE k = <<"stdin">> -> "in" [] k = <<"stdout">> -> "out"
      [] k = <<"stderr">> -> "err" [] OTHER -> k[1]]

Absolute(v) == v # NULL /\ v # << >> /\ v[1] = "/"

(* daemon_conf_path *)
ConfPath(c, f, v) == IF Absolute(v) THEN [c EXCEPT ![f] = v] ELSE c

(* daemon_conf_signal: a name in any case, or a string which begins with a   *)
(* digit.                                                                    *)
IsNumber(v) == v # << >> /\ <<v[1]>> \in DOMAIN Decimal /\ Decimal[<<v[1]>>] >= 0
Signame(v) == IF v # << >> /\ v[1] = "SIG" THEN Tail(v) ELSE v

IsSignal(v) ==
  /\ v # NULL
  /\ IF IsNumber(v) THEN v \in DOMAIN Decimal /\ Decimal[v] <= NSIG
                    ELSE Signame(v) \in DOMAIN Signo
SignalOf(v) == IF IsNumber(v) THEN Decimal[v] ELSE Signo[Signame(v)]

ConfSignal(c, f, v) == IF IsSignal(v) THEN [c EXCEPT ![f] = SignalOf(v)] ELSE c

(* daemon_conf_parse_general_user, _group: a negative number is a huge one.  *)
(* Where the database cannot be read nothing is set, and this is no error.   *)
ConfId(c, f, ids, v) ==
  CASE ~database -> c
    [] database /\ v \in DOMAIN ids -> [c EXCEPT ![f] = ids[v]]
    [] database /\ v \notin DOMAIN ids ->
         IF v \in DOMAIN Decimal /\ Decimal[v] \in 0..MaxId
         THEN [c EXCEPT ![f] = Decimal[v]] ELSE c

ConfUser(c, v) == ConfId(c, "uid", Users, v)
ConfGroup(c, v) == ConfId(c, "gid", Groups, v)
ConfNosid(c, v) == IF v = NULL THEN [c EXCEPT !.nosid = TRUE] ELSE c

ConfPriority(c, v) ==
  IF v \in DOMAIN Decimal /\ Decimal[v] \in -20..19
  THEN [c EXCEPT !.priority = Decimal[v]] ELSE c

ConfUmask(c, v) ==
  IF v \in DOMAIN Octal THEN [c EXCEPT !.umask = Octal[v] % 512] ELSE c

(* general_values, but for the arguments.  A key which it does not have is   *)
(* ignored.                                                                  *)
ParseGeneral(c, key, v) ==
  CASE key \in DOMAIN PathField -> ConfPath(c, PathField[key], v)
    [] key = <<"user">>      -> ConfUser(c, v)
    [] key = <<"group">>     -> ConfGroup(c, v)
    [] key = <<"nosid">>     -> ConfNosid(c, v)
    [] key = <<"priority">>  -> ConfPriority(c, v)
    [] key = <<"umask">>     -> ConfUmask(c, v)
    [] key = <<"sigfinish">> -> ConfSignal(c, "sigfinish", v)
    [] key = <<"sigreload">> -> ConfSignal(c, "sigreload", v)
    [] OTHER -> c

(* daemon_conf_parse_environment *)
ParseEnvironment(c, key, v) ==
  [c EXCEPT !.environment = Append(@, <<key, IF v = NULL THEN key ELSE v>>)]

(* start_values: the flags which a key sets. *)
StartFlags(key) ==
  CASE key = <<"any", SPACE, "exit">>     -> {"exitsuccess", "exitfailure", "killed", "dumped"}
    [] key = <<"exit">>                   -> {"exitsuccess", "exitfailure"}
    [] key = <<"exit", SPACE, "success">> -> {"exitsuccess"}
    [] key = <<"exit", SPACE, "failure">> -> {"exitfailure"}
    [] key \in {<<f>> : f \in {"killed", "dumped", "load", "reload"}} -> {key[1]}
    [] OTHER -> {}

ParseStart(c, key, v) ==
  IF v = NULL THEN [c EXCEPT !.start = @ \cup StartFlags(key)] ELSE c

-----------------------------------------------------------------------------
(* daemon_conf_parse: the turns of its loop, and its end. *)

Read == ParseLine(file[line])

NextLine ==
  /\ parse = "reading" /\ line <= Len(file)
  /\ line' = line + 1
  /\ UNCHANGED <<file, database>>

(* Wrong: after a section which is not known the one before it goes on.      *)
WrongReadSection ==
  /\ NextLine /\ Read.section
  /\ section' = IF Read.key \in Sections THEN Read.key ELSE section
  /\ UNCHANGED <<conf, parse, argumentsVars>>

ReadSection ==
  /\ NextLine /\ Read.section
  /\ section' = IF Read.key \in Sections THEN Read.key ELSE NULL
  /\ UNCHANGED <<conf, parse, argumentsVars>>

Skips == section = NULL \/ Read.key = << >>
HasArguments == section = General /\ Read.key = <<"arguments">> /\ Read.value # NULL

SkipLine ==
  /\ NextLine /\ ~Read.section /\ Skips
  /\ UNCHANGED <<section, conf, parse, argumentsVars>>

ReadValue ==
  /\ NextLine /\ ~Read.section /\ ~Skips /\ ~HasArguments
  /\ conf' = CASE section = General     -> ParseGeneral(conf, Read.key, Read.value)
                [] section = Environment -> ParseEnvironment(conf, Read.key, Read.value)
                [] section = Start       -> ParseStart(conf, Read.key, Read.value)
  /\ UNCHANGED <<section, parse, argumentsVars>>

ReadArguments ==
  /\ NextLine /\ ~Read.section /\ ~Skips /\ HasArguments
  /\ ExpandBegin(Read.value)
  /\ parse' = "expanding"
  /\ UNCHANGED <<section, conf>>

ExpandTurn == parse = "expanding" /\ Expand /\ UNCHANGED <<parserVars, conf>>

(* Only a list which is complete and not empty replaces the one before it.   *)
ExpandEnd ==
  /\ parse = "expanding" /\ mode \in Ended
  /\ parse' = "reading"
  /\ conf' = IF mode = "END" /\ arguments # << >>
             THEN [conf EXCEPT !.arguments = arguments] ELSE conf
  /\ UNCHANGED <<file, database, line, section, argumentsVars>>

(* The end of the file, which is also where getline(3) fails.                *)
EndOfFile ==
  /\ parse = "reading"
  /\ parse' = IF conf.path = NULL THEN "failed" ELSE "parsed"
  /\ UNCHANGED <<file, database, line, section, conf, argumentsVars>>

ParserInit(files) ==
  /\ file \in files /\ database \in BOOLEAN
  /\ line = 1 /\ section = General /\ conf = DefaultConf /\ parse = "reading"
  /\ ArgumentsInit

ParserNext ==
  ReadSection \/ SkipLine \/ ReadValue \/ ReadArguments \/ ExpandTurn \/ ExpandEnd \/ EndOfFile

-----------------------------------------------------------------------------
(* What a file means, by man/cyberd.5.                                       *)

(* "Comments can start anywhere on a line with the '#' character, ending on  *)
(* the end of the line and not impacting the content.  Also note associative *)
(* values, scalar values and section names are trimmed for spaces."          *)
Meaning(l) ==
  LET t == Trimmed(Uncommented(l))
      separator == Place(t, "=") IN
  IF IsSection(t) THEN Line(TRUE, Trimmed(SubSeq(t, 2, Len(t) - 1)), NULL)
  ELSE IF separator > Len(t) THEN Line(FALSE, t, NULL)
  ELSE Line(FALSE, Trimmed(SubSeq(t, 1, separator - 1)),
                   Trimmed(SubSeq(t, separator + 1, Len(t))))

(* The lines which are taken for something else: what is indented and has    *)
(* nothing in front of its comment, or of its equals sign.                   *)
Misread(l) ==
  LET t == Trimmed(Uncommented(l)) IN
  /\ l # << >> /\ Blank(l[1])
  /\ \/ t = << >> /\ Place(l, "#") <= Len(l)
     \/ t # << >> /\ t[1] = "="

(* Every other line is taken for what it means, wherever it has spaces, its  *)
(* comment, brackets and equals signs (daemon_conf.c:646 works in place and  *)
(* moves both ends of the line as it goes).                                  *)
LineMeans ==
  parse = "reading" /\ line <= Len(file) /\ ~Misread(file[line]) => Read = Meaning(file[line])

SectionOf(i) ==
  LET headers == {j \in 1..i : Meaning(file[j]).section} IN
  IF headers = {} THEN General ELSE Meaning(file[Max(headers)]).key

(* The lines which were read of a section s, and have a key. *)
LinesOf(s) ==
  {i \in 1..line - 1 : /\ SectionOf(i) = s /\ ~Meaning(file[i]).section
                       /\ Meaning(file[i]).key # << >>}
Key(i) == Meaning(file[i]).key
Value(i) == Meaning(file[i]).value

(* The last valid value of the key, or the default. *)
Latest(key, Valid(_), Number(_), default) ==
  LET lines == {i \in LinesOf(General) : Key(i) = <<key>> /\ Valid(Value(i))} IN
  IF lines = {} THEN default ELSE Number(Value(Max(lines)))

LatestPath(key) == Latest(key, Absolute, LAMBDA v : v, NULL)
LatestSignal(key, default) == Latest(key, IsSignal, SignalOf, default)
LatestId(key, ids) ==
  Latest(key, LAMBDA v : v \in DOMAIN ids \/ (v \in DOMAIN Decimal /\ Decimal[v] \in 0..MaxId),
         LAMBDA v : IF v \in DOMAIN ids THEN ids[v] ELSE Decimal[v], 0)

(* What the line i adds to the environment, and its place there.             *)
Environ(i) == <<Key(i), IF Value(i) = NULL THEN Key(i) ELSE Value(i)>>
Rank(i) == Cardinality({j \in LinesOf(Environment) : j <= i})

GeneralAsMeant ==
  /\ conf.path = LatestPath("path") /\ conf.workdir = LatestPath("workdir")
  /\ conf.in = LatestPath("stdin") /\ conf.out = LatestPath("stdout")
  /\ conf.err = LatestPath("stderr")
  /\ database => conf.uid = LatestId("user", Users) /\ conf.gid = LatestId("group", Groups)
  /\ conf.nosid = \E i \in LinesOf(General) : Key(i) = <<"nosid">> /\ Value(i) = NULL
  /\ conf.priority = Latest("priority",
       LAMBDA v : v \in DOMAIN Decimal /\ Decimal[v] \in -20..19, LAMBDA v : Decimal[v], 0)
  /\ conf.umask = Latest("umask",
       LAMBDA v : v \in DOMAIN Octal, LAMBDA v : Octal[v] % 512, 18)
  /\ conf.sigfinish = LatestSignal("sigfinish", DefaultConf.sigfinish)
  /\ conf.sigreload = LatestSignal("sigreload", DefaultConf.sigreload)

(* A value of the arguments key which is a list: its quotes are closed, and  *)
(* it has a word.                                                            *)
IsList(v) == v # NULL /\ Expanded!Whole(v).mode = "END" /\ Expanded!Whole(v).words # << >>
ListOf(v) == Expanded!Whole(v).words

ArgumentsAsMeant == conf.arguments = Latest("arguments", IsList, ListOf, << >>)

EnvironmentAsMeant ==
  /\ Len(conf.environment) = Cardinality(LinesOf(Environment))
  /\ \A i \in LinesOf(Environment) : conf.environment[Rank(i)] = Environ(i)

StartAsMeant ==
  conf.start = UNION {StartFlags(Key(i)) : i \in {j \in LinesOf(Start) : Value(j) = NULL}}

NoneMisread == \A i \in 1..line - 1 : ~Misread(file[i])

(* Between two lines the configuration is what the lines before mean: every  *)
(* key is looked for in its own section only, its last valid value counts,   *)
(* also where arguments that are not closed come after valid ones, start     *)
(* keys add up, the environment is in order (daemon_conf.c:774).             *)
FileMeans ==
  parse = "reading" /\ NoneMisread =>
    GeneralAsMeant /\ ArgumentsAsMeant /\ EnvironmentAsMeant /\ StartAsMeant

(* A list whose words are between double quotes, with a backslash before a   *)
(* quote or a backslash (daemon_conf.c:211), is read as it was, whatever     *)
(* else is in the words, and kept until another line replaces it.            *)
QuotedIsKept ==
  LET text == Latest("arguments", LAMBDA v : v # NULL, LAMBDA v : v, << >>) IN
  parse = "reading" /\ NoneMisread /\ text # << >> =>
    \A ws \in Lists : text = QuotedList(ws) => conf.arguments = ws
=============================================================================
