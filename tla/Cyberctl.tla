------------------------------ MODULE Cyberctl ------------------------------
(***************************************************************************)
(* cyberctl.c: from the words of a command line to the message which       *)
(* cyberd's parser gets, or to the usage.                                  *)
(*                                                                         *)
(* A command line is a sequence of words, the first of which is the last   *)
(* component of the program's path: the program is installed under several *)
(* names.  An option is a word of its own, as is its operand; options come *)
(* before operands, as getopt(3) has it in POSIX.                          *)
(***************************************************************************)
EXTENDS Connection

CONSTANTS
  CommandLines,  \* what may be typed
  Spelled,       \* the strings which words are
  Usage          \* the program ends with a message of its own

Commands ==
  <<"create-endpoint", "start", "stop", "reload", "end", "poweroff", "halt", "reboot", "suspend">>

(* initctl_command_id: the index of a command, or one beyond them.           *)
CommandId(w) ==
  IF \E id \in CAPSET_ALL : Commands[id + 1] = w
  THEN CHOOSE id \in CAPSET_ALL : Commands[id + 1] = w
  ELSE Len(Commands)

Request(endpoint, id, capset, s) ==
  [endpoint |-> endpoint, command |-> id, capabilities |-> capset, name |-> s]

SystemRequest(command) == Request(Root, CommandId(command), {}, <<NUL>>)

(* The bits of 1 << initctl_command_id(w) for the words behind the first     *)
(* one, which include the name of the endpoint.                              *)
Capabilities(words) == {CommandId(words[i]) : i \in 2..Len(words)}

(* initctl_main, behind its options. *)
InitctlCommand(words, endpoint) ==
  LET id == CommandId(words[1])
      right == CASE id = ENDPOINT_CREATE  -> Len(words) >= 3 /\ Capabilities(words) \subseteq CAPSET_ALL
                 [] id \in DaemonCommands -> Len(words) = 2
                 [] id \in SystemCommands -> Len(words) = 1
                 [] OTHER -> FALSE IN
  CASE ~right -> Usage
    [] right /\ id \in SystemCommands -> Request(endpoint, id, {}, <<NUL>>)
    [] right /\ id \notin SystemCommands ->
         Request(endpoint, id, IF id = ENDPOINT_CREATE THEN Capabilities(words) ELSE {},
                 Spelled[words[2]])

Dashed == {"-c", "-H", "-P", "-r", "-x"}

(* How many words come before the first one that is not at a place of opts.  *)
Leading(words, opts) ==
  CHOOSE n \in 0..Len(words) :
    /\ 1..n \subseteq opts
    /\ n < Len(words) => n + 1 \notin opts

(* initctl_main: the last -c counts. *)
Initctl(words) ==
  LET options == Leading(words, {i \in 1..Len(words) :
                                   i % 2 = 0 \/ (words[i] = "-c" /\ i < Len(words))})
      rest == Behind(words, options) IN
  IF rest = << >> \/ rest[1] \in Dashed THEN Usage
  ELSE InitctlCommand(rest, IF options = 0 THEN Root ELSE Spelled[words[options]])

ShutdownCommand == [o \in {"-H", "-P", "-r"} |->
  CASE o = "-H" -> "halt" [] o = "-P" -> "poweroff" [] o = "-r" -> "reboot"]

(* shutdown_main: the last option counts; operands are not looked at.        *)
Shutdown(words) ==
  LET n == Leading(words, {i \in 1..Len(words) : words[i] \in DOMAIN ShutdownCommand}) IN
  IF n < Len(words) /\ words[n + 1] \in Dashed THEN Usage
  ELSE SystemRequest(IF n = 0 THEN "poweroff" ELSE ShutdownCommand[words[n]])

(* main: the name under which the program is run decides.                    *)
Main(line) ==
  CASE line[1] \in {"halt", "reboot", "suspend", "poweroff"} ->
         SystemRequest(line[1])
    [] line[1] = "shutdown" -> Shutdown(Tail(line))
    [] OTHER -> Initctl(Tail(line))

(* What cyberctl asks for, where it does not end with the usage.             *)
Typed == {Main(line) : line \in CommandLines} \ {Usage}

ASSUME TypedAssumption == Typed \subseteq Asks

(* initctl_open: the endpoint is the one of that name in the file system.    *)
Invoke(r) == \E e \in paths : e.name = r.endpoint /\ Connect(e, r)

CyberctlNext ==
  \/ \E r \in Typed : Invoke(r)
  \/ \E e \in paths : Connect(e, NoRequest)
  \/ Operate

CyberctlSpec == Init /\ [][CyberctlNext]_vars
=============================================================================
