----------------------------- MODULE Connection -----------------------------
(***************************************************************************)
(* socket_connection_node.c: the parser of the bytes a client sends, with  *)
(* the endpoints it creates (socket_endpoint_node.c) and the messages of   *)
(* cyberctl.c.                                                             *)
(*                                                                         *)
(* Connections share nothing but the endpoints, so one is followed at a    *)
(* time, each made with an endpoint an earlier one may have created.  Its  *)
(* client is cyberctl, or any program.  cyberctl writes one message, of    *)
(* which a read may return any part: name_fill works for a name that comes *)
(* in one part, so it is recorded whether a read ended within the name.    *)
(* A byte is chosen when the parser looks at it, unless cyberctl wrote it: *)
(* what an unknown client sent, and what is in memory behind the bytes     *)
(* which were received, may be anything.                                   *)
(*                                                                         *)
(* A capset_t is the set of its bits; names and words are sequences of     *)
(* bytes, a name with its terminator.                                      *)
(*                                                                         *)
(* An operator named Wrong... is a bug which the one after it does not     *)
(* have: no module uses it, it is there to be put in its place, so that    *)
(* the properties are seen to fail.                                        *)
(***************************************************************************)
EXTENDS Integers, Sequences, FiniteSets

CONSTANTS
  Bytes,         \* what a byte may be, but those of cyberctl's commands and words
  NameMax,       \* NAME_MAX
  BufferSize,    \* CONFIG_SOCKET_CONNECTIONS_BUFFER_SIZE
  LittleEndian,  \* whether ntohl() swaps bytes
  Root,          \* name of the root endpoint
  Asks,          \* the requests cyberctl may be asked for
  MaxCount,      \* bound: bytes the parser is followed over after a read
  MaxEndpoints   \* bound: endpoints in the switch

ASSUME BytesAssumption == Bytes \subseteq 0..255 /\ 0 \in Bytes
ASSUME SizesAssumption ==
  NameMax \in Nat \ {0} /\ BufferSize \in Nat /\ MaxCount \in Nat
ASSUME EndianAssumption == LittleEndian \in BOOLEAN

NUL == 0
Dot == 46
Slash == 47

(* capabilities.h: a command is the index of its capability. *)
ENDPOINT_CREATE == 0
DaemonCommands == 1..4
SystemCommands == 5..8
CAPSET_ALL == 0..8

(* What parser->name can hold, its terminator included.                      *)
Names == UNION {[1..n -> Bytes] : n \in 0..(NameMax + 1)}

(* A string: bytes up to a nul. *)
IsString(s) == s # << >> /\ \A i \in 1..Len(s) : s[i] = NUL <=> i = Len(s)

CONSTANT NoRequest
ASSUME AsksAssumption ==
  \A r \in Asks :
    /\ r # NoRequest /\ r.command \in CAPSET_ALL /\ r.capabilities \subseteq CAPSET_ALL
    /\ r.name \in Seq(Bytes) /\ IsString(r.name)
    /\ r.command \in SystemCommands => r.name = <<NUL>>
ASSUME RootAssumption == Root \in Names

VARIABLES
  endpoints,     \* endpoints in the switch: [name, capabilities]
  paths,         \* those whose socket is in the file system
  capabilities,  \* parser->capabilities
  state,         \* parser->state
  word,          \* the bytes of a capability set which were parsed
  name,          \* the bytes of a name which were parsed
  count,         \* how many bytes parser_feed() believes are left
  known,         \* those of them which are cyberctl's
  asked,         \* what cyberctl was asked for, NoRequest for another client
  wire,          \* what cyberctl wrote and was not read
  torn,          \* history: a read ended within the name cyberctl wrote
  executed       \* history: the requests executed for cyberctl since it
                 \* connected, for another client since the last read

endpointVars == <<endpoints, paths>>
parserVars   == <<capabilities, state, word, name>>
inputVars    == <<count, known>>
clientVars   == <<asked, wire, torn>>
vars == <<endpointVars, parserVars, inputVars, clientVars, executed>>

DaemonName == <<"DAEMON_START_NAME", "DAEMON_STOP_NAME",
                "DAEMON_RELOAD_NAME", "DAEMON_END_NAME">>

(* socket_switch_setup: the root endpoint has all capabilities. *)
Init ==
  /\ endpoints = {[name |-> Root, capabilities |-> CAPSET_ALL]}
  /\ paths = endpoints
  /\ capabilities = {} /\ state = "INVALID" /\ word = << >> /\ name = << >>
  /\ count = 0 /\ known = << >>
  /\ asked = NoRequest /\ wire = << >> /\ torn = FALSE /\ executed = {}

-----------------------------------------------------------------------------
(* The client. *)

(* A byte whose bits are B. *)
Octet(B) ==
  LET Bit(b, value) == IF b \in B THEN value ELSE 0 IN
  Bit(0, 1) + Bit(1, 2) + Bit(2, 4) + Bit(3, 8) + Bit(4, 16) + Bit(5, 32) + Bit(6, 64) + Bit(7, 128)

(* htonl(): the bytes of a capability set, the most significant first.       *)
NetworkOrder(capset) ==
  [i \in 1..4 |-> Octet({b \in 0..7 : 8 * (4 - i) + b \in capset})]

(* initctl_endpoint_create, initctl_daemon and initctl_system. *)
Message(r) ==
  CASE r.command = ENDPOINT_CREATE  -> <<r.command>> \o NetworkOrder(r.capabilities) \o r.name
    [] r.command \in DaemonCommands -> <<r.command>> \o r.name
    [] r.command \in SystemCommands -> <<r.command>>

(* socket_endpoint_node_operate, socket_connection_node_create: a client     *)
(* connects to an endpoint it finds in the file system.                      *)
Connect(e, r) ==
  /\ count = 0 /\ wire = << >>
  /\ capabilities' = e.capabilities
  /\ state' = "COMMAND" /\ word' = << >> /\ name' = << >>
  /\ asked' = r
  /\ wire' = IF r = NoRequest THEN << >> ELSE Message(r)
  /\ known' = << >> /\ torn' = FALSE /\ executed' = {}
  /\ UNCHANGED <<endpointVars, count>>

Min(a, b) == IF a < b THEN a ELSE b
Behind(s, n) == SubSeq(s, n + 1, Len(s))

(* Wrong: what is read is taken for the beginning of a message.              *)
WrongGoOn == state' = "COMMAND" /\ UNCHANGED <<capabilities, word, name>>

(* The parser is in the node: it goes on where the last read left it.        *)
GoOn == UNCHANGED parserVars

(* socket_connection_node_operate: read returns some of the bytes which were *)
(* sent, as many as the buffer takes or less.                                *)
Read ==
  /\ count = 0
  /\ IF asked = NoRequest
     THEN /\ count' \in 1..BufferSize /\ known' = << >> /\ executed' = {}
          /\ UNCHANGED <<wire, torn>>
     ELSE /\ count' \in 1..Min(Len(wire), BufferSize)
          /\ known' = SubSeq(wire, 1, count') /\ wire' = Behind(wire, count')
          /\ torn' = (torn \/ Len(wire') \in 1..(Len(asked.name) - 1))
          /\ UNCHANGED executed
  /\ GoOn
  /\ UNCHANGED <<endpointVars, asked>>

-----------------------------------------------------------------------------
(* parser_feed. *)

(* What the byte at *buffer may be. *)
Offered == IF known = << >> THEN Bytes ELSE {Head(known)}

(* One byte is consumed. *)
Consume == count # 0 /\ count' = count - 1 /\ known' = Behind(known, 1)

(* (capset_t)1 << byte.  Where the byte is no less than the width, a machine *)
(* shifts by its low bits, or shifts everything out.                         *)
Shifted(b) == IF b < 32 THEN {{b}} ELSE {{b % 32}, {}}

Execute(command, nm) == executed' = executed \cup {[command |-> command, name |-> nm]}

(* parser_feed_command, with those of the command's bits which are allowed.  *)
Feed(allowed) ==
  /\ \/ /\ allowed = {}
        /\ state' = "INVALID" /\ UNCHANGED <<word, name, executed>>
     \/ /\ ENDPOINT_CREATE \in allowed
        /\ state' = "ENDPOINT_CREATE_CAPABILITIES" /\ word' = << >>
        /\ UNCHANGED <<name, executed>>
     \/ /\ \E c \in allowed \cap DaemonCommands : state' = DaemonName[c]
        /\ name' = << >> /\ UNCHANGED <<word, executed>>
     \/ /\ \E c \in allowed \cap SystemCommands : Execute(c, <<NUL>>)
        /\ UNCHANGED <<state, word, name>>
     \/ /\ allowed \ CAPSET_ALL # {}
        /\ state' = "ABORTED" /\ UNCHANGED <<word, name, executed>>
  /\ UNCHANGED <<endpointVars, capabilities, clientVars>>

(* Wrong: system commands are executed without a look at the capability.     *)
WrongFeedCommand(capability) == Feed(capability \cap (capabilities \cup SystemCommands))

(* Wrong: any connection may create endpoints, as they get none of its       *)
(* capabilities which it has not.                                            *)
WrongFeedCreate(capability) == Feed(capability \cap (capabilities \cup {ENDPOINT_CREATE}))

(* The bit of the command tells whether it is allowed, and which one it is;  *)
(* system commands go to queue_reboot at once.                               *)
FeedCommand(capability) == Feed(capability \cap capabilities)

ParseCommand ==
  /\ state = "COMMAND"
  /\ Consume
  /\ \E b \in Offered : \E capability \in Shifted(b) : FeedCommand(capability)

ParseCapabilities ==
  /\ state = "ENDPOINT_CREATE_CAPABILITIES"
  /\ Consume
  /\ \E b \in Offered : word' = Append(word, b)
  /\ IF Len(word') = 4
     THEN state' = "ENDPOINT_CREATE_NAME" /\ name' = << >>
     ELSE UNCHANGED <<state, name>>
  /\ UNCHANGED <<endpointVars, capabilities, clientVars, executed>>

(* name_fill takes the bytes up to the first nul, or all of them.  Of those  *)
(* which do not fit in a name no more than one is looked at.                 *)
Strings == {text \in UNION {[1..n -> Bytes] : n \in 1..(NameMax + 2)} :
              \A i \in 1..(Len(text) - 1) : text[i] # NUL}

Texts ==
  {text \in Strings :
     /\ Len(text) <= count
     /\ text[Len(text)] = NUL \/ Len(text) = Min(count, NameMax + 2)
     /\ \A i \in 1..Min(Len(text), Len(known)) : text[i] = known[i]}

(* Wrong: there is no room for the terminator.                               *)
WrongFits(text) == \A i \in 1..Len(text) : text[i] # Slash

(* name_fill: a text which does not fit, or with a '/', is refused.          *)
Fits(text) ==
  /\ Len(name) + Len(text) <= NameMax + 1
  /\ \A i \in 1..Len(text) : text[i] # Slash

(* The parser has no use for the word and the name it has any more. *)
Forget == word' = << >> /\ name' = << >>

Refuse ==
  /\ ~ \A text \in Texts : Fits(text)
  /\ state' = "INVALID" /\ Forget
  /\ UNCHANGED <<endpointVars, capabilities, inputVars, clientVars, executed>>

(* name_fill: the text is appended to the name, and its length to the count  *)
(* of the bytes which are left.                                              *)
NameFill(text) ==
  /\ Fits(text)
  /\ count' = Min(count + Len(text), MaxCount)
  /\ known' = Behind(known, Len(text))
  /\ UNCHANGED <<capabilities, clientVars>>

Complete(nm) == nm[Len(nm)] = NUL

(* parser_feed_daemon_name: the action is executed, on the daemon which      *)
(* configuration_find finds by that name.                                    *)
ParseDaemonName ==
  /\ count # 0
  /\ \E c \in DaemonCommands :
       /\ state = DaemonName[c]
       /\ \/ Refuse
          \/ \E text \in Texts :
               LET nm == name \o text IN
               /\ NameFill(text)
               /\ IF Complete(nm)
                  THEN Execute(c, nm) /\ state' = "COMMAND" /\ Forget
                  ELSE name' = nm /\ UNCHANGED <<executed, state, word>>
               /\ UNCHANGED endpointVars

(* The powers of two, by the place of a bit in its byte. *)
Weight == <<1, 2, 4, 8, 16, 32, 64, 128>>

(* The bits of a word whose bytes are w, the least significant first.        *)
Bits(w) == {b \in 0..31 : (w[1 + b \div 8] \div Weight[1 + (b % 8)]) % 2 = 1}

BigEndian(w) == Bits(<<w[4], w[3], w[2], w[1]>>)

(* The first byte is shifted to the most significant place, which is already *)
(* what ntohl() has to do.                                                   *)
Capset(w) == IF LittleEndian THEN Bits(w) ELSE BigEndian(w)

(* Wrong: the endpoint gets what was asked for.                              *)
WrongGranted == Capset(word)

(* Wrong: the endpoint gets all that its creator has.                        *)
WrongAllGranted == capabilities

(* An endpoint has no capability which the one it was created with has not.  *)
Granted == Capset(word) \cap capabilities

(* socket_endpoint_node_create: bind fails where there is a socket already,  *)
(* and whatever has failed from then on, the path is unlinked.  Creation may *)
(* fail before or after bind (socket, the path's length, listen).            *)
EndpointCreate(nm) ==
  \/ /\ \A e \in paths : e.name # nm
     /\ Cardinality(endpoints) < MaxEndpoints
     /\ LET endpoint == [name |-> nm, capabilities |-> Granted] IN
        endpoints' = endpoints \cup {endpoint} /\ paths' = paths \cup {endpoint}
  \/ paths' = {e \in paths : e.name # nm} /\ UNCHANGED endpoints
  \/ UNCHANGED endpointVars

(* parser_feed_endpoint_create_name *)
ParseEndpointName ==
  /\ state = "ENDPOINT_CREATE_NAME" /\ count # 0
  /\ \/ Refuse
     \/ \E text \in Texts :
          LET nm == name \o text IN
          /\ NameFill(text)
          /\ IF Complete(nm)
             THEN /\ state' = "COMMAND" /\ Forget
                  /\ IF Granted # {} /\ nm[1] \notin {NUL, Dot}
                     THEN EndpointCreate(nm)
                     ELSE UNCHANGED endpointVars
             ELSE name' = nm /\ UNCHANGED <<state, word, endpointVars>>
          /\ UNCHANGED executed

ParseInvalid ==
  /\ state = "INVALID" /\ count # 0
  /\ count' = 0 /\ known' = << >>
  /\ UNCHANGED <<endpointVars, parserVars, clientVars, executed>>

Operate ==
  \/ Read
  \/ ParseCommand \/ ParseCapabilities
  \/ ParseDaemonName \/ ParseEndpointName \/ ParseInvalid

Next == (\E e \in paths, r \in Asks \cup {NoRequest} : Connect(e, r)) \/ Operate

Spec == Init /\ [][Next]_vars

-----------------------------------------------------------------------------
(* Properties. *)

Capset32 == SUBSET (0..31)
Endpoints == [name : Names, capabilities : Capset32]
Words == {w \in Seq(0..255) : Len(w) <= 4}
Requests == [command : DaemonCommands \cup SystemCommands, name : Names]

(* The name has room for what name_fill copies into it. *)
TypeOK ==
  /\ endpoints \subseteq Endpoints /\ paths \subseteq endpoints
  /\ capabilities \in Capset32
  /\ state \in {"COMMAND", "ENDPOINT_CREATE_CAPABILITIES", "ENDPOINT_CREATE_NAME",
                "INVALID", "ABORTED"} \cup {DaemonName[c] : c \in DaemonCommands}
  /\ word \in Words
  /\ name \in Names
  /\ count \in Nat /\ known \in Seq(0..255)
  /\ asked = NoRequest \/ asked \in Asks
  /\ wire \in Seq(0..255) /\ torn \in BOOLEAN
  /\ executed \subseteq Requests

(* The abort() of parser_feed_command is not reached, whatever is sent, and  *)
(* whatever capability sets the endpoints were created with: a byte beyond   *)
(* the commands is one of no capability an endpoint has.                     *)
NeverAborts == state # "ABORTED"

(* docs/endpoints.md:5, capabilities "determine which commands cyberd will   *)
(* accept from connections made with this endpoint", also over the bytes     *)
(* behind the message, and over a chain of endpoints created one with the    *)
(* other: what is executed, or granted on, the connection was allowed.       *)
Attenuated ==
  [][/\ \A r \in executed' \ executed : r.command \in capabilities
     /\ \A e \in endpoints' \ endpoints : e.capabilities \subseteq capabilities]_vars

Done(r) == [command |-> r.command, name |-> r.name]

(* A name which name_fill accepts.  It may have no byte, or NAME_MAX bytes,  *)
(* before its terminator: docs/endpoints.md:15 has neither.                  *)
Accepted(nm) == Len(nm) <= NameMax + 1 /\ \A i \in 1..Len(nm) : nm[i] # Slash

(* cyberctl is served however reads split what it sends, but for a name of   *)
(* which a read returns a part: what it asks of a daemon or of the system is *)
(* executed, if the endpoint allows it and the name is accepted, before      *)
(* anything else is; and if not, nothing is.                                 *)
Obeyed ==
  /\ asked # NoRequest /\ asked.command # ENDPOINT_CREATE /\ ~torn
  /\ wire = << >> /\ (count = 0 \/ executed # {})
  => IF /\ asked.command \in capabilities
        /\ asked.command \in DaemonCommands => Accepted(asked.name)
     THEN Done(asked) \in executed ELSE executed = {}

(* What cyberctl writes makes no other endpoint than the one it was asked    *)
(* for, with those of the capabilities asked for which its creator has,      *)
(* however reads split it, but within the name.  Where ntohl swaps bytes it  *)
(* makes none: the capabilities asked for become others, which none has.     *)
CreatedAsAsked ==
  [][asked # NoRequest /\ ~torn /\ known # << >> =>
       \A e \in endpoints' \ endpoints :
         /\ ~LittleEndian
         /\ e.name = asked.name /\ e.capabilities = asked.capabilities \cap capabilities]_vars

(* A creation which fails unlinks the path, also that of an endpoint which   *)
(* was there before (socket_endpoint_node.c:116).  No client takes an        *)
(* endpoint out of the file system but through one that allows creations,    *)
(* and never two at once.                                                    *)
PathsKept ==
  [][\A e \in paths \ paths' :
       ENDPOINT_CREATE \in capabilities /\ \A f \in paths \ paths' : f.name = e.name]_vars

-----------------------------------------------------------------------------
(* What the documentation says, and the code does not do. *)

(* docs/endpoints.md:4, "the program requests actions to cyberd": what was   *)
(* not requested is not executed.                                            *)
OnlyAsked == asked # NoRequest => executed \subseteq {Done(asked)}

(* docs/endpoints.md:14, "Four bytes, MSB (big endian)": an endpoint has the *)
(* capabilities of its creator among those which the word says.              *)
MostSignificantFirst ==
  [][\A e \in endpoints' \ endpoints : e.capabilities = BigEndian(word) \cap capabilities]_vars

=============================================================================
