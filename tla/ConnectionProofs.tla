-------------------------- MODULE ConnectionProofs --------------------------
(***************************************************************************)
(* Theorems about Connection, for any bytes, any sizes, both byte orders   *)
(* and any number of endpoints; the last one is about Cyberctl.            *)
(***************************************************************************)
EXTENDS Cyberctl, SequenceTheorems, TLAPS

Creating == {"ENDPOINT_CREATE_CAPABILITIES", "ENDPOINT_CREATE_NAME"}

(* Capabilities come from the root endpoint, and the parser is in a state of *)
(* a command only if the connection is allowed that command.                 *)
CapabilitiesInv ==
  /\ \A e \in endpoints : e.capabilities \subseteq CAPSET_ALL
  /\ paths \subseteq endpoints
  /\ capabilities \subseteq CAPSET_ALL
  /\ \A c \in DaemonCommands : state = DaemonName[c] => c \in capabilities
  /\ state \in Creating => ENDPOINT_CREATE \in capabilities
  /\ NeverAborts

(* What a step of a connection may do. *)
Allowed ==
  /\ \A r \in executed' \ executed : r.command \in capabilities
  /\ \A e \in endpoints' \ endpoints : e.capabilities \subseteq capabilities
  /\ \A e \in paths \ paths' :
       ENDPOINT_CREATE \in capabilities /\ \A f \in paths \ paths' : f.name = e.name

(* The states of parser_feed_daemon_name are those of their commands, and no *)
(* others.                                                                   *)
LEMMA DaemonStates ==
  \A c \in DaemonCommands :
    /\ DaemonName[c] \notin {"COMMAND", "ENDPOINT_CREATE_CAPABILITIES",
                             "ENDPOINT_CREATE_NAME", "INVALID", "ABORTED"}
    /\ \A d \in DaemonCommands : DaemonName[c] = DaemonName[d] => c = d
<1>1. \A c \in DaemonCommands : c = 1 \/ c = 2 \/ c = 3 \/ c = 4
  BY DEF DaemonCommands
<1>2. /\ DaemonName[1] = "DAEMON_START_NAME" /\ DaemonName[2] = "DAEMON_STOP_NAME"
      /\ DaemonName[3] = "DAEMON_RELOAD_NAME" /\ DaemonName[4] = "DAEMON_END_NAME"
  BY DEF DaemonName
<1>. QED BY <1>1, <1>2

(* parser_feed_command executes, or expects the name for, a command whose    *)
(* bit is among the connection's, and none of those abort() is for.          *)
LEMMA FeedAllowed ==
  ASSUME CapabilitiesInv, state = "COMMAND",
         NEW capability, FeedCommand(capability)
  PROVE  CapabilitiesInv' /\ Allowed
<1>. DEFINE allowed == capability \cap capabilities
<1>1. allowed \subseteq CAPSET_ALL
  BY DEF CapabilitiesInv
<1>2. UNCHANGED <<endpointVars, capabilities>>
  BY DEF FeedCommand, Feed
<1>3. CASE /\ \/ state' = "INVALID"
              \/ state' = "ENDPOINT_CREATE_CAPABILITIES" /\ ENDPOINT_CREATE \in allowed
           /\ UNCHANGED executed
  BY <1>2, <1>3, DaemonStates DEF CapabilitiesInv, Creating, NeverAborts, Allowed, endpointVars
<1>4. ASSUME NEW c \in allowed \cap DaemonCommands,
             state' = DaemonName[c], UNCHANGED executed
      PROVE  CapabilitiesInv' /\ Allowed
  BY <1>2, <1>4, DaemonStates DEF CapabilitiesInv, Creating, NeverAborts, Allowed, endpointVars
<1>5. ASSUME NEW c \in allowed \cap SystemCommands,
             Execute(c, <<NUL>>), UNCHANGED state
      PROVE  CapabilitiesInv' /\ Allowed
  BY <1>2, <1>5, DaemonStates DEF CapabilitiesInv, Creating, NeverAborts, Allowed, endpointVars, Execute
<1>. QED BY <1>1, <1>3, <1>4, <1>5 DEF FeedCommand, Feed

(* parser_feed_endpoint_create_name: what is created has a subset of the     *)
(* connection's capabilities.                                                *)
LEMMA CreateAllowed ==
  ASSUME CapabilitiesInv, NEW nm, EndpointCreate(nm)
  PROVE  /\ \A e \in endpoints' : e.capabilities \subseteq CAPSET_ALL
         /\ paths' \subseteq endpoints'
         /\ \A e \in endpoints' \ endpoints : e.capabilities \subseteq capabilities
         /\ \A e, f \in paths \ paths' : e.name = f.name
<1>1. Granted \subseteq capabilities
  BY DEF Granted
<1>. QED BY <1>1 DEF EndpointCreate, CapabilitiesInv, endpointVars

(* No step executes or creates more than the connection's capabilities       *)
(* allow, so none makes an endpoint with a capability beyond the commands.   *)
LEMMA NextAllowed ==
  ASSUME CapabilitiesInv, [Next]_vars
  PROVE  CapabilitiesInv' /\ Allowed
<1>1. ASSUME NEW e \in paths, NEW r, Connect(e, r) PROVE CapabilitiesInv' /\ Allowed
  BY <1>1, DaemonStates DEF Connect, CapabilitiesInv, Creating, NeverAborts, Allowed, endpointVars
<1>2. CASE Read
  BY <1>2 DEF Read, GoOn, CapabilitiesInv, Creating, NeverAborts, Allowed, endpointVars, parserVars
<1>3. CASE ParseCommand
  BY <1>3, FeedAllowed DEF ParseCommand
<1>4. CASE ParseCapabilities
  <2>1. state' \in {"ENDPOINT_CREATE_CAPABILITIES", "ENDPOINT_CREATE_NAME"}
    BY <1>4 DEF ParseCapabilities
  <2>. QED BY <1>4, <2>1, DaemonStates
       DEF ParseCapabilities, CapabilitiesInv, Creating, NeverAborts, Allowed, endpointVars
<1>5. CASE ParseDaemonName
  <2>1. PICK c \in DaemonCommands :
          /\ state = DaemonName[c]
          /\ \/ Refuse
             \/ /\ UNCHANGED <<endpointVars, capabilities>>
                /\ \/ \E nm : Execute(c, nm) /\ state' = "COMMAND"
                   \/ UNCHANGED <<executed, state>>
    BY <1>5 DEF ParseDaemonName, NameFill
  <2>2. c \in capabilities
    BY <2>1 DEF CapabilitiesInv
  <2>. QED BY <2>1, <2>2, DaemonStates
       DEF Refuse, Execute, CapabilitiesInv, Creating, NeverAborts, Allowed, endpointVars
<1>6. CASE ParseEndpointName
  <2>1. CASE Refuse
    BY <2>1, DaemonStates DEF Refuse, CapabilitiesInv, Creating, NeverAborts, Allowed, endpointVars
  <2>2. CASE ~Refuse
    <3>1. capabilities' = capabilities /\ executed' = executed
      BY <1>6, <2>2 DEF ParseEndpointName, NameFill
    <3>2. state' \in {"COMMAND", "ENDPOINT_CREATE_NAME"}
      BY <1>6, <2>2 DEF ParseEndpointName
    <3>3. UNCHANGED endpointVars \/ \E nm : EndpointCreate(nm)
      BY <1>6, <2>2 DEF ParseEndpointName
    <3>4. ENDPOINT_CREATE \in capabilities
      BY <1>6 DEF ParseEndpointName, CapabilitiesInv, Creating
    <3>5. /\ \A e \in endpoints' : e.capabilities \subseteq CAPSET_ALL
          /\ paths' \subseteq endpoints'
          /\ \A e \in endpoints' \ endpoints : e.capabilities \subseteq capabilities
          /\ \A e, f \in paths \ paths' : e.name = f.name
      BY <3>3, CreateAllowed DEF CapabilitiesInv, endpointVars
    <3>6. CapabilitiesInv'
      BY <3>1, <3>2, <3>4, <3>5, DaemonStates DEF CapabilitiesInv, Creating, NeverAborts
    <3>. QED BY <3>1, <3>4, <3>5, <3>6 DEF Allowed
  <2>. QED BY <2>1, <2>2
<1>7. CASE ParseInvalid
  BY <1>7 DEF ParseInvalid, CapabilitiesInv, Creating, NeverAborts, Allowed, endpointVars, parserVars
<1>8. CASE UNCHANGED vars
  BY <1>8 DEF vars, CapabilitiesInv, Creating, NeverAborts, Allowed, endpointVars, parserVars
<1>. QED BY <1>1, <1>2, <1>3, <1>4, <1>5, <1>6, <1>7, <1>8 DEF Next, Operate

(* Only the root endpoint exists at first.                                   *)
LEMMA InitAllowed == Init => CapabilitiesInv
BY DaemonStates DEF Init, CapabilitiesInv, Creating, NeverAborts

(* The abort() of parser_feed_command is unreachable: cyberd, which is the   *)
(* init process, does not end by it whatever its clients send.               *)
THEOREM ParserNeverAborts == Spec => []NeverAborts
<1>1. CapabilitiesInv => NeverAborts
  BY DEF CapabilitiesInv
<1>. QED BY <1>1, InitAllowed, NextAllowed, PTL DEF Spec

(* Capabilities are only ever narrowed, along any chain of endpoints, and    *)
(* decide what is executed (parser_feed_command,                             *)
(* parser_feed_endpoint_create_name).                                        *)
THEOREM CapabilitiesNarrow == Spec => Attenuated
<1>1. CapabilitiesInv /\ [Next]_vars => [Allowed]_vars
  BY NextAllowed
<1>. QED BY <1>1, InitAllowed, NextAllowed, PTL DEF Spec, Attenuated, Allowed

(* No client takes a path out of the file system but through an endpoint     *)
(* which allows creations (socket_endpoint_node_create unlinks what it could *)
(* not bind).                                                                *)
THEOREM PathsAreKept == Spec => PathsKept
<1>1. CapabilitiesInv /\ [Next]_vars => [Allowed]_vars
  BY NextAllowed
<1>. QED BY <1>1, InitAllowed, NextAllowed, PTL DEF Spec, PathsKept, Allowed

-----------------------------------------------------------------------------
(* Types.  The one which is not obvious is that of the name: what name_fill  *)
(* appends, part by part, fits in it.                                        *)

(* How far the parser is in the word of a capability set.                    *)
WordInv ==
  /\ state = "ENDPOINT_CREATE_CAPABILITIES" => Len(word) < 4
  /\ state = "ENDPOINT_CREATE_NAME" => Len(word) = 4

TypeInv == TypeOK /\ WordInv

(* A name is a sequence of bytes no longer than the buffer.                  *)
LEMMA NamesAreSeqs == Names = {s \in Seq(Bytes) : Len(s) <= NameMax + 1}
<1>1. ASSUME NEW s \in Names PROVE s \in Seq(Bytes) /\ Len(s) <= NameMax + 1
  <2>1. PICK n \in 0..(NameMax + 1) : s \in [1..n -> Bytes]
    BY DEF Names
  <2>2. n \in Nat /\ n <= NameMax + 1
    BY SizesAssumption
  <2>. QED BY <2>1, <2>2
<1>2. ASSUME NEW s \in Seq(Bytes), Len(s) <= NameMax + 1 PROVE s \in Names
  <2>1. s \in [1..Len(s) -> Bytes] /\ Len(s) \in 0..(NameMax + 1)
    BY <1>2, LenProperties, SizesAssumption
  <2>. QED BY <2>1 DEF Names
<1>. QED BY <1>1, <1>2

(* What the parser looks at is a sequence of bytes.                          *)
LEMMA TextsAreSeqs == \A text \in Texts : text \in Seq(Bytes) /\ Len(text) \in Nat \ {0}
<1>1. ASSUME NEW text \in Texts PROVE text \in Seq(Bytes) /\ Len(text) \in Nat \ {0}
  <2>1. PICK n \in 1..(NameMax + 2) : text \in [1..n -> Bytes]
    BY DEF Texts, Strings
  <2>2. n \in Nat \ {0}
    BY SizesAssumption
  <2>. QED BY <2>1, <2>2
<1>. QED BY <1>1

(* name_fill's test leaves room for the text, and for the terminator in it.  *)
LEMMA FitsInName ==
  ASSUME name \in Names, NEW text \in Texts, Fits(text)
  PROVE  name \o text \in Names
<1>1. name \in Seq(Bytes) /\ text \in Seq(Bytes)
  BY NamesAreSeqs, TextsAreSeqs
<1>2. name \o text \in Seq(Bytes) /\ Len(name \o text) = Len(name) + Len(text)
  BY <1>1, ConcatProperties
<1>. QED BY <1>2, NamesAreSeqs DEF Fits

(* What is left of a sequence when its first n elements were taken.          *)
LEMMA BehindType ==
  ASSUME NEW s \in Seq(0..255), NEW n \in Nat
  PROVE  Behind(s, n) \in Seq(0..255)
<1>1. Len(s) \in Int /\ n + 1 \in Int
  BY LenProperties
<1>2. ASSUME NEW i \in (n + 1)..Len(s) PROVE s[i] \in 0..255
  <2>1. i \in 1..Len(s)
    BY <1>1
  <2>. QED BY <2>1, ElementOfSeq
<1>3. SubSeq(s, n + 1, Len(s)) \in Seq(0..255)
  BY ONLY <1>1, <1>2, SubSeqProperties
<1>. QED BY <1>3 DEF Behind

(* The first bytes of a sequence, and those which are behind them.           *)
LEMMA PartTypes ==
  ASSUME NEW s \in Seq(0..255), NEW n \in 1..Len(s)
  PROVE  SubSeq(s, 1, n) \in Seq(0..255) /\ Behind(s, n) \in Seq(0..255) /\ n \in Nat
<1>1. Len(s) \in Nat /\ n \in Nat
  BY LenProperties
<1>2. \A i \in 1..n : s[i] \in 0..255
  <2>1. ASSUME NEW i \in 1..n PROVE i \in 1..Len(s)
    BY <1>1
  <2>. QED BY <2>1, ElementOfSeq
<1>. QED BY <1>1, <1>2, SubSeqProperties, BehindType

(* What is made of some bytes is made of bytes.                              *)
LEMMA OfBytes ==
  ASSUME NEW B, NEW s \in Seq(B), B \subseteq 0..255
  PROVE  s \in Seq(0..255)
<1>. DEFINE D == 0..255
<1>1. B \subseteq D
  OBVIOUS
<1>. HIDE DEF D
<1>2. s \in Seq(D)
  BY <1>1, SeqMonotonic
<1>. QED BY <1>2 DEF D

(* A message of cyberctl is a command and, for a daemon, a name.             *)
LEMMA MessageType ==
  ASSUME NEW r \in Asks
  PROVE  Message(r) \in Seq(0..255)
<1>1. /\ r.command \in 0..255 /\ r.name \in Seq(Bytes)
      /\ r.command = ENDPOINT_CREATE \/ r.command \in DaemonCommands \cup SystemCommands
  BY AsksAssumption DEF CAPSET_ALL, ENDPOINT_CREATE, DaemonCommands, SystemCommands
<1>2. r.name \in Seq(0..255)
  <2>1. r.name \in Seq(Bytes) /\ Bytes \subseteq 0..255
    BY <1>1, BytesAssumption
  <2>. QED BY ONLY <2>1, OfBytes
<1>3. <<r.command>> \in Seq(0..255)
  BY <1>1
<1>4. NetworkOrder(r.capabilities) \in Seq(0..255)
  <2>1. ASSUME NEW B PROVE Octet(B) \in 0..255
    BY DEF Octet
  <2>. QED BY <2>1 DEF NetworkOrder
<1>5. CASE r.command = ENDPOINT_CREATE
  <2>1. r.command \notin DaemonCommands \cup SystemCommands
    BY <1>5 DEF ENDPOINT_CREATE, DaemonCommands, SystemCommands
  <2>. HIDE DEF ENDPOINT_CREATE, DaemonCommands, SystemCommands
  <2>2. Message(r) = (<<r.command>> \o NetworkOrder(r.capabilities)) \o r.name
    BY <1>5, <2>1, Zenon DEF Message
  <2>3. <<r.command>> \o NetworkOrder(r.capabilities) \in Seq(0..255)
    BY <1>3, <1>4, ConcatProperties
  <2>. QED BY <1>2, <2>2, <2>3, ConcatProperties
<1>6. CASE r.command \in DaemonCommands \cup SystemCommands
  <2>1. /\ r.command # ENDPOINT_CREATE
        /\ r.command \in DaemonCommands => r.command \notin SystemCommands
    BY <1>6 DEF ENDPOINT_CREATE, DaemonCommands, SystemCommands
  <2>. HIDE DEF ENDPOINT_CREATE, DaemonCommands, SystemCommands
  <2>2. Message(r) = <<r.command>> \o r.name \/ Message(r) = <<r.command>>
    BY <1>6, <2>1, Zenon DEF Message
  <2>3. <<r.command>> \o r.name \in Seq(0..255)
    BY <1>2, <1>3, ConcatProperties
  <2>. QED BY <1>3, <2>2, <2>3
<1>. QED BY <1>1, <1>5, <1>6

(* Consuming a byte leaves a count of those which are left.                  *)
LEMMA ConsumeType ==
  ASSUME TypeOK, Consume
  PROVE  count' \in Nat /\ known' \in Seq(0..255) /\ Offered \subseteq 0..255
<1>1. count' \in Nat
  BY DEF TypeOK, Consume
<1>2. Offered \subseteq 0..255
  <2>1. known # << >> => Head(known) \in 0..255
    BY HeadTailProperties DEF TypeOK
  <2>. QED BY <2>1, BytesAssumption DEF Offered
<1>. QED BY <1>1, <1>2, BehindType DEF TypeOK, Consume

(* So does consuming a text.                                                 *)
LEMMA NameFillType ==
  ASSUME TypeOK, NEW text \in Texts, NameFill(text)
  PROVE  count' \in Nat /\ known' \in Seq(0..255)
<1>1. count' \in Nat
  BY TextsAreSeqs, SizesAssumption DEF TypeOK, NameFill, Min
<1>. QED BY <1>1, TextsAreSeqs, BehindType DEF TypeOK, NameFill

(* The empty word, the empty name and the name of a system command.          *)
LEMMA EmptyTypes ==
  /\ << >> \in Words /\ Len(<< >>) = 0
  /\ << >> \in Names /\ <<NUL>> \in Names
<1>1. << >> \in Seq(Bytes) /\ << >> \in Seq(0..255) /\ Len(<< >>) = 0
  BY EmptySeq
<1>2. <<NUL>> \in Seq(Bytes) /\ Len(<<NUL>>) = 1
  BY BytesAssumption DEF NUL
<1>. QED BY <1>1, <1>2, NamesAreSeqs, SizesAssumption DEF Words

(* parser_feed_command executes a system command, which has no name.         *)
LEMMA FeedType ==
  ASSUME TypeInv, state = "COMMAND", NEW capability, FeedCommand(capability),
         count' \in Nat, known' \in Seq(0..255)
  PROVE  TypeInv'
<1>1. /\ UNCHANGED <<endpointVars, capabilities, clientVars>>
      /\ word' = word \/ word' = << >>
      /\ name' = name \/ name' = << >>
  BY DEF FeedCommand, Feed
<1>2. executed' \subseteq Requests
  BY EmptyTypes DEF FeedCommand, Feed, Execute, TypeInv, TypeOK, Requests
<1>3. \/ state' \in {"COMMAND", "INVALID", "ABORTED"}
         \cup {DaemonName[c] : c \in DaemonCommands}
      \/ state' = "ENDPOINT_CREATE_CAPABILITIES" /\ word' = << >>
  BY DEF FeedCommand, Feed
<1>4. WordInv'
  BY <1>3, EmptyTypes, DaemonStates DEF WordInv
<1>. QED BY <1>1, <1>2, <1>3, <1>4, EmptyTypes
     DEF TypeInv, TypeOK, endpointVars, clientVars

(* An endpoint which is created has the name which was parsed, and some      *)
(* capabilities of the connection.                                           *)
LEMMA CreateType ==
  ASSUME TypeOK, NEW nm \in Names, EndpointCreate(nm)
  PROVE  endpoints' \subseteq Endpoints /\ paths' \subseteq endpoints'
<1>1. [name |-> nm, capabilities |-> Granted] \in Endpoints
  BY DEF TypeOK, Granted, Endpoints, Capset32
<1>. QED BY <1>1 DEF EndpointCreate, TypeOK, endpointVars

(* Each step keeps the types.                                                *)
LEMMA NextTypes == TypeInv /\ [Next]_vars => TypeInv'
<1>. SUFFICES ASSUME TypeInv, [Next]_vars PROVE TypeInv'
  OBVIOUS
<1>. USE DEF TypeInv
<1>d. USE DEF endpointVars, clientVars, inputVars, parserVars
<1>1. ASSUME NEW e \in paths, NEW r \in Asks \cup {NoRequest}, Connect(e, r) PROVE TypeInv'
  <2>1. e.capabilities \in Capset32
    BY DEF TypeOK, Endpoints
  <2>2. wire' \in Seq(0..255)
    BY <1>1, MessageType, EmptySeq DEF Connect
  <2>. QED BY <1>1, <2>1, <2>2, EmptyTypes DEF Connect, TypeOK, WordInv
<1>2. CASE Read
  <2>1. CASE asked = NoRequest
    <3>1. count' \in 1..BufferSize /\ known' = << >> /\ executed' = {} /\ UNCHANGED <<wire, torn>>
      BY <1>2, <2>1 DEF Read
    <3>2. count' \in Nat
      BY <3>1, SizesAssumption
    <3>. QED BY <1>2, <3>1, <3>2, EmptyTypes DEF Read, GoOn, TypeOK, WordInv
  <2>2. CASE asked # NoRequest
    <3>1. /\ count' \in 1..Min(Len(wire), BufferSize)
          /\ known' = SubSeq(wire, 1, count') /\ wire' = Behind(wire, count')
          /\ torn' \in BOOLEAN /\ UNCHANGED executed
      BY <1>2, <2>2 DEF Read, TypeOK
    <3>2. wire \in Seq(0..255) /\ count' \in 1..Len(wire)
      BY <3>1, LenProperties, SizesAssumption DEF TypeOK, Min
    <3>3. known' \in Seq(0..255) /\ wire' \in Seq(0..255) /\ count' \in Nat
      BY <3>1, <3>2, PartTypes
    <3>. QED BY <1>2, <3>1, <3>3 DEF Read, GoOn, TypeOK, WordInv
  <2>. QED BY <2>1, <2>2
<1>3. CASE ParseCommand
  BY <1>3, ConsumeType, FeedType DEF ParseCommand
<1>4. CASE ParseCapabilities
  <2>1. PICK b \in Offered : word' = Append(word, b)
    BY <1>4 DEF ParseCapabilities
  <2>2. word \in Seq(0..255) /\ Len(word) < 4 /\ b \in 0..255
    BY <1>4, ConsumeType DEF ParseCapabilities, TypeOK, WordInv, Words
  <2>3. word' \in Seq(0..255) /\ Len(word') = Len(word) + 1 /\ Len(word) \in Nat
    BY <2>1, <2>2
  <2>4. word' \in Words
    BY <2>2, <2>3 DEF Words
  <2>5. WordInv'
    BY <1>4, <2>2, <2>3 DEF ParseCapabilities, WordInv
  <2>. QED BY <1>4, <2>1, <2>4, <2>5, ConsumeType, EmptyTypes DEF ParseCapabilities, TypeOK
<1>5. ASSUME Refuse, UNCHANGED endpointVars PROVE TypeInv'
  BY <1>5, EmptyTypes DEF Refuse, Forget, TypeOK, WordInv
<1>6. CASE ParseDaemonName
  <2>1. PICK c \in DaemonCommands :
          /\ state = DaemonName[c]
          /\ \/ Refuse
             \/ \E text \in Texts :
                  LET nm == name \o text IN
                  /\ NameFill(text)
                  /\ IF Complete(nm)
                     THEN Execute(c, nm) /\ state' = "COMMAND" /\ Forget
                     ELSE name' = nm /\ UNCHANGED <<executed, state, word>>
                  /\ UNCHANGED endpointVars
    BY <1>6 DEF ParseDaemonName
  <2>2. CASE Refuse
    BY <1>5, <2>2 DEF Refuse
  <2>3. ASSUME NEW text \in Texts, NameFill(text), UNCHANGED endpointVars,
               IF Complete(name \o text)
               THEN Execute(c, name \o text) /\ state' = "COMMAND" /\ Forget
               ELSE name' = name \o text /\ UNCHANGED <<executed, state, word>>
        PROVE  TypeInv'
    <3>1. name \o text \in Names
      BY <2>3, FitsInName DEF NameFill, TypeOK
    <3>2. count' \in Nat /\ known' \in Seq(0..255)
      BY <2>3, NameFillType
    <3>3. executed' \subseteq Requests
      <4>1. [command |-> c, name |-> name \o text] \in Requests
        BY <3>1 DEF Requests
      <4>2. executed' \in {executed, executed \cup {[command |-> c, name |-> name \o text]}}
        BY <2>3 DEF Execute
      <4>. QED BY <4>1, <4>2 DEF TypeOK
    <3>. QED BY <2>1, <2>3, <3>1, <3>2, <3>3, EmptyTypes, DaemonStates
         DEF NameFill, Forget, TypeOK, WordInv
  <2>. QED BY <2>1, <2>2, <2>3
<1>7. CASE ParseEndpointName
  <2>1. CASE Refuse
    BY <1>5, <1>7, <2>1 DEF Refuse, ParseEndpointName
  <2>2. ASSUME NEW text \in Texts, NameFill(text), UNCHANGED executed,
               IF Complete(name \o text)
               THEN /\ state' = "COMMAND" /\ Forget
                    /\ EndpointCreate(name \o text) \/ UNCHANGED endpointVars
               ELSE name' = name \o text /\ UNCHANGED <<state, word, endpointVars>>
        PROVE  TypeInv'
    <3>1. name \o text \in Names
      BY <2>2, FitsInName DEF NameFill, TypeOK
    <3>2. count' \in Nat /\ known' \in Seq(0..255)
      BY <2>2, NameFillType
    <3>3. endpoints' \subseteq Endpoints /\ paths' \subseteq endpoints'
      BY <2>2, <3>1, CreateType DEF TypeOK
    <3>. QED BY <2>2, <3>1, <3>2, <3>3, EmptyTypes DEF NameFill, Forget, TypeOK, WordInv
  <2>. QED BY <1>7, <2>1, <2>2 DEF ParseEndpointName
<1>8. CASE ParseInvalid
  BY <1>8, EmptySeq DEF ParseInvalid, TypeOK, WordInv
<1>9. CASE UNCHANGED vars
  BY <1>9 DEF vars, TypeOK, WordInv
<1>. QED BY <1>1, <1>2, <1>3, <1>4, <1>6, <1>7, <1>8, <1>9 DEF Next, Operate

(* At first there is the root endpoint, and no connection.                   *)
LEMMA InitTypes == Init => TypeInv
<1>. SUFFICES ASSUME Init PROVE TypeInv
  OBVIOUS
<1>1. endpoints \subseteq Endpoints
  BY RootAssumption DEF Init, Endpoints, Capset32, CAPSET_ALL
<1>. QED BY <1>1, EmptyTypes, EmptySeq DEF Init, TypeInv, TypeOK, WordInv, Capset32

(* The parser's fields keep their types: name_fill() writes no byte beyond   *)
(* the name, however it is split, and a word has four bytes at most.         *)
THEOREM FieldsFit == Spec => []TypeOK
<1>1. TypeInv => TypeOK
  BY DEF TypeInv
<1>. QED BY <1>1, InitTypes, NextTypes, PTL DEF Spec

-----------------------------------------------------------------------------
(* What cyberctl asks for is done, and nothing else is made for it.  Its     *)
(* message is followed from the wire into the buffer and through the states  *)
(* of the parser, as long as no read ends within the name.  What the parser  *)
(* makes of the bytes behind the message is no part of it.                   *)

(* What cyberctl wrote and the parser has not taken, read or not.            *)
Left == known \o wire

(* The parser is before the message, or at one of its parts.                 *)
CommandLeft == state = "COMMAND" /\ Left = Message(asked)

DaemonNameLeft ==
  /\ asked.command \in DaemonCommands \cap capabilities
  /\ state = DaemonName[asked.command] /\ name = << >>
  /\ Left = asked.name

CapabilitiesLeft ==
  /\ asked.command = ENDPOINT_CREATE
  /\ state = "ENDPOINT_CREATE_CAPABILITIES"
  /\ word \o Left = NetworkOrder(asked.capabilities) \o asked.name

EndpointNameLeft ==
  /\ asked.command = ENDPOINT_CREATE
  /\ state = "ENDPOINT_CREATE_NAME" /\ name = << >>
  /\ word = NetworkOrder(asked.capabilities)
  /\ Left = asked.name

AsAllowed ==
  /\ asked.command \in capabilities
  /\ asked.command \in DaemonCommands => Accepted(asked.name)

(* An endpoint may also be refused as its name is not accepted.              *)
Refused == state = "INVALID" /\ (asked.command # ENDPOINT_CREATE => ~AsAllowed)

Taken ==
  /\ known = << >> /\ wire = << >>
  /\ asked.command # ENDPOINT_CREATE => AsAllowed /\ Done(asked) \in executed

(* Nothing is executed before the message was taken, nor if it is refused.   *)
Followed ==
  \/ /\ count = Len(known) /\ executed = {}
     /\ CommandLeft \/ DaemonNameLeft \/ CapabilitiesLeft \/ EndpointNameLeft \/ Refused
  \/ Taken

(* A name is on the wire in whole, or not at all.                            *)
NameWhole == wire = << >> \/ Len(wire) >= Len(asked.name)

ClientInv ==
  /\ asked = NoRequest \/ asked \in Asks
  /\ asked # NoRequest /\ ~torn => NameWhole /\ Followed

(* What is behind the first byte of a message.                               *)
LEMMA BehindFirst ==
  ASSUME NEW D, NEW c \in D, NEW s \in Seq(D)
  PROVE  /\ Len(<<c>> \o s) = Len(s) + 1
         /\ Head(<<c>> \o s) = c
         /\ Behind(<<c>> \o s, 1) = s
<1>1. <<c>> \in Seq(D) /\ Len(<<c>>) = 1
  OBVIOUS
<1>2. /\ <<c>> \o s \in Seq(D) /\ Len(<<c>> \o s) = Len(s) + 1
      /\ (<<c>> \o s)[1] = c
      /\ \A i \in 1..Len(s) : (<<c>> \o s)[i + 1] = s[i]
  <2>1. Len(s) \in Nat
    BY LenProperties
  <2>. QED BY <1>1, <2>1, ConcatProperties
<1>3. Head(<<c>> \o s) = c
  BY <1>2
<1>4. Behind(<<c>> \o s, 1) = s
  <2>. DEFINE t == <<c>> \o s
              b == SubSeq(t, 2, Len(t))
  <2>1. Len(s) \in Nat /\ t \in Seq(D) /\ Len(t) = Len(s) + 1
    BY <1>2, LenProperties
  <2>2. \A i \in 2..Len(t) : t[i] \in D
    <3>. HIDE DEF t
    <3>1. ASSUME NEW i \in 2..Len(t) PROVE i \in 1..Len(t)
      BY <2>1
    <3>. QED BY <2>1, <3>1, ElementOfSeq
  <2>3. /\ b \in Seq(D) /\ Len(b) = Len(s)
        /\ \A i \in 1..Len(s) : b[i] = t[i + 1]
    <3>. HIDE DEF t
    <3>. QED BY <2>1, <2>2, SubSeqProperties
  <2>4. \A i \in 1..Len(s) : b[i] = s[i]
    BY <1>2, <2>3
  <2>. HIDE DEF b
  <2>5. b = s
    BY <2>3, <2>4, SeqEqual
  <2>. QED BY <2>5 DEF Behind, b
<1>. QED BY <1>2, <1>3, <1>4

(* What a request is, and what its message is.                               *)
LEMMA RequestFacts ==
  ASSUME NEW r \in Asks, r.command # ENDPOINT_CREATE
  PROVE  /\ r # NoRequest
         /\ r.command \in DaemonCommands \cup SystemCommands
         /\ r.command \in 0..255 /\ r.command < 32
         /\ r.name \in Seq(0..255) /\ r.name \in Seq(Bytes) /\ IsString(r.name)
         /\ Message(r) # << >> /\ Head(Message(r)) = r.command
         /\ r.command \in DaemonCommands => Behind(Message(r), 1) = r.name
         /\ r.command \in SystemCommands => Done(r) = [command |-> r.command, name |-> <<NUL>>]
<1>1. /\ r # NoRequest
      /\ r.command \in DaemonCommands \cup SystemCommands
      /\ r.command \in 0..255 /\ r.command < 32
      /\ r.name \in Seq(Bytes) /\ IsString(r.name)
      /\ r.command \in SystemCommands => r.name = <<NUL>>
  BY AsksAssumption DEF CAPSET_ALL, ENDPOINT_CREATE, DaemonCommands, SystemCommands
<1>2. r.name \in Seq(0..255)
  <2>1. r.name \in Seq(Bytes) /\ Bytes \subseteq 0..255
    BY <1>1, BytesAssumption
  <2>. QED BY ONLY <2>1, OfBytes
<1>3. /\ r.command \in DaemonCommands => Message(r) = <<r.command>> \o r.name
      /\ r.command \in SystemCommands => Message(r) = <<r.command>>
  <2>1. /\ r.command \in DaemonCommands => r.command # ENDPOINT_CREATE
        /\ r.command \in SystemCommands =>
             r.command # ENDPOINT_CREATE /\ r.command \notin DaemonCommands
    BY DEF ENDPOINT_CREATE, DaemonCommands, SystemCommands
  <2>. HIDE DEF ENDPOINT_CREATE, DaemonCommands, SystemCommands
  <2>. QED BY <2>1, Zenon DEF Message
<1>4. CASE r.command \in DaemonCommands
  <2>0. Message(r) = <<r.command>> \o r.name
    BY <1>3, <1>4
  <2>1. /\ Len(Message(r)) = Len(r.name) + 1 /\ Head(Message(r)) = r.command
        /\ Behind(Message(r), 1) = r.name
    <3>. DEFINE D == 0..255
    <3>1. r.command \in D /\ r.name \in Seq(D)
      BY <1>1, <1>2
    <3>. HIDE DEF D
    <3>. QED BY ONLY <2>0, <3>1, BehindFirst
  <2>2. Message(r) # << >>
    BY <1>2, <2>1, LenProperties
  <2>3. r.command \notin SystemCommands
    BY <1>4 DEF DaemonCommands, SystemCommands
  <2>. QED BY <1>1, <1>2, <2>1, <2>2, <2>3
<1>5. CASE r.command \in SystemCommands
  <2>1. r.command \notin DaemonCommands
    BY <1>5 DEF DaemonCommands, SystemCommands
  <2>. QED BY <1>1, <1>2, <1>3, <1>5, <2>1 DEF Done
<1>. QED BY <1>1, <1>4, <1>5

(* The bits of an octet are those it was made of.                            *)
LEMMA OctetBits ==
  ASSUME NEW B
  PROVE  /\ Octet(B) \in 0..255
         /\ \A b \in 0..7 : (Octet(B) \div Weight[1 + b]) % 2 = 1 <=> b \in B
<1>. DEFINE bit(b) == IF b \in B THEN 1 ELSE 0
<1>1. \A b \in 0..7 : bit(b) \in {0, 1} /\ (bit(b) = 1 <=> b \in B)
  OBVIOUS
<1>2. Octet(B) = bit(0) + 2 * bit(1) + 4 * bit(2) + 8 * bit(3)
                 + 16 * bit(4) + 32 * bit(5) + 64 * bit(6) + 128 * bit(7)
  BY DEF Octet
<1>. HIDE DEF bit
<1>3. /\ bit(0) \in {0, 1} /\ bit(1) \in {0, 1} /\ bit(2) \in {0, 1} /\ bit(3) \in {0, 1}
      /\ bit(4) \in {0, 1} /\ bit(5) \in {0, 1} /\ bit(6) \in {0, 1} /\ bit(7) \in {0, 1}
  BY <1>1
<1>4. /\ (Octet(B) \div 1) % 2 = bit(0)  /\ (Octet(B) \div 2) % 2 = bit(1)
      /\ (Octet(B) \div 4) % 2 = bit(2)  /\ (Octet(B) \div 8) % 2 = bit(3)
  BY ONLY <1>2, <1>3
<1>5. /\ (Octet(B) \div 16) % 2 = bit(4) /\ (Octet(B) \div 32) % 2 = bit(5)
      /\ (Octet(B) \div 64) % 2 = bit(6) /\ (Octet(B) \div 128) % 2 = bit(7)
  BY ONLY <1>2, <1>3
<1>6. \A b \in 0..7 : (Octet(B) \div Weight[1 + b]) % 2 = bit(b)
  BY <1>4, <1>5 DEF Weight
<1>7. Octet(B) \in 0..255
  BY ONLY <1>2, <1>3
<1>. QED BY <1>1, <1>6, <1>7

(* htonl() on the client's side, and the parser's shifts on a big endian     *)
(* machine, are the inverse of each other.                                   *)
LEMMA WordKept ==
  ASSUME NEW S, S \subseteq 0..31
  PROVE  BigEndian(NetworkOrder(S)) = S
<1>. DEFINE word_ == NetworkOrder(S)
            w == <<word_[4], word_[3], word_[2], word_[1]>>
            byte(i) == {b \in 0..7 : 8 * i + b \in S}
<1>1. \A i \in 0..3 : w[1 + i] = Octet(byte(i))
  <2>1. \A i \in 1..4 : word_[i] = Octet(byte(4 - i))
    BY DEF NetworkOrder
  <2>. HIDE DEF word_, byte
  <2>2. /\ w[1] = Octet(byte(0)) /\ w[2] = Octet(byte(1))
        /\ w[3] = Octet(byte(2)) /\ w[4] = Octet(byte(3))
    BY <2>1
  <2>. QED BY <2>2
<1>2. ASSUME NEW b \in 0..31
      PROVE  (w[1 + b \div 8] \div Weight[1 + (b % 8)]) % 2 = 1 <=> b \in S
  <2>1. b \div 8 \in 0..3 /\ b % 8 \in 0..7 /\ 8 * (b \div 8) + (b % 8) = b
    OBVIOUS
  <2>2. w[1 + b \div 8] = Octet(byte(b \div 8))
    BY <1>1, <2>1
  <2>3. b % 8 \in byte(b \div 8) <=> b \in S
    BY <2>1
  <2>. HIDE DEF w, byte
  <2>. QED BY <2>1, <2>2, <2>3, OctetBits
<1>. QED BY <1>2 DEF BigEndian, Bits

(* On a little endian machine the bits of cyberctl's capabilities are taken  *)
(* for others, which no endpoint has.                                        *)
LEMMA WordSwapped ==
  ASSUME NEW S, S \subseteq CAPSET_ALL
  PROVE  Bits(NetworkOrder(S)) \cap CAPSET_ALL = {}
<1>. DEFINE w == NetworkOrder(S)
            byte(i) == {b \in 0..7 : 8 * (4 - i) + b \in S}
<1>1. w[1] = Octet(byte(1)) /\ w[2] = Octet(byte(2))
  BY DEF NetworkOrder
<1>2. byte(1) = {} /\ byte(2) = {}
  BY DEF CAPSET_ALL
<1>. HIDE DEF w, byte
<1>3. \A b \in CAPSET_ALL : (w[1 + b \div 8] \div Weight[1 + (b % 8)]) % 2 # 1
  <2>1. SUFFICES ASSUME NEW b \in CAPSET_ALL
                 PROVE  (w[1 + b \div 8] \div Weight[1 + (b % 8)]) % 2 # 1
    OBVIOUS
  <2>2. b % 8 \in 0..7 /\ b \div 8 \in {0, 1}
    BY DEF CAPSET_ALL
  <2>3. w[1 + b \div 8] = Octet({})
    <3>1. b \div 8 = 0 => w[1 + b \div 8] = w[1]
      OBVIOUS
    <3>2. b \div 8 = 1 => w[1 + b \div 8] = w[2]
      OBVIOUS
    <3>. QED BY <1>1, <1>2, <2>2, <3>1, <3>2
  <2>. QED BY <2>2, <2>3, OctetBits
<1>. QED BY <1>3 DEF Bits, w

(* The bytes of a capability set.                                            *)
LEMMA NetworkOrderType ==
  ASSUME NEW S
  PROVE  NetworkOrder(S) \in Seq(0..255) /\ Len(NetworkOrder(S)) = 4
<1>1. NetworkOrder(S) \in [1..4 -> 0..255]
  BY OctetBits DEF NetworkOrder
<1>2. NetworkOrder(S) = [i \in 1..4 |-> Octet({b \in 0..7 : 8 * (4 - i) + b \in S})]
  BY DEF NetworkOrder
<1>. HIDE DEF NetworkOrder
<1>. QED BY <1>1, <1>2, IsASeq

(* What cyberctl asks for when it creates an endpoint.                       *)
LEMMA CreationFacts ==
  ASSUME NEW r \in Asks, r.command = ENDPOINT_CREATE
  PROVE  /\ r.name \in Seq(0..255) /\ r.name \in Seq(Bytes) /\ IsString(r.name)
         /\ r.capabilities \subseteq 0..31
         /\ NetworkOrder(r.capabilities) \o r.name \in Seq(0..255)
         /\ Message(r) # << >> /\ Head(Message(r)) = r.command
         /\ Behind(Message(r), 1) = NetworkOrder(r.capabilities) \o r.name
<1>1. /\ r.name \in Seq(Bytes) /\ IsString(r.name)
      /\ r.capabilities \subseteq 0..31
  <2>1. r.name \in Seq(Bytes) /\ IsString(r.name) /\ r.capabilities \subseteq CAPSET_ALL
    BY AsksAssumption
  <2>2. CAPSET_ALL \subseteq 0..31
    BY DEF CAPSET_ALL
  <2>. QED BY ONLY <2>1, <2>2
<1>. DEFINE D == 0..255
            N == NetworkOrder(r.capabilities)
<1>2. r.name \in Seq(D) /\ N \in Seq(D) /\ r.command \in D
  <2>1. r.name \in Seq(Bytes) /\ Bytes \subseteq 0..255
    BY <1>1, BytesAssumption
  <2>2. r.name \in Seq(0..255)
    BY ONLY <2>1, OfBytes
  <2>. QED BY <2>2, NetworkOrderType DEF ENDPOINT_CREATE
<1>3. Message(r) = (<<r.command>> \o N) \o r.name
  <2>1. r.command \notin DaemonCommands \cup SystemCommands
    BY DEF ENDPOINT_CREATE, DaemonCommands, SystemCommands
  <2>. HIDE DEF ENDPOINT_CREATE, DaemonCommands, SystemCommands
  <2>. QED BY <2>1, Zenon DEF Message
<1>. HIDE DEF D, N
<1>4. N \o r.name \in Seq(D) /\ Message(r) = <<r.command>> \o (N \o r.name)
  <2>1. <<r.command>> \in Seq(D)
    BY <1>2
  <2>2. N \o r.name \in Seq(D)
    BY <1>2, ConcatProperties
  <2>3. (<<r.command>> \o N) \o r.name = <<r.command>> \o (N \o r.name)
    <3>1. PICK h, nm : h = <<r.command>> /\ nm = r.name
      OBVIOUS
    <3>2. h \in Seq(D) /\ N \in Seq(D) /\ nm \in Seq(D)
      BY <1>2, <2>1, <3>1
    <3>3. (h \o N) \o nm = h \o (N \o nm)
      BY ONLY <3>2, ConcatAssociative
    <3>. QED BY <3>1, <3>3
  <2>. QED BY <1>3, <2>2, <2>3
<1>5. /\ Head(Message(r)) = r.command
      /\ Behind(Message(r), 1) = N \o r.name
      /\ Len(Message(r)) = Len(N \o r.name) + 1
  <2>1. PICK c \in D, t \in Seq(D) : c = r.command /\ t = N \o r.name
    BY ONLY <1>2, <1>4
  <2>2. Message(r) = <<c>> \o t
    BY ONLY <1>4, <2>1
  <2>3. Head(<<c>> \o t) = c /\ Behind(<<c>> \o t, 1) = t /\ Len(<<c>> \o t) = Len(t) + 1
    BY ONLY <2>1, BehindFirst
  <2>. QED BY ONLY <2>1, <2>2, <2>3
<1>6. Message(r) # << >>
  BY <1>4, <1>5, LenProperties, EmptySeq
<1>. QED BY <1>1, <1>2, <1>4, <1>5, <1>6 DEF D, N

(* A sequence is its head followed by what is behind it.                    *)
LEMMA HeadFirst ==
  ASSUME NEW D, NEW t \in Seq(D), t # << >>
  PROVE  /\ Head(t) \in D /\ <<Head(t)>> \in Seq(D)
         /\ Behind(t, 1) \in Seq(D) /\ Len(Behind(t, 1)) = Len(t) - 1
         /\ t = <<Head(t)>> \o Behind(t, 1)
<1>1. /\ Head(t) \in D /\ Tail(t) \in Seq(D) /\ Behind(t, 1) = Tail(t)
      /\ Len(Tail(t)) = Len(t) - 1
  BY HeadTailProperties, TailIsSubSeq DEF Behind
<1>2. <<Head(t)>> \in Seq(D) /\ Len(<<Head(t)>>) = 1
  BY <1>1
<1>. DEFINE u == <<Head(t)>> \o Tail(t)
<1>3. u \in Seq(D) /\ Len(u) = Len(t)
  <2>1. Len(u) = Len(Tail(t)) + 1
    BY <1>1, BehindFirst
  <2>. QED BY <1>1, <1>2, <2>1, HeadTailProperties, ConcatProperties
<1>4. \A i \in 1..Len(t) : t[i] = u[i]
  BY <1>1, <1>2, HeadTailProperties, ConcatProperties, LenProperties
<1>. HIDE DEF u
<1>5. t = u
  BY <1>3, <1>4, SeqEqual
<1>. QED BY <1>1, <1>2, <1>5 DEF u

(* A byte goes from what is left to what was taken.                          *)
LEMMA Moved ==
  ASSUME NEW D, NEW s \in Seq(D), NEW t \in Seq(D), t # << >>
  PROVE  Append(s, Head(t)) \o Behind(t, 1) = s \o t
<1>1. /\ Head(t) \in D /\ <<Head(t)>> \in Seq(D) /\ Behind(t, 1) \in Seq(D)
      /\ t = <<Head(t)>> \o Behind(t, 1)
  BY HeadFirst
<1>2. Append(s, Head(t)) = s \o <<Head(t)>>
  BY <1>1, AppendIsConcat
<1>3. (s \o <<Head(t)>>) \o Behind(t, 1) = s \o (<<Head(t)>> \o Behind(t, 1))
  BY <1>1, ConcatAssociative
<1>. QED BY <1>1, <1>2, <1>3

(* Where two sequences of the same length are the first parts of the same    *)
(* sequence, they are equal, and so is what follows them.                    *)
LEMMA SameParts ==
  ASSUME NEW D, NEW s \in Seq(D), NEW t \in Seq(D), NEW u \in Seq(D), NEW v \in Seq(D),
         s \o t = u \o v, Len(s) = Len(u)
  PROVE  s = u /\ t = v
<1>1. Len(s) \in Nat /\ Len(t) \in Nat /\ Len(v) \in Nat
  BY LenProperties
<1>2. \A i \in 1..Len(s) : s[i] = u[i]
  BY <1>1, ConcatProperties
<1>3. s = u
  BY <1>2, SeqEqual
<1>4. t = v
  BY ONLY t \in Seq(D), v \in Seq(D), s \in Seq(D), s \o t = u \o v, <1>3, ConcatSimplifications
<1>. QED BY <1>3, <1>4

(* Nothing is behind nothing, nor behind the whole.                          *)
LEMMA NothingBehind ==
  /\ \A n \in Nat : Behind(<< >>, n) = << >>
  /\ \A s \in Seq(0..255) : Behind(s, Len(s)) = << >>
<1>1. ASSUME NEW s \in Seq(0..255), NEW n \in Nat, n >= Len(s) PROVE Behind(s, n) = << >>
  <2>1. n + 1 > Len(s) /\ n + 1 \in Int /\ Len(s) \in Int
    BY <1>1, LenProperties
  <2>. QED BY <2>1, SubSeqEmpty DEF Behind
<1>2. << >> \in Seq(0..255) /\ Len(<< >>) = 0
  BY EmptySeq
<1>3. ASSUME NEW s \in Seq(0..255) PROVE Behind(s, Len(s)) = << >>
  <2>1. Len(s) \in Nat /\ Len(s) >= Len(s)
    BY LenProperties
  <2>. QED BY <1>1, <2>1
<1>4. ASSUME NEW n \in Nat PROVE Behind(<< >>, n) = << >>
  <2>1. n + 1 > Len(<< >>) /\ n + 1 \in Int /\ Len(<< >>) \in Int
    BY <1>2
  <2>. QED BY <1>2, <2>1, SubSeqEmpty DEF Behind
<1>. QED BY <1>3, <1>4

(* name_fill takes the whole of a name, or refuses it; and refuses those     *)
(* which are no proper names only.                                           *)
LEMMA NameTaken ==
  ASSUME NEW nm \in Seq(Bytes), IsString(nm),
         known = nm, count = Len(nm), name = << >>,
         NEW text \in Texts
  PROVE  /\ Fits(text) <=> Accepted(nm)
         /\ Fits(text) => text = nm
<1>1. text \in Seq(Bytes)
  BY TextsAreSeqs
<1>2. Len(nm) \in Nat /\ Len(text) \in Nat \ {0} /\ NameMax \in Nat /\ Len(name) = 0
  BY LenProperties, TextsAreSeqs, SizesAssumption, EmptySeq
<1>3. /\ Len(text) <= Len(nm)
      /\ text[Len(text)] = NUL \/ Len(text) = Min(Len(nm), NameMax + 2)
      /\ \A i \in 1..Len(text) : text[i] = nm[i]
  <2>1. Min(Len(text), Len(nm)) = Len(text) \/ ~(Len(text) <= Len(nm))
    BY <1>2 DEF Min
  <2>. QED BY <2>1 DEF Texts
<1>4. CASE Len(text) = Len(nm)
  <2>1. text = nm
    BY ONLY nm \in Seq(Bytes), <1>1, <1>3, <1>4, SeqEqual
  <2>. QED BY <1>2, <2>1 DEF Fits, Accepted
<1>5. CASE Len(text) # Len(nm)
  <2>1. text[Len(text)] # NUL
    BY <1>2, <1>3, <1>5 DEF IsString
  <2>2. Len(text) = NameMax + 2 /\ Len(nm) > NameMax + 1
    BY <1>2, <1>3, <1>5, <2>1 DEF Min
  <2>. QED BY <1>2, <2>2 DEF Fits, Accepted
<1>. QED BY <1>4, <1>5

(* A name which cyberctl wrote is taken whole, or refused.                   *)
LEMMA NameLeftTaken ==
  ASSUME NEW nm \in Seq(Bytes), nm \in Seq(0..255), IsString(nm),
         known = nm, count = Len(known), name = << >>,
         NEW text \in Texts, NameFill(text)
  PROVE  name \o text = nm /\ known' = << >>
<1>1. text = nm
  BY NameTaken DEF NameFill
<1>2. name \o text = nm
  BY <1>1, ConcatEmptySeq
<1>. QED BY <1>1, <1>2, NothingBehind DEF NameFill

Parse ==
  \/ ParseCommand \/ ParseCapabilities
  \/ ParseDaemonName \/ ParseEndpointName \/ ParseInvalid

(* The parser consumes bytes which were read, and forgets no request it has  *)
(* executed.                                                                 *)
LEMMA ParseKeeps ==
  ASSUME Parse
  PROVE  /\ count # 0 /\ executed \subseteq executed'
         /\ UNCHANGED <<asked, wire, torn, capabilities>>
<1>1. CASE ParseCommand
  BY <1>1 DEF ParseCommand, Consume, FeedCommand, Feed, Execute, clientVars
<1>2. CASE ParseCapabilities
  BY <1>2 DEF ParseCapabilities, Consume, clientVars
<1>3. CASE ParseDaemonName
  BY <1>3 DEF ParseDaemonName, Refuse, NameFill, Execute, clientVars
<1>4. CASE ParseEndpointName
  BY <1>4 DEF ParseEndpointName, Refuse, NameFill, clientVars
<1>5. CASE ParseInvalid
  BY <1>5 DEF ParseInvalid, clientVars, parserVars
<1>. QED BY <1>1, <1>2, <1>3, <1>4, <1>5 DEF Parse

(* A message ends with the name it has, and begins with its command.         *)
LEMMA MessageParts ==
  ASSUME NEW r \in Asks
  PROVE  /\ Message(r) \in Seq(0..255) /\ Message(r) # << >> /\ Head(Message(r)) = r.command
         /\ r.command \in CAPSET_ALL /\ r.name \in Seq(0..255) /\ IsString(r.name)
         /\ Len(Message(r)) >= Len(r.name)
<1>1. Message(r) \in Seq(0..255) /\ r.command \in CAPSET_ALL
  BY MessageType, AsksAssumption
<1>2. CASE r.command = ENDPOINT_CREATE
  <2>. DEFINE N == NetworkOrder(r.capabilities)
  <2>1. /\ r.name \in Seq(0..255) /\ IsString(r.name) /\ Head(Message(r)) = r.command
        /\ Behind(Message(r), 1) = N \o r.name /\ Message(r) # << >>
    BY <1>2, CreationFacts
  <2>2. N \in Seq(0..255) /\ Len(N) = 4
    BY NetworkOrderType
  <2>3. Len(N \o r.name) = 4 + Len(r.name)
    <3>. HIDE DEF N
    <3>1. PICK nm : nm = r.name
      OBVIOUS
    <3>2. Len(N \o nm) = Len(N) + Len(nm)
      BY <2>1, <2>2, <3>1, ConcatProperties
    <3>. QED BY <2>2, <3>1, <3>2
  <2>4. Len(Behind(Message(r), 1)) = Len(Message(r)) - 1
    BY <1>1, <2>1, HeadFirst
  <2>5. PICK m \in Nat, n \in Nat : m = Len(Message(r)) /\ n = Len(r.name)
    BY <1>1, <2>1, LenProperties
  <2>6. m >= n
    <3>1. Behind(Message(r), 1) = N \o r.name
      BY <2>1
    <3>. HIDE DEF N
    <3>2. m - 1 = 4 + n
      BY ONLY <2>3, <2>4, <2>5, <3>1
    <3>. QED BY ONLY <3>2, m \in Nat, n \in Nat
  <2>. QED BY <1>1, <2>1, <2>5, <2>6
<1>3. CASE r.command # ENDPOINT_CREATE
  <2>1. /\ r.name \in Seq(0..255) /\ IsString(r.name) /\ Head(Message(r)) = r.command
        /\ Message(r) # << >> /\ r.command \in DaemonCommands \cup SystemCommands
        /\ r.command \in DaemonCommands => Behind(Message(r), 1) = r.name
        /\ r.command \in SystemCommands => r.name = <<NUL>>
    BY <1>3, RequestFacts, AsksAssumption
  <2>2. /\ Len(Behind(Message(r), 1)) = Len(Message(r)) - 1
        /\ Len(Message(r)) \in Nat /\ Len(Message(r)) # 0
    <3>1. PICK t \in Seq(0..255) : t = Message(r)
      BY ONLY <1>1
    <3>2. t # << >>
      BY ONLY <2>1, <3>1
    <3>3. Len(Behind(t, 1)) = Len(t) - 1
      BY ONLY <3>1, <3>2, HeadFirst
    <3>4. Len(t) \in Nat /\ Len(t) # 0
      BY ONLY <3>1, <3>2, LenProperties, EmptySeq
    <3>. QED BY ONLY <3>1, <3>3, <3>4
  <2>3. Len(<<NUL>>) = 1
    OBVIOUS
  <2>4. PICK m \in Nat, n \in Nat : m = Len(Message(r)) /\ n = Len(r.name)
    BY <2>1, <2>2, LenProperties
  <2>5. r.command \in DaemonCommands => m >= n
    BY <2>1, <2>2, <2>4
  <2>6. r.command \in SystemCommands => m >= n
    <3>1. m # 0
      BY ONLY <2>2, <2>4
    <3>2. r.command \in SystemCommands => n = 1
      BY ONLY <2>1, <2>3, <2>4
    <3>. QED BY ONLY <3>1, <3>2, m \in Nat, n \in Nat
  <2>. QED BY <1>1, <2>1, <2>4, <2>5, <2>6
<1>. QED BY <1>2, <1>3

(* A byte which cyberctl wrote is taken from what is left.                   *)
LEMMA ByteTaken ==
  ASSUME known \in Seq(0..255), wire \in Seq(0..255), known # << >>,
         count = Len(known), Consume, UNCHANGED wire
  PROVE  /\ Offered = {Head(Left)} /\ Left \in Seq(0..255) /\ Left # << >>
         /\ Left' = Behind(Left, 1) /\ count' = Len(known')
<1>. DEFINE D == 0..255
<1>1. known' = Behind(known, 1) /\ count' = count - 1
  BY DEF Consume
<1>2. known \in Seq(D) /\ wire \in Seq(D)
  OBVIOUS
<1>. HIDE DEF D
<1>3. PICK k \in Seq(D), w \in Seq(D) : k = known /\ w = wire
  BY <1>2
<1>4. PICK h \in D, t \in Seq(D) :
        h = Head(k) /\ t = Behind(k, 1) /\ k = <<h>> \o t /\ Len(t) = Len(k) - 1
  BY <1>3, HeadFirst
<1>5. t \o w \in Seq(D) /\ k \o w = <<h>> \o (t \o w)
  <2>1. <<h>> \in Seq(D) /\ t \o w \in Seq(D)
    BY ConcatProperties
  <2>2. (<<h>> \o t) \o w = <<h>> \o (t \o w)
    BY <2>1, ConcatAssociative
  <2>. QED BY <1>4, <2>1, <2>2
<1>6. /\ Len(k \o w) = Len(t \o w) + 1 /\ Head(k \o w) = h /\ Behind(k \o w, 1) = t \o w
  <2>1. PICK u \in Seq(D) : u = t \o w
    BY <1>5
  <2>2. /\ Len(<<h>> \o u) = Len(u) + 1 /\ Head(<<h>> \o u) = h /\ Behind(<<h>> \o u, 1) = u
    BY ONLY h \in D, u \in Seq(D), BehindFirst
  <2>. QED BY ONLY <1>5, <2>1, <2>2
<1>7. k \o w \in Seq(D) /\ k \o w # << >>
  <2>1. k \o w \in Seq(D)
    BY ConcatProperties
  <2>. QED BY <1>5, <1>6, <2>1, LenProperties, EmptySeq
<1>8. known' = t /\ count' = Len(t)
  BY <1>1, <1>3, <1>4
<1>. QED BY <1>3, <1>4, <1>6, <1>7, <1>8 DEF Left, Offered, D

(* A read takes nothing from what is left, and leaves the rest of a name on  *)
(* the wire only where it ends within the name.                              *)
LEMMA BytesRead ==
  ASSUME TypeOK, asked \in Asks, asked # NoRequest, known = << >>, NameWhole, Read
  PROVE  /\ wire # << >> /\ Left' = Left /\ count' = Len(known')
         /\ ~torn' => ~torn /\ NameWhole'
<1>1. /\ count' \in 1..Min(Len(wire), BufferSize)
      /\ known' = SubSeq(wire, 1, count') /\ wire' = Behind(wire, count')
      /\ torn' = (torn \/ Len(wire') \in 1..(Len(asked.name) - 1))
      /\ asked' = asked
  BY DEF Read
<1>2. wire \in Seq(0..255) /\ Len(wire) \in Nat
  BY LenProperties DEF TypeOK
<1>3. PICK n \in 1..Len(wire) : n = count'
  BY <1>1, <1>2, SizesAssumption DEF Min
<1>4. wire # << >>
  BY <1>2, <1>3, EmptySeq
<1>5. known' \o wire' = wire
  <2>. DEFINE D == 0..255
  <2>1. wire \in Seq(D)
    BY <1>2
  <2>. HIDE DEF D
  <2>2. 1 \in 1..(n + 1) /\ n \in 1..Len(wire)
    BY <1>2
  <2>3. SubSeq(wire, 1, n) \o SubSeq(wire, n + 1, Len(wire)) = SubSeq(wire, 1, Len(wire))
    BY <1>2, <2>1, <2>2, ConcatAdjacentSubSeq
  <2>4. SubSeq(wire, 1, Len(wire)) = wire
    BY <2>1, SubSeqFull
  <2>. QED BY <1>1, <1>3, <2>3, <2>4 DEF Behind
<1>6. Len(known') = n
  <2>1. \A i \in 1..n : wire[i] \in 0..255
    <3>1. ASSUME NEW i \in 1..n PROVE i \in 1..Len(wire)
      BY <1>2
    <3>. QED BY <1>2, <3>1, ElementOfSeq
  <2>2. n \in Int /\ 1 \in Int /\ 1 <= n /\ n - 1 + 1 = n
    BY <1>2
  <2>3. Len(SubSeq(wire, 1, n)) = n
    BY ONLY <2>1, <2>2, SubSeqProperties
  <2>. QED BY <1>1, <1>3, <2>3
<1>7. Left = wire
  BY <1>2, ConcatEmptySeq DEF Left
<1>8. ~torn' => ~torn /\ NameWhole'
  <2>1. wire' \in Seq(0..255)
    BY <1>1, <1>2, <1>3, PartTypes
  <2>2. Len(wire') \in Nat /\ (Len(wire') = 0 => wire' = << >>)
    BY <2>1, LenProperties, EmptySeq
  <2>3. PICK size \in Nat : size = Len(asked.name)
    BY MessageParts, LenProperties
  <2>4. ~torn' => ~torn /\ Len(wire') \notin 1..(size - 1)
    BY <1>1, <2>3, Zenon
  <2>5. Len(wire') \notin 1..(size - 1) => wire' = << >> \/ Len(wire') >= size
    BY <2>2
  <2>. QED BY <1>1, <2>3, <2>4, <2>5 DEF NameWhole
<1>. QED BY <1>3, <1>4, <1>5, <1>6, <1>7, <1>8 DEF Left

(* Where a name is all that is left, it is in the buffer in whole.           *)
LEMMA OnePiece ==
  ASSUME known \in Seq(0..255), wire \in Seq(0..255), asked.name \in Seq(0..255),
         NameWhole, Left = asked.name, known # << >>
  PROVE  known = asked.name /\ wire = << >>
<1>1. PICK nm : nm = asked.name
  OBVIOUS
<1>2. Len(known) \in Nat \ {0} /\ Len(wire) \in Nat
  BY LenProperties, EmptySeq
<1>3. Len(known \o wire) = Len(known) + Len(wire)
  BY ConcatProperties
<1>4. wire = << >>
  BY <1>1, <1>2, <1>3 DEF Left, NameWhole
<1>5. known \o << >> = known
  BY ConcatEmptySeq
<1>. QED BY <1>1, <1>4, <1>5 DEF Left

(* The parser's state is at most one of those above.                         *)
LEMMA StatesOfParts ==
  /\ CommandLeft => state = "COMMAND"
  /\ DaemonNameLeft => \E c \in DaemonCommands : state = DaemonName[c]
  /\ CapabilitiesLeft => state = "ENDPOINT_CREATE_CAPABILITIES"
  /\ EndpointNameLeft => state = "ENDPOINT_CREATE_NAME"
  /\ Refused => state = "INVALID"
BY DEF CommandLeft, DaemonNameLeft, CapabilitiesLeft, EndpointNameLeft, Refused

(* What holds of the client while its message is followed.                   *)
Following == TypeInv /\ asked \in Asks /\ NameWhole /\ count = Len(known) /\ executed = {}

(* parser_feed_command, on the first byte of a message: it leaves the rest   *)
(* to the state it enters.                                                   *)
LEMMA CommandTaken ==
  ASSUME Following, CommandLeft, ParseCommand
  PROVE  Followed'
<1>. DEFINE c == asked.command
<1>1. UNCHANGED <<asked, wire, capabilities>> /\ count # 0 /\ Consume
  BY ParseKeeps DEF Parse, ParseCommand
<1>2. known \in Seq(0..255) /\ wire \in Seq(0..255) /\ known # << >> /\ count = Len(known)
  BY <1>1, EmptySeq DEF Following, TypeInv, TypeOK
<1>3. /\ c \in CAPSET_ALL /\ Head(Message(asked)) = c /\ asked.name \in Seq(0..255)
      /\ Left = Message(asked)
  BY MessageParts DEF Following, CommandLeft
<1>4. /\ Offered = {c} /\ Left' = Behind(Message(asked), 1) /\ count' = Len(known')
  BY <1>1, <1>2, <1>3, ByteTaken
<1>5. FeedCommand({c})
  <2>1. c < 32
    BY <1>3 DEF CAPSET_ALL
  <2>. QED BY <1>4, <2>1 DEF ParseCommand, Shifted
<1>6. CASE c \notin capabilities
  <2>1. state' = "INVALID" /\ executed' = executed
    BY <1>5, <1>6 DEF FeedCommand, Feed
  <2>2. Refused'
    BY <1>1, <1>6, <2>1 DEF Refused, AsAllowed
  <2>. QED BY <1>4, <2>1, <2>2 DEF Followed, Following
<1>7. CASE c \in capabilities /\ c \in SystemCommands
  <2>1. c # ENDPOINT_CREATE /\ c \notin DaemonCommands /\ c \in CAPSET_ALL
    BY <1>7 DEF DaemonCommands, SystemCommands, ENDPOINT_CREATE, CAPSET_ALL
  <2>2. Message(asked) = <<c>> /\ Done(asked) = [command |-> c, name |-> <<NUL>>]
    <3>1. Done(asked) = [command |-> c, name |-> <<NUL>>]
      BY <1>7, <2>1, RequestFacts DEF Following
    <3>. HIDE DEF ENDPOINT_CREATE, DaemonCommands, SystemCommands
    <3>2. Message(asked) = <<c>>
      BY <1>7, <2>1, Zenon DEF Message
    <3>. QED BY <3>1, <3>2
  <2>3. Done(asked) \in executed'
    BY <1>5, <1>7, <2>1, <2>2 DEF FeedCommand, Feed, Execute
  <2>4. known' = << >> /\ wire' = << >>
    <3>1. <<c>> \in Seq(0..255) /\ Len(<<c>>) = 1
      BY <1>3 DEF CAPSET_ALL
    <3>2. known' \o wire' = << >>
      BY <1>4, <2>2, <3>1, NothingBehind DEF Left
    <3>3. known' \in Seq(0..255) /\ wire' \in Seq(0..255)
      BY <1>1, <1>2, BehindType DEF Consume
    <3>. QED BY ONLY <3>2, <3>3, ConcatSimplifications
  <2>5. AsAllowed'
    BY <1>1, <1>7, <2>1 DEF AsAllowed
  <2>6. Taken'
    BY <1>1, <2>3, <2>4, <2>5 DEF Taken, Done
  <2>. QED BY <2>6 DEF Followed
<1>8. CASE c \in capabilities /\ c \in DaemonCommands
  <2>1. c \notin SystemCommands /\ c # ENDPOINT_CREATE /\ c \in CAPSET_ALL
    BY <1>8 DEF DaemonCommands, SystemCommands, ENDPOINT_CREATE, CAPSET_ALL
  <2>2. state' = DaemonName[c] /\ name' = << >> /\ UNCHANGED executed
    BY <1>5, <1>8, <2>1 DEF FeedCommand, Feed
  <2>3. Left' = asked.name
    BY <1>4, <1>8, <2>1, RequestFacts DEF Following
  <2>4. DaemonNameLeft'
    BY <1>1, <1>8, <2>2, <2>3 DEF DaemonNameLeft
  <2>. QED BY <1>4, <2>2, <2>4 DEF Followed, Following
<1>9. CASE c \in capabilities /\ c = ENDPOINT_CREATE
  <2>1. c \notin SystemCommands /\ c \notin DaemonCommands /\ c \in CAPSET_ALL
    BY <1>9 DEF DaemonCommands, SystemCommands, ENDPOINT_CREATE, CAPSET_ALL
  <2>2. state' = "ENDPOINT_CREATE_CAPABILITIES" /\ word' = << >> /\ UNCHANGED executed
    BY <1>5, <1>9, <2>1 DEF FeedCommand, Feed
  <2>3. /\ Left' = NetworkOrder(asked.capabilities) \o asked.name
        /\ NetworkOrder(asked.capabilities) \o asked.name \in Seq(0..255)
    BY <1>4, <1>9, CreationFacts DEF Following
  <2>4. << >> \o Left' = Left'
    BY <2>3, ConcatEmptySeq
  <2>5. CapabilitiesLeft'
    BY <1>1, <1>9, <2>2, <2>3, <2>4 DEF CapabilitiesLeft, NetworkOrder
  <2>. QED BY <1>4, <2>2, <2>5 DEF Followed, Following
<1>. QED BY <1>3, <1>6, <1>7, <1>8, <1>9
     DEF CAPSET_ALL, ENDPOINT_CREATE, DaemonCommands, SystemCommands

(* parser_feed_endpoint_create_capabilities leaves the rest of the word to   *)
(* itself, or the name to the next state.                                    *)
LEMMA WordTaken ==
  ASSUME Following, CapabilitiesLeft, ParseCapabilities
  PROVE  Followed'
<1>1. UNCHANGED <<asked, wire, executed>> /\ count # 0 /\ Consume
  BY ParseKeeps DEF Parse, ParseCapabilities
<1>2. known \in Seq(0..255) /\ wire \in Seq(0..255) /\ known # << >> /\ count = Len(known)
  BY <1>1, EmptySeq DEF Following, TypeInv, TypeOK
<1>3. /\ Offered = {Head(Left)} /\ Left \in Seq(0..255) /\ Left # << >>
      /\ Left' = Behind(Left, 1) /\ count' = Len(known')
  BY <1>1, <1>2, ByteTaken
<1>4. word \in Seq(0..255) /\ word' = Append(word, Head(Left))
  BY <1>3 DEF ParseCapabilities, Following, TypeInv, TypeOK, Words
<1>5. word' \o Left' = word \o Left
  BY ONLY <1>3, <1>4, Moved
<1>6. asked.command = ENDPOINT_CREATE
  BY DEF CapabilitiesLeft
<1>7. CASE Len(word') = 4
  <2>. DEFINE N == NetworkOrder(asked.capabilities)
  <2>1. state' = "ENDPOINT_CREATE_NAME" /\ name' = << >>
    BY <1>7 DEF ParseCapabilities
  <2>2. word' \in Seq(0..255) /\ Left' \in Seq(0..255)
    <3>1. PICK w \in Seq(0..255), h \in 0..255 : w = word /\ h = Head(Left)
      BY ONLY <1>3, <1>4, HeadFirst
    <3>2. word' \in Seq(0..255)
      BY ONLY <1>4, <3>1, AppendProperties
    <3>3. Left' \in Seq(0..255)
      BY ONLY <1>3, BehindType
    <3>. QED BY ONLY <3>2, <3>3
  <2>3. N \in Seq(0..255) /\ Len(N) = 4 /\ asked.name \in Seq(0..255)
    BY NetworkOrderType, MessageParts DEF Following
  <2>4. word' \o Left' = N \o asked.name
    BY <1>5 DEF CapabilitiesLeft
  <2>5. word' = N /\ Left' = asked.name
    <3>. DEFINE D == 0..255
    <3>. HIDE DEF D, N
    <3>1. PICK s \in Seq(D), t \in Seq(D), u \in Seq(D), v \in Seq(D) :
            s = word' /\ t = Left' /\ u = N /\ v = asked.name
      BY ONLY <2>2, <2>3 DEF D
    <3>2. s \o t = u \o v /\ Len(s) = Len(u)
      BY ONLY <1>7, <2>3, <2>4, <3>1
    <3>3. s = u /\ t = v
      BY ONLY <3>2, SameParts
    <3>. QED BY ONLY <3>1, <3>3
  <2>6. EndpointNameLeft'
    BY <1>1, <1>6, <2>1, <2>5 DEF EndpointNameLeft, NetworkOrder
  <2>. QED BY <1>1, <1>3, <2>6 DEF Followed, Following
<1>8. CASE Len(word') # 4
  <2>1. state' = state
    BY <1>8 DEF ParseCapabilities
  <2>2. CapabilitiesLeft'
    BY <1>1, <1>5, <2>1 DEF CapabilitiesLeft, NetworkOrder
  <2>. QED BY <1>1, <1>3, <2>2 DEF Followed, Following
<1>. QED BY <1>7, <1>8

(* What is left of the message is its name, which the parser is about to     *)
(* take in whole, or to refuse.                                              *)
LEMMA NameIsNext ==
  ASSUME Following, count # 0, Left = asked.name, name = << >>
  PROVE  /\ wire = << >>
         /\ \A text \in Texts : Fits(text) <=> Accepted(asked.name)
         /\ \A text \in Texts : NameFill(text) => name \o text = asked.name /\ known' = << >>
<1>1. /\ asked.name \in Seq(0..255) /\ asked.name \in Seq(Bytes) /\ IsString(asked.name)
  BY MessageParts, AsksAssumption DEF Following
<1>2. known \in Seq(0..255) /\ wire \in Seq(0..255) /\ known # << >> /\ count = Len(known)
  BY EmptySeq DEF Following, TypeInv, TypeOK
<1>3. known = asked.name /\ wire = << >>
  BY <1>1, <1>2, OnePiece DEF Following
<1>. QED BY <1>1, <1>2, <1>3, NameTaken, NameLeftTaken

(* parser_feed_daemon_name, on the name.                                     *)
LEMMA DaemonNameTaken ==
  ASSUME Following, DaemonNameLeft, ParseDaemonName
  PROVE  Followed'
<1>. DEFINE c == asked.command
<1>1. UNCHANGED <<asked, wire, capabilities>> /\ count # 0
  BY ParseKeeps DEF Parse
<1>2. /\ c \in DaemonCommands \cap capabilities /\ state = DaemonName[c] /\ name = << >>
      /\ wire = << >>
      /\ \A text \in Texts : Fits(text) <=> Accepted(asked.name)
      /\ \A text \in Texts : NameFill(text) => name \o text = asked.name /\ known' = << >>
  BY <1>1, NameIsNext DEF DaemonNameLeft
<1>3. CASE Refuse
  <2>1. /\ ~Accepted(asked.name) /\ state' = "INVALID"
        /\ UNCHANGED <<count, known, executed>>
    BY <1>2, <1>3 DEF Refuse, inputVars
  <2>2. Refused'
    BY <1>1, <1>2, <2>1 DEF Refused, AsAllowed, Accepted
  <2>. QED BY <2>1, <2>2 DEF Followed, Following
<1>4. ASSUME NEW text \in Texts, NameFill(text),
             Complete(name \o text) => Execute(c, name \o text)
      PROVE  Followed'
  <2>1. name \o text = asked.name /\ known' = << >> /\ Accepted(asked.name)
    BY <1>2, <1>4 DEF NameFill
  <2>2. Complete(asked.name)
    <3>1. asked.name \in Seq(0..255) /\ IsString(asked.name)
      BY MessageParts DEF Following
    <3>2. Len(asked.name) \in Nat /\ Len(asked.name) # 0
      BY <3>1, LenProperties, EmptySeq DEF IsString
    <3>3. Len(asked.name) \in 1..Len(asked.name)
      BY <3>2
    <3>. QED BY <3>1, <3>3 DEF IsString, Complete
  <2>3. Done(asked) \in executed'
    BY <1>4, <2>1, <2>2 DEF Execute, Done
  <2>4. AsAllowed'
    BY <1>1, <1>2, <2>1 DEF AsAllowed, Accepted
  <2>5. Taken'
    BY <1>1, <1>2, <2>1, <2>3, <2>4 DEF Taken, Done
  <2>. QED BY <2>5 DEF Followed
<1>5. PICK d \in DaemonCommands :
        /\ state = DaemonName[d]
        /\ \/ Refuse
           \/ \E text \in Texts :
                NameFill(text) /\ (Complete(name \o text) => Execute(d, name \o text))
  BY DEF ParseDaemonName
<1>6. d = c
  BY <1>2, <1>5, DaemonStates
<1>. QED BY <1>3, <1>4, <1>5, <1>6

(* parser_feed_endpoint_create_name, on the name.                            *)
LEMMA EndpointNameTaken ==
  ASSUME Following, EndpointNameLeft, ParseEndpointName
  PROVE  Followed'
<1>1. UNCHANGED <<asked, wire>> /\ count # 0
  BY ParseKeeps DEF Parse
<1>2. /\ asked.command = ENDPOINT_CREATE /\ wire = << >>
      /\ \A text \in Texts : NameFill(text) => known' = << >>
  BY <1>1, NameIsNext DEF EndpointNameLeft
<1>3. CASE Refuse
  <2>1. state' = "INVALID" /\ UNCHANGED <<count, known, executed>>
    BY <1>3 DEF Refuse, inputVars
  <2>2. Refused'
    BY <1>1, <1>2, <2>1 DEF Refused
  <2>. QED BY <2>1, <2>2 DEF Followed, Following
<1>4. ASSUME NEW text \in Texts, NameFill(text) PROVE Followed'
  BY <1>1, <1>2, <1>4 DEF Followed, Taken
<1>. QED BY <1>3, <1>4 DEF ParseEndpointName

(* Each step of the parser takes the next part of the message.               *)
LEMMA ParseFollows ==
  ASSUME TypeInv, asked \in Asks, NameWhole, Followed, Parse
  PROVE  Followed'
<1>1. /\ count # 0 /\ executed \subseteq executed'
      /\ UNCHANGED <<asked, wire, capabilities>>
  BY ParseKeeps
<1>2. CASE Taken
  <2>1. known' = << >>
    <3>1. Consume => known' = << >>
      BY <1>2, NothingBehind DEF Consume, Taken
    <3>2. \A text \in Texts : NameFill(text) => known' = << >>
      BY <1>2, NothingBehind, TextsAreSeqs DEF NameFill, Taken
    <3>3. Refuse \/ ParseInvalid => known' = << >>
      BY <1>2 DEF Refuse, inputVars, ParseInvalid, Taken
    <3>. QED BY <3>1, <3>2, <3>3
         DEF Parse, ParseCommand, ParseCapabilities, ParseDaemonName, ParseEndpointName
  <2>2. AsAllowed => AsAllowed'
    BY <1>1 DEF AsAllowed, Accepted
  <2>3. Done(asked)' = Done(asked)
    BY <1>1 DEF Done
  <2>. QED BY <1>1, <1>2, <2>1, <2>2, <2>3 DEF Taken, Followed
<1>3. CASE ~Taken
  <2>1. /\ Following
        /\ CommandLeft \/ DaemonNameLeft \/ CapabilitiesLeft \/ EndpointNameLeft \/ Refused
    BY <1>3 DEF Followed, Following
  <2>2. CASE CommandLeft
    <3>1. ParseCommand
      BY <2>2, StatesOfParts, DaemonStates
      DEF Parse, ParseCapabilities, ParseDaemonName, ParseEndpointName, ParseInvalid
    <3>. QED BY <2>1, <2>2, <3>1, CommandTaken
  <2>3. CASE DaemonNameLeft
    <3>1. ParseDaemonName
      BY <2>3, StatesOfParts, DaemonStates
      DEF Parse, ParseCommand, ParseCapabilities, ParseEndpointName, ParseInvalid
    <3>. QED BY <2>1, <2>3, <3>1, DaemonNameTaken
  <2>4. CASE CapabilitiesLeft
    <3>1. ParseCapabilities
      BY <2>4, StatesOfParts, DaemonStates
      DEF Parse, ParseCommand, ParseDaemonName, ParseEndpointName, ParseInvalid
    <3>. QED BY <2>1, <2>4, <3>1, WordTaken
  <2>5. CASE EndpointNameLeft
    <3>1. ParseEndpointName
      BY <2>5, StatesOfParts, DaemonStates
      DEF Parse, ParseCommand, ParseCapabilities, ParseDaemonName, ParseInvalid
    <3>. QED BY <2>1, <2>5, <3>1, EndpointNameTaken
  <2>6. CASE Refused
    <3>1. ParseInvalid
      BY <2>6, StatesOfParts, DaemonStates
      DEF Parse, ParseCommand, ParseCapabilities, ParseDaemonName, ParseEndpointName
    <3>2. count' = 0 /\ known' = << >> /\ UNCHANGED <<state, executed>>
      BY <3>1 DEF ParseInvalid, parserVars
    <3>3. Refused'
      BY <1>1, <2>6, <3>2 DEF Refused, AsAllowed, Accepted
    <3>. QED BY <2>1, <3>2, <3>3, EmptySeq DEF Followed, Following
  <2>. QED BY <2>1, <2>2, <2>3, <2>4, <2>5, <2>6
<1>. QED BY <1>2, <1>3

(* So does every step, and a read leaves the parser where it was.            *)
LEMMA NextFollows == TypeInv /\ ClientInv /\ [Next]_vars => ClientInv'
<1>. SUFFICES ASSUME TypeInv, ClientInv, [Next]_vars PROVE ClientInv'
  OBVIOUS
<1>1. ASSUME NEW e \in paths, NEW r \in Asks \cup {NoRequest}, Connect(e, r) PROVE ClientInv'
  <2>1. CASE r = NoRequest
    BY <1>1, <2>1 DEF Connect, ClientInv
  <2>2. CASE r # NoRequest
    <3>1. /\ r \in Asks /\ asked' = r /\ wire' = Message(r) /\ known' = << >>
          /\ state' = "COMMAND" /\ count' = 0 /\ executed' = {}
      BY <1>1, <2>2 DEF Connect
    <3>2. Message(r) \in Seq(0..255) /\ Len(Message(r)) >= Len(r.name)
      BY <3>1, MessageParts
    <3>3. << >> \o Message(r) = Message(r)
      BY <3>2, ConcatEmptySeq
    <3>4. Message(r)' = Message(r)
      BY DEF Message
    <3>5. CommandLeft'
      BY <3>1, <3>3, <3>4 DEF CommandLeft, Left, Message
    <3>6. NameWhole' /\ Followed'
      BY <3>1, <3>2, <3>5, EmptySeq DEF NameWhole, Followed
    <3>. QED BY <3>1, <3>6 DEF ClientInv
  <2>. QED BY <2>1, <2>2
<1>2. CASE Read
  <2>1. UNCHANGED <<asked, state, word, name, capabilities>> /\ count = 0
    BY <1>2 DEF Read, GoOn, parserVars
  <2>2. CASE asked = NoRequest
    BY <2>1, <2>2 DEF ClientInv
  <2>3. ASSUME asked # NoRequest, ~torn' PROVE NameWhole' /\ Followed'
    <3>1. asked \in Asks /\ ~torn
      BY <1>2, <2>3 DEF ClientInv, Read
    <3>2. NameWhole /\ Followed
      BY <2>3, <3>1 DEF ClientInv
    <3>3. known = << >>
      <4>1. known \in Seq(0..255)
        BY DEF TypeInv, TypeOK
      <4>. QED BY <2>1, <3>2, <4>1, EmptySeq DEF Followed, Taken
    <3>4. /\ wire # << >> /\ Left' = Left /\ count' = Len(known') /\ NameWhole'
      BY <1>2, <2>3, <3>1, <3>2, <3>3, BytesRead DEF TypeInv
    <3>5. /\ executed = {} /\ executed' = executed
          /\ CommandLeft \/ DaemonNameLeft \/ CapabilitiesLeft \/ EndpointNameLeft \/ Refused
      BY <1>2, <2>3, <3>2, <3>4 DEF Followed, Taken, Read
    <3>6. /\ CommandLeft => CommandLeft'
          /\ DaemonNameLeft => DaemonNameLeft'
          /\ CapabilitiesLeft => CapabilitiesLeft'
          /\ EndpointNameLeft => EndpointNameLeft'
          /\ Refused => Refused'
      BY <2>1, <3>4 DEF CommandLeft, DaemonNameLeft, CapabilitiesLeft, EndpointNameLeft,
                        Refused, AsAllowed, Accepted, Message, NetworkOrder
    <3>. QED BY <3>4, <3>5, <3>6 DEF Followed
  <2>. QED BY <2>1, <2>2, <2>3 DEF ClientInv
<1>3. CASE Parse
  <2>1. UNCHANGED <<asked, wire, torn>>
    BY <1>3, ParseKeeps
  <2>2. NameWhole => NameWhole'
    BY <2>1 DEF NameWhole
  <2>. QED BY <1>3, <2>1, <2>2, ParseFollows DEF ClientInv
<1>4. CASE UNCHANGED vars
  BY <1>4 DEF vars, parserVars, inputVars, clientVars, ClientInv, NameWhole, Followed, Taken,
              CommandLeft, DaemonNameLeft, CapabilitiesLeft, EndpointNameLeft, Refused, Left,
              AsAllowed, Accepted, Done, Message, NetworkOrder
<1>. QED BY <1>1, <1>2, <1>3, <1>4 DEF Next, Operate, Parse

(* There is no client at first.                                              *)
LEMMA InitFollows == Init => ClientInv
BY DEF Init, ClientInv

(* cyberctl is served: what it asks of a daemon or of the system is executed *)
(* if the endpoint allows it and name_fill accepts the name, whatever is     *)
(* behind the message in the buffer and however reads split the message, but *)
(* within the name; and nothing is executed if not (parser_feed_command,     *)
(* parser_feed_daemon_name).                                                 *)
THEOREM AskedIsDone == Spec => []Obeyed
<1>1. TypeInv /\ ClientInv => Obeyed
  <2>. SUFFICES ASSUME TypeInv, ClientInv, asked # NoRequest, asked.command # ENDPOINT_CREATE,
                       ~torn, wire = << >>, count = 0 \/ executed # {}
                PROVE  IF AsAllowed THEN Done(asked) \in executed ELSE executed = {}
    BY DEF Obeyed, AsAllowed
  <2>1. asked \in Asks /\ Followed
    BY DEF ClientInv
  <2>2. CASE Taken
    BY <2>2 DEF Taken
  <2>3. CASE ~Taken
    <3>1. /\ executed = {} /\ count = 0 /\ count = Len(known)
          /\ CommandLeft \/ DaemonNameLeft \/ CapabilitiesLeft \/ EndpointNameLeft \/ Refused
      BY <2>1, <2>3 DEF Followed
    <3>2. known = << >>
      <4>1. known \in Seq(0..255)
        BY DEF TypeInv, TypeOK
      <4>. QED BY <3>1, <4>1, EmptySeq
    <3>3. Left = << >>
      BY <3>2, ConcatEmptySeq, EmptySeq DEF Left
    <3>4. ~CommandLeft
      BY <2>1, <3>3, MessageParts DEF CommandLeft
    <3>5. ~DaemonNameLeft
      BY <2>1, <3>3, MessageParts DEF DaemonNameLeft, IsString
    <3>6. Refused
      BY <3>1, <3>4, <3>5 DEF CapabilitiesLeft, EndpointNameLeft
    <3>. QED BY <3>1, <3>6 DEF Refused
  <2>. QED BY <2>2, <2>3
<1>. QED BY <1>1, InitTypes, NextTypes, InitFollows, NextFollows, PTL DEF Spec

(* What a step may create for cyberctl.                                      *)
AsAsked ==
  asked # NoRequest /\ ~torn /\ known # << >> =>
    \A e \in endpoints' \ endpoints :
      /\ ~LittleEndian
      /\ e.name = asked.name /\ e.capabilities = asked.capabilities \cap capabilities

(* parser_feed_endpoint_create_name, with the word and the name it has.      *)
LEMMA CreatesAsAsked ==
  ASSUME TypeInv, CapabilitiesInv, ClientInv, [Next]_vars
  PROVE  AsAsked
<1>. SUFFICES ASSUME asked # NoRequest, ~torn, known # << >>, NEW e \in endpoints' \ endpoints
              PROVE  /\ ~LittleEndian
                     /\ e.name = asked.name
                     /\ e.capabilities = asked.capabilities \cap capabilities
  BY DEF AsAsked
<1>1. ParseEndpointName
  BY DEF Next, Connect, Operate, Read, ParseCommand, FeedCommand, Feed, ParseCapabilities,
         ParseDaemonName, Refuse, ParseInvalid, vars, endpointVars
<1>2. PICK text \in Texts :
        /\ NameFill(text) /\ Granted # {}
        /\ e = [name |-> name \o text, capabilities |-> Granted]
  BY <1>1 DEF ParseEndpointName, Refuse, EndpointCreate, endpointVars
<1>3. state = "ENDPOINT_CREATE_NAME" /\ count # 0
  BY <1>1 DEF ParseEndpointName
<1>4. asked \in Asks /\ Following /\ EndpointNameLeft
  <2>1. asked \in Asks /\ NameWhole /\ Followed /\ ~Taken
    BY DEF ClientInv, Taken
  <2>. QED BY <1>3, <2>1, StatesOfParts, DaemonStates DEF Followed, Following
<1>5. name \o text = asked.name
  BY <1>2, <1>3, <1>4, NameIsNext DEF EndpointNameLeft
<1>6. /\ word = NetworkOrder(asked.capabilities) /\ asked.capabilities \subseteq CAPSET_ALL
      /\ capabilities \subseteq CAPSET_ALL
  BY <1>4, AsksAssumption DEF EndpointNameLeft, CapabilitiesInv
<1>7. CASE LittleEndian
  <2>1. Granted = Bits(word) \cap capabilities
    BY <1>7 DEF Granted, Capset
  <2>2. Bits(word) \cap CAPSET_ALL = {}
    BY <1>6, WordSwapped
  <2>3. Granted = {}
    BY ONLY <1>6, <2>1, <2>2
  <2>. QED BY ONLY <1>2, <2>3
<1>8. CASE ~LittleEndian
  <2>1. asked.capabilities \subseteq 0..31
    <3>1. CAPSET_ALL \subseteq 0..31
      BY ONLY SMT DEF CAPSET_ALL
    <3>. QED BY ONLY <1>6, <3>1
  <2>2. Granted = asked.capabilities \cap capabilities
    BY <1>6, <1>8, <2>1, WordKept DEF Granted, Capset
  <2>. QED BY <1>2, <1>5, <1>8, <2>2
<1>. QED BY <1>7, <1>8

(* cyberctl gets the endpoint it asked for, with those of the capabilities   *)
(* it asked for which its own endpoint has, and no other, however reads      *)
(* split the message, but within the name; and none on a little endian       *)
(* machine, where ntohl is once too many                                     *)
(* (parser_feed_endpoint_create_capabilities, _name).                        *)
THEOREM EndpointsAreAsAsked == Spec => CreatedAsAsked
<1>1. TypeInv /\ CapabilitiesInv /\ ClientInv /\ [Next]_vars => [AsAsked]_vars
  BY CreatesAsAsked
<1>2. CapabilitiesInv /\ [Next]_vars => CapabilitiesInv'
  BY NextAllowed
<1>. QED BY <1>1, <1>2, InitTypes, NextTypes, InitAllowed, InitFollows, NextFollows, PTL
     DEF Spec, CreatedAsAsked, AsAsked

-----------------------------------------------------------------------------
(* cyberctl, whatever is typed, is a client as Connection has it: what is    *)
(* proved above of any client is true of it (main and initctl_open of        *)
(* cyberctl.c).                                                              *)
THEOREM CyberctlIsAClient == CyberctlSpec => Spec
<1>1. [CyberctlNext]_vars => [Next]_vars
  BY TypedAssumption DEF CyberctlNext, Next, Invoke
<1>. QED BY <1>1, PTL DEF CyberctlSpec, Spec

=============================================================================
