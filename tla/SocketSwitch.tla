---------------------------- MODULE SocketSwitch ----------------------------
(***************************************************************************)
(* socket_switch.c, with the operations of socket_endpoint_node.c and      *)
(* socket_connection_node.c which open and close descriptors: one turn of  *)
(* the main loop asks pselect(2) which sockets are ready and operates them *)
(* one by one, while accept(2), socket(2) and close(2) change which socket *)
(* a descriptor is.  pc is the place where cyberd is:                      *)
(*   "select"   it waits in pselect                                        *)
(*   "operate"  the loop of socket_switch_operate() is at descriptor fd    *)
(*   "parse"    ... which is a connection, whose bytes are being parsed    *)
(*   "down"     socket_switch_teardown() is over                           *)
(*                                                                         *)
(* An operator named Wrong... is a bug which the one after it does not     *)
(* have: no module uses it, it is there to be put in its place, so that    *)
(* the properties are seen to fail.                                        *)
(***************************************************************************)
EXTENDS Integers, FiniteSets

CONSTANTS
  Fds,    \* the descriptors cyberd may have, all below FD_SETSIZE
  Taken   \* those which are not sockets of the switch

ASSUME FdsAssumption == Fds \subseteq Nat /\ IsFiniteSet(Fds) /\ Taken \subseteq Fds

VARIABLES
  snodes,     \* the tree: what the socket at each descriptor is
  activeset,  \* socket_switch.activeset
  readset,    \* socket_switch.readset, as pselect left it
  nfds,       \* how many ready descriptors are left to operate
  fd,         \* the loop variable of socket_switch_operate
  readable,   \* descriptors on which accept or read would not block (kernel)
  pc

switchVars == <<snodes, activeset>>
loopVars   == <<readset, nfds, fd>>
vars == <<switchVars, loopVars, readable, pc>>

Stored == {f \in Fds : snodes[f] # "none"}
Unused == Fds \ (Stored \cup Taken)

(* socket_switch_setup: the root endpoint, unless it can not be created. *)
Init ==
  /\ \E root \in SUBSET (Fds \ Taken) :
       /\ \A f, g \in root : f = g
       /\ snodes = [f \in Fds |-> IF f \in root THEN "endpoint" ELSE "none"]
       /\ activeset = root
  /\ readset = {} /\ nfds = 0 /\ fd = 0
  /\ readable = {}
  /\ pc = "select"

-----------------------------------------------------------------------------

(* socket_switch_insert *)
Insert(f, class) ==
  /\ snodes' = [snodes EXCEPT ![f] = class]
  /\ activeset' = activeset \cup {f}

(* Wrong: the descriptor stays in the active set.                            *)
WrongRemove(f) ==
  /\ snodes' = [snodes EXCEPT ![f] = "none"]
  /\ activeset' = activeset

(* socket_switch_remove, and the close of the node's destroy. *)
Remove(f) ==
  /\ snodes' = [snodes EXCEPT ![f] = "none"]
  /\ activeset' = activeset \ {f}

(* Wrong: the last descriptor is given to pselect as the number of them.     *)
WrongPrepared == {f \in activeset : \E g \in Stored : f < g}

(* socket_switch_prepare: pselect looks at the descriptors up to tree_last().*)
Prepared == {f \in activeset : \E g \in Stored : f <= g}

Select ==
  /\ pc = "select"
  /\ readset' = Prepared \cap readable
  /\ readset' # {}
  /\ nfds' = Cardinality(readset') /\ fd' = 0
  /\ pc' = "operate"
  /\ UNCHANGED <<switchVars, readable>>

(* Wrong: the loop walks the sockets which are active by now.                *)
WrongOperates(f) ==
  /\ pc = "operate" /\ nfds # 0
  /\ f \in activeset /\ f >= fd
  /\ \A g \in activeset : g >= fd => f <= g

(* The loop of socket_switch_operate has come to f. *)
Operates(f) ==
  /\ pc = "operate" /\ nfds # 0
  /\ f \in readset /\ f >= fd
  /\ \A g \in readset : g >= fd => f <= g

Operated(f) == nfds' = nfds - 1 /\ fd' = f + 1 /\ UNCHANGED readset

(* Wrong: the failure of accept is not noticed, and -1 is inserted.          *)
WrongAccept(f) ==
  /\ Operates(f) /\ snodes[f] = "endpoint"
  /\ \E g \in Unused \cup {-1} : Insert(g, "connection")
  /\ readable' \in {readable, readable \ {f}}
  /\ Operated(f) /\ UNCHANGED pc

(* socket_endpoint_node_operate.  POSIX gives the lowest unused descriptor,  *)
(* on which nothing depends; accept, fcntl or malloc may fail.  Other        *)
(* connections may be waiting.                                               *)
Accept(f) ==
  /\ Operates(f) /\ snodes[f] = "endpoint"
  /\ \/ \E g \in Unused : Insert(g, "connection")
     \/ UNCHANGED switchVars
  /\ readable' \in {readable, readable \ {f}}
  /\ Operated(f) /\ UNCHANGED pc

(* socket_connection_node_operate: bytes were read, there may be more; ...   *)
Read(f) ==
  /\ Operates(f) /\ snodes[f] = "connection"
  /\ readable' \in {readable, readable \ {f}}
  /\ pc' = "parse"
  /\ Operated(f) /\ UNCHANGED switchVars

(* ... the client hung up, or read failed.                                   *)
HangUp(f) ==
  /\ Operates(f) /\ snodes[f] = "connection"
  /\ Remove(f)
  /\ readable' = readable \ {f}
  /\ Operated(f) /\ UNCHANGED pc

(* parser_feed_endpoint_create_name: endpoints a connection asks for. *)
Create ==
  /\ pc = "parse"
  /\ \E g \in Unused : Insert(g, "endpoint")
  /\ UNCHANGED <<loopVars, readable, pc>>

Parsed == pc = "parse" /\ pc' = "operate" /\ UNCHANGED <<switchVars, loopVars, readable>>

OperateEnd ==
  /\ pc = "operate"
  /\ nfds = 0 \/ \A f \in readset : f < fd
  /\ pc' = "select"
  /\ UNCHANGED <<switchVars, loopVars, readable>>

(* socket_switch_teardown, once the main loop has ended.  The active set is  *)
(* left as it is: there is no other turn.                                    *)
Teardown ==
  /\ pc = "select"
  /\ snodes' = [f \in Fds |-> "none"] /\ readable' = {}
  /\ pc' = "down"
  /\ UNCHANGED <<activeset, loopVars>>

(* A client connects, writes or hangs up. *)
Arrive(f) ==
  /\ f \in Stored \ readable
  /\ readable' = readable \cup {f}
  /\ UNCHANGED <<switchVars, loopVars, pc>>

Turn ==
  \/ Select \/ OperateEnd \/ Parsed
  \/ \E f \in Fds : Accept(f) \/ Read(f) \/ HangUp(f)

Next == Turn \/ Create \/ Teardown \/ \E f \in Fds : Arrive(f)

Spec == Init /\ [][Next]_vars

(* cyberd does not stop by itself. *)
FairSpec == Spec /\ WF_vars(Turn)

-----------------------------------------------------------------------------
(* Properties. *)

TypeOK ==
  /\ snodes \in [Fds -> {"none", "endpoint", "connection"}]
  /\ activeset \subseteq Fds /\ readset \subseteq Fds /\ readable \subseteq Fds
  /\ nfds \in Int /\ fd \in Nat
  /\ pc \in {"select", "operate", "parse", "down"}

(* The active set is the set of the descriptors in the tree: pselect is not  *)
(* given a descriptor which was closed, nor one which has no node.           *)
ActiveIsStored == pc # "down" => activeset = Stored

(* socket_switch.c:129: readset is older than the operations which come      *)
(* before f in the loop, and they open and close descriptors; yet at f there *)
(* is a node to operate (socket_switch_find is not checked for NULL), and it *)
(* is one that is ready: cyberd does not block in accept(2) or read(2).      *)
NeverBlocks ==
  \A f \in Fds : Operates(f) => snodes[f] # "none" /\ f \in readable

(* A socket which is ready is operated, however many others are.             *)
Served ==
  \A f \in Fds : f \in activeset \cap readable ~> Operates(f) \/ pc = "down"

=============================================================================
