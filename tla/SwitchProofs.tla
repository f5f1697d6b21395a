---------------------------- MODULE SwitchProofs ----------------------------
(***************************************************************************)
(* Theorems about SocketSwitch, for every set of descriptors.              *)
(***************************************************************************)
EXTENDS SocketSwitch, FiniteSetTheorems, TLAPS

(* What the loop has still to operate is there and ready: the descriptors    *)
(* which are closed, and may be opened again as another socket, are the one  *)
(* being operated and those before it.                                       *)
Ahead ==
  pc \in {"operate", "parse"} =>
    \A f \in readset : f >= fd => snodes[f] # "none" /\ f \in readable

SwitchInv == TypeOK /\ ActiveIsStored /\ Ahead

(* socket_switch_setup() leaves the tree and the active set in agreement.    *)
LEMMA InitSwitch == Init => SwitchInv
<1>. SUFFICES ASSUME Init PROVE SwitchInv
  OBVIOUS
<1>1. PICK root \in SUBSET (Fds \ Taken) :
        /\ snodes = [f \in Fds |-> IF f \in root THEN "endpoint" ELSE "none"]
        /\ activeset = root
  BY DEF Init
<1>2. activeset = Stored
  BY <1>1 DEF Stored
<1>. QED BY <1>1, <1>2 DEF Init, SwitchInv, TypeOK, ActiveIsStored, Ahead

(* accept(2) and socket(2) give a descriptor which no node has, so the node  *)
(* which socket_switch_insert() stores replaces none.                        *)
LEMMA InsertKeeps ==
  ASSUME SwitchInv, pc # "down", NEW g \in Unused,
         NEW class \in {"endpoint", "connection"}, Insert(g, class)
  PROVE  /\ snodes' \in [Fds -> {"none", "endpoint", "connection"}]
         /\ activeset' \subseteq Fds
         /\ activeset' = Stored'
         /\ \A f \in Fds : snodes[f] # "none" => snodes'[f] # "none"
BY DEF SwitchInv, TypeOK, ActiveIsStored, Insert, Unused, Stored

(* The descriptors which are operated after f are those above it.            *)
LEMMA OperatedAhead ==
  ASSUME SwitchInv, NEW f \in Fds, Operates(f), Operated(f)
  PROVE  /\ f \in readset /\ pc = "operate"
         /\ nfds' \in Int /\ fd' \in Nat /\ readset' = readset /\ fd' = f + 1
         /\ \A g \in readset : g >= fd' => g # f /\ snodes[g] # "none" /\ g \in readable
BY FdsAssumption DEF SwitchInv, TypeOK, Ahead, Operates, Operated

(* Each step of the switch keeps what is left to operate ready.              *)
LEMMA NextSwitch == SwitchInv /\ [Next]_vars => SwitchInv'
<1>. SUFFICES ASSUME SwitchInv, [Next]_vars PROVE SwitchInv'
  OBVIOUS
<1>. USE DEF SwitchInv, TypeOK, ActiveIsStored, Ahead
<1>1. CASE Select
  <2>1. Prepared \cap readable \subseteq Stored
    BY <1>1 DEF Select, Prepared
  <2>2. nfds' \in Int
    <3>1. IsFiniteSet(readset')
      BY <1>1, FdsAssumption, FS_Subset DEF Select, Prepared
    <3>. QED BY <3>1, <1>1, FS_CardinalityType DEF Select
  <2>. QED BY <1>1, <2>1, <2>2 DEF Select, switchVars, Stored
<1>2. CASE OperateEnd \/ Parsed
  BY <1>2 DEF OperateEnd, Parsed, switchVars, loopVars, Stored
<1>3. ASSUME NEW f \in Fds, Accept(f) PROVE SwitchInv'
  <2>0. Operates(f) /\ Operated(f) /\ pc' = pc
    BY <1>3 DEF Accept
  <2>1. CASE \E g \in Unused : Insert(g, "connection")
    BY <1>3, <2>0, <2>1, OperatedAhead, InsertKeeps DEF Accept
  <2>2. CASE UNCHANGED switchVars
    BY <1>3, <2>0, <2>2, OperatedAhead DEF Accept, switchVars, Stored
  <2>. QED BY <1>3, <2>1, <2>2 DEF Accept
<1>4. ASSUME NEW f \in Fds, Read(f) PROVE SwitchInv'
  BY <1>4, OperatedAhead DEF Read, switchVars, Stored
<1>5. ASSUME NEW f \in Fds, HangUp(f) PROVE SwitchInv'
  <2>1. activeset' = Stored'
    BY <1>5 DEF HangUp, Operates, Remove, Stored
  <2>. QED BY <1>5, <2>1, OperatedAhead DEF HangUp, Remove
<1>6. CASE Create
  BY <1>6, InsertKeeps DEF Create, loopVars
<1>7. CASE Teardown
  BY <1>7 DEF Teardown, loopVars, Stored
<1>8. ASSUME NEW f \in Fds, Arrive(f) PROVE SwitchInv'
  BY <1>8 DEF Arrive, switchVars, loopVars, Stored
<1>9. CASE UNCHANGED vars
  BY <1>9 DEF vars, switchVars, loopVars, Stored
<1>. QED
  BY <1>1, <1>2, <1>3, <1>4, <1>5, <1>6, <1>7, <1>8, <1>9 DEF Next, Turn

(* The active set is the set of the descriptors of the tree, and the loop of *)
(* socket_switch_operate() finds at each descriptor a node which is ready:   *)
(* neither does it use a null pointer nor does it block.                     *)
THEOREM OperatesReady == Spec => [](TypeOK /\ ActiveIsStored /\ NeverBlocks)
<1>1. SwitchInv => TypeOK /\ ActiveIsStored /\ NeverBlocks
  BY DEF SwitchInv, NeverBlocks, Ahead, Operates
<1>. QED BY <1>1, InitSwitch, NextSwitch, PTL DEF Spec

=============================================================================
