-------------------------- MODULE ChildSetupProofs --------------------------
(***************************************************************************)
(* Theorems about ChildSetup, for every file, database and descriptor      *)
(* table, and for all signals which come in between.                       *)
(***************************************************************************)
EXTENDS ChildSetup, DaemonConfProofs, TLAPS

vars == <<configurationVars, childVars>>

(* The calls which are left once a setting is made.                          *)
Priority == {"execve", "run"}
Sid == {"setpriority"} \cup Priority
Gid == {"setsid"} \cup Sid
Uid == {"setgid"} \cup Gid
Mask == {"setuid"} \cup Uid
Cwd == {"sigprocmask"} \cup Mask
Umask == {"chdir"} \cup Cwd

Fields ==
  proc = [uid |-> proc.uid, gid |-> proc.gid, umask |-> proc.umask, cwd |-> proc.cwd,
          blocked |-> proc.blocked, pending |-> proc.pending, leader |-> proc.leader,
          priority |-> proc.priority, path |-> proc.path, argv |-> proc.argv, envp |-> proc.envp]

(* What each call has settled stays so up to the program: no later call, no  *)
(* signal and no turn of the parser changes it again.                        *)
SettledInv ==
  /\ Fields
  /\ call # "none" => parse = "parsed"
  /\ call \in Umask => proc.umask = conf.umask
  /\ call \in Cwd => proc.cwd = Workdir
  /\ call \in Mask => proc.blocked = {} /\ proc.pending = {}
  /\ call \in Uid => proc.uid = conf.uid
  /\ call \in Gid => proc.gid = conf.gid
  /\ call \in Sid => proc.leader = ~conf.nosid
  /\ call \in Priority => proc.priority = conf.priority
  /\ call = "run" => proc.path = conf.path /\ proc.argv = Argv /\ proc.envp = conf.environment

(* The sets of calls, as they are used together.                             *)
LEMMA CallSets ==
  /\ Priority = {"execve", "run"}
  /\ Sid = {"setpriority", "execve", "run"}
  /\ Gid = {"setsid", "setpriority", "execve", "run"}
  /\ Uid = {"setgid", "setsid", "setpriority", "execve", "run"}
  /\ Mask = {"setuid", "setgid", "setsid", "setpriority", "execve", "run"}
  /\ Cwd = {"sigprocmask", "setuid", "setgid", "setsid", "setpriority", "execve", "run"}
  /\ Umask = {"chdir", "sigprocmask", "setuid", "setgid", "setsid", "setpriority", "execve", "run"}
BY DEF Priority, Sid, Gid, Uid, Mask, Cwd, Umask

(* The parser is at work only before the child is there.                     *)
LEMMA ParserBefore ==
  ASSUME SettledInv, ParserNext PROVE call = "none"
BY DEF SettledInv, ParserNext, ReadSection, SkipLine, ReadValue, ReadArguments, ExpandTurn,
       ExpandEnd, EndOfFile, NextLine

(* open(2) and dup2(2) change descriptors only.                              *)
LEMMA DescriptorStep ==
  ASSUME OpenIn \/ OpenOut \/ OpenErr \/ Dup2In \/ Dup2Out \/ Dup2Err
  PROVE  /\ UNCHANGED <<proc, conf, parse>> /\ call # "none"
         /\ call' \in {"open out", "open err", "dup2 in", "dup2 out", "dup2 err", "umask"}
BY DEF OpenIn, OpenOut, OpenErr, Dup2In, Dup2Out, Dup2Err, Open, Dup2, Then, configurationVars,
       parserVars

(* Each step keeps what is settled.                                          *)
LEMMA SettledStep == SettledInv /\ [Next]_vars => SettledInv'
<1>. SUFFICES ASSUME SettledInv, [Next]_vars PROVE SettledInv'
  OBVIOUS
<1>. USE CallSets DEF Workdir, Argv
<1>1. CASE ParserNext /\ UNCHANGED childVars
  BY <1>1, ParserBefore DEF SettledInv, Fields, childVars
<1>2. CASE Fork
  BY <1>2 DEF Fork, SettledInv, Fields, configurationVars, parserVars
<1>3. CASE OpenIn \/ OpenOut \/ OpenErr \/ Dup2In \/ Dup2Out \/ Dup2Err
  BY <1>3, DescriptorStep DEF SettledInv, Fields
<1>4. CASE SetUmask
  BY <1>4 DEF SetUmask, Then, Change, SettledInv, Fields, configurationVars, parserVars
<1>5. CASE Chdir
  BY <1>5 DEF Chdir, Then, Change, SettledInv, Fields, configurationVars, parserVars
<1>6. CASE Sigprocmask
  BY <1>6 DEF Sigprocmask, Then, Change, SettledInv, Fields, configurationVars, parserVars
<1>7. CASE SetUid
  BY <1>7 DEF SetUid, Then, Change, SettledInv, Fields, configurationVars, parserVars
<1>8. CASE SetGid
  BY <1>8 DEF SetGid, Then, Change, SettledInv, Fields, configurationVars, parserVars
<1>9. CASE SetSid
  BY <1>9 DEF SetSid, Then, Change, SettledInv, Fields, configurationVars, parserVars
<1>10. CASE SetPriority
  BY <1>10 DEF SetPriority, Then, Change, SettledInv, Fields, configurationVars, parserVars
<1>11. CASE Execve
  BY <1>11 DEF Execve, Then, SettledInv, Fields, configurationVars, parserVars
<1>12. CASE Err
  BY <1>12 DEF Err, SettledInv, Fields, configurationVars, parserVars
<1>13. CASE Signal
  BY <1>13 DEF Signal, SettledInv, Fields, configurationVars, parserVars
<1>14. CASE UNCHANGED vars
  BY <1>14 DEF vars, childVars, configurationVars, parserVars, SettledInv, Fields
<1>. QED BY <1>1, <1>2, <1>3, <1>4, <1>5, <1>6, <1>7, <1>8, <1>9, <1>10, <1>11, <1>12, <1>13, <1>14
  DEF Next, ChildNext

(* Whatever fails and whatever comes in between, a program is run with all   *)
(* that its configuration says, or not at all (daemon.c:120-154).            *)
THEOREM RunsAsSaid == Spec => []RunsAsConfigured
<1>1. Init => SettledInv
  BY CallSets DEF Init, ChildInit, Inherited, SettledInv, Fields
<1>2. SettledInv => RunsAsConfigured
  BY CallSets DEF SettledInv, Fields, RunsAsConfigured
<1>. QED BY <1>1, <1>2, SettledStep, PTL DEF Spec, vars

-----------------------------------------------------------------------------
(* Descriptors: where the streams are opened.                                *)

Filed == {"umask"} \cup Umask
Copied1 == {"dup2 err"} \cup Filed
Copied0 == {"dup2 out"} \cup Copied1
OpenedErr == {"dup2 in"} \cup Copied0
OpenedOut == {"open err"} \cup OpenedErr
OpenedIn == {"open out"} \cup OpenedOut

(* The sets of calls, as they are used together.                             *)
LEMMA OpenSets ==
  /\ Filed = {"umask", "chdir", "sigprocmask", "setuid", "setgid", "setsid", "setpriority",
              "execve", "run"}
  /\ Copied1 = {"dup2 err"} \cup Filed
  /\ Copied0 = {"dup2 out", "dup2 err"} \cup Filed
  /\ OpenedErr = {"dup2 in", "dup2 out", "dup2 err"} \cup Filed
  /\ OpenedOut = {"open err", "dup2 in", "dup2 out", "dup2 err"} \cup Filed
  /\ OpenedIn = {"open out", "open err", "dup2 in", "dup2 out", "dup2 err"} \cup Filed
BY CallSets DEF Filed, Copied1, Copied0, OpenedErr, OpenedOut, OpenedIn

Least(d, S) == d \in Nat /\ d \notin S /\ 0..d - 1 \subseteq S

(* Each stream was opened at the least descriptor which neither cyberd nor   *)
(* the streams before it used.                                               *)
PlacesInv ==
  /\ DOMAIN table \subseteq Nat
  /\ std = [in |-> std.in, out |-> std.out, err |-> std.err]
  /\ call = "open in" => DOMAIN fds = DOMAIN table
  /\ call = "open out" => DOMAIN fds = DOMAIN table \cup {std.in}
  /\ call = "open err" => DOMAIN fds = DOMAIN table \cup {std.in, std.out}
  /\ call \in OpenedIn => Least(std.in, DOMAIN table)
  /\ call \in OpenedOut => Least(std.out, DOMAIN table \cup {std.in})
  /\ call \in OpenedErr =>
       IF conf.err = NULL THEN std.err = std.out
       ELSE Least(std.err, DOMAIN table \cup {std.in, std.out})

(* open(2) finds the least descriptor.                                       *)
LEMMA OpenLeast ==
  ASSUME NEW f, NEW s, Open(f, s)
  PROVE  \E d : /\ Least(d, DOMAIN fds)
                /\ fds' = [e \in DOMAIN fds \cup {d} |-> IF e = d THEN File(f, TRUE) ELSE fds[e]]
                /\ std' = [std EXCEPT ![s] = d]
<1>1. PICK d \in 0..Cardinality(DOMAIN fds) :
        /\ d \notin DOMAIN fds /\ 0..d - 1 \subseteq DOMAIN fds
        /\ fds' = [e \in DOMAIN fds \cup {d} |-> IF e = d THEN File(f, TRUE) ELSE fds[e]]
        /\ std' = [std EXCEPT ![s] = d]
  BY DEF Open
<1>2. Least(d, DOMAIN fds)
  BY <1>1 DEF Least
<1>. QED BY <1>1, <1>2

(* The calls behind the opening of the streams keep where they are.          *)
LEMMA LaterStep ==
  ASSUME \/ Dup2In \/ Dup2Out \/ Dup2Err \/ SetUmask \/ Chdir \/ Sigprocmask \/ SetUid \/ SetGid
         \/ SetSid \/ SetPriority \/ Execve
  PROVE  UNCHANGED <<table, std, conf>> /\ call \in OpenedErr /\ call' \in OpenedErr
BY OpenSets DEF Dup2In, Dup2Out, Dup2Err, SetUmask, Chdir, Sigprocmask, SetUid, SetGid, SetSid,
                SetPriority, Execve, Dup2, Change, Then, configurationVars

(* A failure or a signal changes neither the call nor the descriptors.       *)
LEMMA EndStep ==
  ASSUME Err \/ Signal
  PROVE  UNCHANGED <<table, std, fds, conf, call>>
BY DEF Err, Signal, configurationVars

(* What cyberd may have open when it forks.                                  *)
LEMMA ForkTable ==
  ASSUME Fork
  PROVE  /\ DOMAIN table' \subseteq Nat
         /\ \A d \in DOMAIN table' : \/ table'[d] \in {Own(Source), Own(Socket)}
                                     \/ d \in {0, 1, 2} /\ table'[d] = Own(Console)
<1>1. PICK used \in SUBSET (0..MaxUsed), streams \in {{}, 0..2} :
        \E source \in {{}} \cup {{d} : d \in used \ streams} :
          table' = [d \in used \cup streams |->
                      CASE d \in streams -> Own(Console)
                        [] d \in source -> Own(Source)
                        [] OTHER -> Own(Socket)]
  BY Zenon DEF Fork
<1>2. PICK source \in {{}} \cup {{d} : d \in used \ streams} :
        table' = [d \in used \cup streams |->
                    CASE d \in streams -> Own(Console)
                      [] d \in source -> Own(Source)
                      [] OTHER -> Own(Socket)]
  BY <1>1, Zenon
<1>3. streams \subseteq 0..2
  BY <1>1
<1>4. used \subseteq Nat
  <2>1. 0..MaxUsed \subseteq Nat
    BY NumbersAssumption
  <2>. QED BY <2>1
<1>5. DOMAIN table' = used \cup streams
  BY <1>2
<1>6. ASSUME NEW d \in used \cup streams
      PROVE  table'[d] \in {Own(Source), Own(Socket)} \/ (d \in streams /\ table'[d] = Own(Console))
  <2>1. table'[d] = CASE d \in streams -> Own(Console)
                      [] d \in source -> Own(Source)
                      [] OTHER -> Own(Socket)
    BY <1>2
  <2>2. CASE d \in streams
    <3>1. d \in source => FALSE
      BY <2>2
    <3>. QED BY <2>1, <2>2, <3>1
  <2>3. CASE d \notin streams /\ d \in source
    BY <2>1, <2>3
  <2>4. CASE d \notin streams /\ d \notin source
    BY <2>1, <2>4
  <2>. QED BY <2>2, <2>3, <2>4
<1>7. DOMAIN table' \subseteq Nat
  BY <1>3, <1>4, <1>5
<1>8. \A d \in DOMAIN table' : \/ table'[d] \in {Own(Source), Own(Socket)}
                               \/ d \in {0, 1, 2} /\ table'[d] = Own(Console)
  <2>. SUFFICES ASSUME NEW d \in used \cup streams
                PROVE  \/ table'[d] \in {Own(Source), Own(Socket)}
                       \/ d \in {0, 1, 2} /\ table'[d] = Own(Console)
    BY <1>5
  <2>1. table'[d] \in {Own(Source), Own(Socket)} \/ (d \in streams /\ table'[d] = Own(Console))
    BY <1>6, Zenon
  <2>2. d \in streams => d \in {0, 1, 2}
    BY <1>3
  <2>. QED BY <2>1, <2>2, Zenon
<1>. QED BY <1>7, <1>8

(* Without a child there are no places yet.                                  *)
LEMMA PlacesStep == SettledInv /\ PlacesInv /\ [Next]_vars => PlacesInv'
<1>. SUFFICES ASSUME SettledInv, PlacesInv, [Next]_vars PROVE PlacesInv'
  OBVIOUS
<1>. USE OpenSets
<1>1. CASE ParserNext /\ UNCHANGED childVars
  <2>1. call = "none"
    BY <1>1, ParserBefore
  <2>. QED BY <1>1, <2>1 DEF childVars, PlacesInv
<1>2. CASE Fork
  <2>1. DOMAIN table' \subseteq Nat
    BY <1>2, ForkTable
  <2>2. call' = "open in" /\ UNCHANGED std /\ fds' = table'
    BY <1>2 DEF Fork
  <2>3. call' \notin OpenedIn \cup OpenedOut \cup OpenedErr \cup {"open out", "open err"}
    BY <2>2
  <2>. QED BY <2>1, <2>2, <2>3 DEF PlacesInv
<1>3. CASE OpenIn
  <2>1. PICK d : /\ Least(d, DOMAIN fds) /\ std' = [std EXCEPT !.in = d]
                 /\ DOMAIN fds' = DOMAIN fds \cup {d}
    BY <1>3, OpenLeast DEF OpenIn
  <2>. QED BY <1>3, <2>1 DEF OpenIn, Then, PlacesInv
<1>4. CASE OpenOut
  <2>1. PICK d : /\ Least(d, DOMAIN fds) /\ std' = [std EXCEPT !.out = d]
                 /\ DOMAIN fds' = DOMAIN fds \cup {d}
    BY <1>4, OpenLeast DEF OpenOut
  <2>. QED BY <1>4, <2>1 DEF OpenOut, Then, PlacesInv
<1>5. CASE OpenErr /\ conf.err = NULL
  BY <1>5 DEF OpenErr, Then, PlacesInv, configurationVars
<1>6. CASE OpenErr /\ conf.err # NULL
  <2>1. PICK d : Least(d, DOMAIN fds) /\ std' = [std EXCEPT !.err = d]
    BY <1>6, OpenLeast DEF OpenErr
  <2>. QED BY <1>6, <2>1 DEF OpenErr, Then, PlacesInv, configurationVars
<1>7. CASE \/ Dup2In \/ Dup2Out \/ Dup2Err \/ SetUmask \/ Chdir \/ Sigprocmask \/ SetUid \/ SetGid
           \/ SetSid \/ SetPriority \/ Execve
  BY <1>7, LaterStep DEF PlacesInv
<1>8. CASE Err \/ Signal
  BY <1>8, EndStep DEF PlacesInv
<1>9. CASE UNCHANGED vars
  BY <1>9 DEF vars, childVars, configurationVars, PlacesInv
<1>. QED BY <1>1, <1>2, <1>3, <1>4, <1>5, <1>6, <1>7, <1>8, <1>9 DEF Next, ChildNext

(* The streams are opened in order, and all of them miss the places where    *)
(* dup2(2) would do nothing exactly if cyberd uses these.                    *)
LEMMA PlacesOrdered ==
  ASSUME PlacesInv, call \in OpenedErr
  PROVE  /\ std.in \in Nat /\ std.out \in Nat /\ std.err \in Nat
         /\ std.in < std.out /\ std.out <= std.err
         /\ conf.err # NULL => std.out < std.err
         /\ conf.err = NULL => std.out = std.err
         /\ std.in # 0 /\ std.out # 1 /\ std.err # 2
              <=> 0 \in DOMAIN table /\ (DOMAIN table \cap {1, 2} # {} \/ conf.err # NULL)
<1>. DEFINE T == DOMAIN table
<1>1. Least(std.in, T) /\ Least(std.out, T \cup {std.in})
  BY OpenSets DEF PlacesInv
<1>2. std.in \in Nat /\ std.out \in Nat /\ std.in < std.out
  <2>1. std.out < std.in => std.out \in T
    BY <1>1 DEF Least
  <2>. QED BY <1>1, <2>1 DEF Least
<1>3. /\ std.err \in Nat /\ std.out <= std.err /\ (conf.err # NULL => std.out < std.err)
      /\ (conf.err = NULL => std.out = std.err)
  <2>1. CASE conf.err = NULL
    <3>1. std.err = std.out
      BY <2>1 DEF PlacesInv
    <3>. QED BY <2>1, <3>1, <1>2
  <2>2. CASE conf.err # NULL
    <3>1. Least(std.err, T \cup {std.in, std.out})
      BY <2>2 DEF PlacesInv
    <3>2. std.err < std.out => std.err \in T \cup {std.in}
      BY <1>1, <3>1 DEF Least
    <3>. QED BY <2>2, <3>1, <3>2, <1>2 DEF Least
  <2>. QED BY <2>1, <2>2
<1>4. std.in = 0 <=> 0 \notin T
  <2>1. std.in # 0 => 0 \in 0..std.in - 1
    BY <1>2
  <2>. QED BY <1>1, <2>1 DEF Least
<1>5. std.in # 0 => (std.in = 1 <=> 1 \notin T)
  <2>1. std.in > 1 => 1 \in 0..std.in - 1
    BY <1>2
  <2>. QED BY <1>1, <1>2, <2>1 DEF Least
<1>6. std.in = 1 => (std.out = 2 <=> 2 \notin T)
  <2>1. std.in = 1 /\ std.out > 2 => 2 \in 0..std.out - 1
    BY <1>2
  <2>. QED BY <1>1, <1>2, <2>1 DEF Least
<1>7. std.in # 0 => std.out # 1 /\ (std.out = 2 => std.in = 1)
  BY <1>2
<1>8. std.err = 2 /\ std.in # 0 => conf.err = NULL /\ std.out = 2
  BY <1>2, <1>3
<1>. QED BY <1>2, <1>3, <1>4, <1>5, <1>6, <1>7, <1>8

-----------------------------------------------------------------------------
(* Types.                                                                    *)

(* The parser reads on to the line behind the last one.                      *)
LEMMA ParserTypes ==
  ASSUME TypeOK, FileType, ParserNext
  PROVE  /\ parse' \in {"reading", "expanding", "parsed", "failed"}
         /\ line' \in 1..Len(file') + 1 /\ section' \in Sections \cup {NULL}
         /\ FileType' /\ parse \in {"reading", "expanding"}
<1>1. Len(file) \in Nat
  BY DEF FileType
<1>2. CASE ReadSection \/ SkipLine \/ ReadValue \/ ReadArguments
  BY <1>1, <1>2 DEF ReadSection, SkipLine, ReadValue, ReadArguments, NextLine, TypeOK, FileType
<1>3. CASE ExpandTurn \/ ExpandEnd \/ EndOfFile
  BY <1>3 DEF ExpandTurn, ExpandEnd, EndOfFile, parserVars, TypeOK, FileType
<1>. QED BY <1>2, <1>3 DEF ParserNext

(* A descriptor which is opened is a number, and is closed by execve(2).     *)
LEMMA OpenTypes ==
  ASSUME TypeOK, NEW f, NEW s \in {"in", "out", "err"}, Open(f, s)
  PROVE  /\ std' \in [{"in", "out", "err"} -> Nat]
         /\ \A d \in DOMAIN fds' : d \in Nat /\ fds'[d].cloexec \in BOOLEAN
<1>1. PICK d \in 0..Cardinality(DOMAIN fds) :
        /\ fds' = [e \in DOMAIN fds \cup {d} |-> IF e = d THEN File(f, TRUE) ELSE fds[e]]
        /\ std' = [std EXCEPT ![s] = d]
  BY DEF Open
<1>2. File(f, TRUE).cloexec = TRUE
  BY DEF File
<1>3. d \in Nat
  BY <1>1
<1>4. std' \in [{"in", "out", "err"} -> Nat]
  BY <1>1, <1>3 DEF TypeOK
<1>5. ASSUME NEW e \in DOMAIN fds'
      PROVE  e \in Nat /\ fds'[e].cloexec \in BOOLEAN
  <2>1. CASE e = d
    BY <1>1, <1>2, <1>3, <2>1
  <2>2. CASE e # d
    BY <1>1, <2>2 DEF TypeOK
  <2>. QED BY <2>1, <2>2
<1>. QED BY <1>4, <1>5

(* The calls change the child only.                                          *)
LEMMA CallTypes ==
  ASSUME TypeOK,
         \/ OpenIn \/ OpenOut \/ OpenErr \/ Dup2In \/ Dup2Out \/ Dup2Err \/ SetUmask \/ Chdir
         \/ Sigprocmask \/ SetUid \/ SetGid \/ SetSid \/ SetPriority \/ Execve
  PROVE  /\ UNCHANGED <<file, parse, line, section, ended>>
         /\ call # "none" /\ call' \in Calls \ {"none"} /\ ended = "no"
BY DEF OpenIn, OpenOut, OpenErr, Dup2In, Dup2Out, Dup2Err, SetUmask, Chdir, Sigprocmask, SetUid,
       SetGid, SetSid, SetPriority, Execve, Then, configurationVars, parserVars, Calls

(* Descriptors are numbers, whatever is copied and closed.                   *)
LEMMA DescriptorTypes ==
  ASSUME TypeOK,
         \/ OpenIn \/ OpenOut \/ OpenErr \/ Dup2In \/ Dup2Out \/ Dup2Err \/ SetUmask \/ Chdir
         \/ Sigprocmask \/ SetUid \/ SetGid \/ SetSid \/ SetPriority \/ Execve
  PROVE  /\ std' \in [{"in", "out", "err"} -> Nat]
         /\ \A d \in DOMAIN fds' : d \in Nat /\ fds'[d].cloexec \in BOOLEAN
<1>1. CASE OpenIn
  BY <1>1, OpenTypes DEF OpenIn
<1>2. CASE OpenOut
  BY <1>2, OpenTypes DEF OpenOut
<1>3. CASE OpenErr
  <2>1. CASE conf.err = NULL
    <3>1. std' = [std EXCEPT !.err = std.out] /\ fds' = fds
      BY <1>3, <2>1 DEF OpenErr
    <3>. QED BY <3>1 DEF TypeOK
  <2>2. CASE conf.err # NULL
    BY <1>3, <2>2, OpenTypes DEF OpenErr
  <2>. QED BY <2>1, <2>2
<1>4. ASSUME NEW s \in {"in", "out", "err"}, NEW n \in Nat, Dup2(s, n)
      PROVE  /\ std' \in [{"in", "out", "err"} -> Nat]
             /\ \A d \in DOMAIN fds' : d \in Nat /\ fds'[d].cloexec \in BOOLEAN
  <2>1. File(fds[std[s]].file, FALSE).cloexec = FALSE
    BY DEF File
  <2>. QED BY <1>4, <2>1 DEF Dup2, TypeOK
<1>5. CASE Dup2In \/ Dup2Out \/ Dup2Err
  BY <1>4, <1>5 DEF Dup2In, Dup2Out, Dup2Err
<1>6. CASE Execve
  BY <1>6 DEF Execve, TypeOK
<1>7. CASE \/ SetUmask \/ Chdir \/ Sigprocmask \/ SetUid \/ SetGid \/ SetSid \/ SetPriority
  BY <1>7 DEF SetUmask, Chdir, Sigprocmask, SetUid, SetGid, SetSid, SetPriority, Change, TypeOK
<1>. QED BY <1>1, <1>2, <1>3, <1>5, <1>6, <1>7

(* Each step keeps the types.                                                *)
LEMMA TypeStep == TypeOK /\ FileType /\ [Next]_vars => TypeOK' /\ FileType'
<1>. SUFFICES ASSUME TypeOK, FileType, [Next]_vars PROVE TypeOK' /\ FileType'
  OBVIOUS
<1>1. CASE ParserNext /\ UNCHANGED childVars
  BY <1>1, ParserTypes DEF TypeOK, childVars
<1>2. CASE Fork
  <2>1. /\ UNCHANGED <<file, parse, line, section, ended, std>> /\ fds' = table'
        /\ call' = "open in" /\ parse = "parsed" /\ call = "none"
    BY <1>2 DEF Fork, configurationVars, parserVars
  <2>2. \A f : Own(f).cloexec \in BOOLEAN
    BY DEF Own, File
  <2>3. \A d \in DOMAIN fds' : d \in Nat /\ fds'[d].cloexec \in BOOLEAN
    BY <1>2, <2>1, <2>2, ForkTable
  <2>. QED BY <2>1, <2>3 DEF TypeOK, FileType, Calls
<1>3. CASE \/ OpenIn \/ OpenOut \/ OpenErr \/ Dup2In \/ Dup2Out \/ Dup2Err \/ SetUmask \/ Chdir
           \/ Sigprocmask \/ SetUid \/ SetGid \/ SetSid \/ SetPriority \/ Execve
  <2>1. /\ UNCHANGED <<file, parse, line, section, ended>>
        /\ call # "none" /\ call' \in Calls \ {"none"} /\ ended = "no"
    BY <1>3, CallTypes
  <2>2. /\ std' \in [{"in", "out", "err"} -> Nat]
        /\ \A d \in DOMAIN fds' : d \in Nat /\ fds'[d].cloexec \in BOOLEAN
    BY <1>3, DescriptorTypes
  <2>. QED BY <2>1, <2>2 DEF TypeOK, FileType
<1>4. CASE Err \/ Signal
  <2>1. /\ UNCHANGED <<file, parse, line, section, call, std, fds>>
        /\ ended' \in {ended, "exitfailure", "killed", "dumped"} /\ call \notin {"none", "run"}
    BY <1>4 DEF Err, Signal, Fails, configurationVars, parserVars
  <2>. QED BY <2>1 DEF TypeOK, FileType
<1>5. CASE UNCHANGED vars
  BY <1>5 DEF vars, childVars, configurationVars, parserVars, TypeOK, FileType
<1>. QED BY <1>1, <1>2, <1>3, <1>4, <1>5 DEF Next, ChildNext

(* The parser stays within the file, the child is there only once a file has *)
(* been parsed and ends only before it is a program, and its descriptors are *)
(* numbers (daemon.c:83-154).                                                *)
THEOREM ChildTypes == Spec => []TypeOK
<1>1. Init => TypeOK /\ FileType
  <2>. SUFFICES ASSUME Init PROVE TypeOK /\ FileType
    OBVIOUS
  <2>1. FileType /\ line = 1 /\ section = General /\ parse = "reading"
    BY FilesAssumption DEF Init, ParserInit, FileType
  <2>2. Len(file) \in Nat
    BY <2>1 DEF FileType
  <2>. QED BY <2>1, <2>2 DEF Init, ChildInit, TypeOK, Calls, Sections
<1>. QED BY <1>1, TypeStep, PTL DEF Spec, vars

-----------------------------------------------------------------------------
(* Descriptors: what they are open for.                                      *)

IsFile(d, f, cloexec) == d \in DOMAIN fds /\ fds[d] = File(f, cloexec)

IsCopy(d, n, f) == IF d = n THEN IsFile(n, f, TRUE) ELSE IsFile(n, f, FALSE)

(* What cyberd uses. *)
TableInv ==
  call # "none" => \A d \in DOMAIN table : \/ table[d] \in {Own(Source), Own(Socket)}
                                           \/ d \in {0, 1, 2} /\ table[d] = Own(Console)

(* A stream is open where it was opened until it has been copied. *)
OpenInv ==
  /\ call \in OpenedIn \ Copied0 => IsFile(std.in, InFile, TRUE)
  /\ call \in OpenedOut \ Copied1 => IsFile(std.out, OutFile, TRUE)
  /\ call \in OpenedErr \ Filed => IsFile(std.err, ErrFile, TRUE)

(* A copy stays in its place, and is closed only where dup2(2) did nothing. *)
CopyInv ==
  /\ call \in Copied0 \ {"run"} => IsCopy(std.in, 0, InFile)
  /\ call \in Copied1 \ {"run"} => IsCopy(std.out, 1, OutFile)
  /\ call \in Filed \ {"run"} => IsCopy(std.err, 2, ErrFile)

(* Nothing else is left but what cyberd has open, and leaves open. *)
RestInv ==
  call \in {"open in"} \cup OpenedIn =>
    \A d \in DOMAIN fds : \/ d \in {0, 1, 2} \/ fds[d].cloexec
                          \/ d \in DOMAIN table /\ fds[d] = table[d]

(* The program has those copies which are not closed. *)
RunInv ==
  call = "run" =>
    /\ \A d \in DOMAIN fds : ~fds[d].cloexec
    /\ IF std.in = 0 THEN 0 \notin DOMAIN fds ELSE IsFile(0, InFile, FALSE)
    /\ IF std.out = 1 THEN 1 \notin DOMAIN fds ELSE IsFile(1, OutFile, FALSE)
    /\ IF std.err = 2 THEN 2 \notin DOMAIN fds ELSE IsFile(2, ErrFile, FALSE)

FilesInv == TableInv /\ OpenInv /\ CopyInv /\ RestInv /\ RunInv

Opened(d, f) ==
  /\ d \notin DOMAIN fds /\ DOMAIN fds' = DOMAIN fds \cup {d}
  /\ fds'[d] = File(f, TRUE) /\ fds'[d].cloexec
  /\ \A e \in DOMAIN fds : fds'[e] = fds[e]

(* open(2) tells where it has opened a stream, and keeps all the others.     *)
LEMMA OpenStream ==
  ASSUME PlacesInv, NEW f, NEW s \in {"in", "out", "err"}, Open(f, s)
  PROVE  /\ Opened(std'[s], f)
         /\ \A r \in {"in", "out", "err"} \ {s} : std'[r] = std[r]
<1>1. PICK d \in 0..Cardinality(DOMAIN fds) :
        /\ d \notin DOMAIN fds /\ 0..d - 1 \subseteq DOMAIN fds
        /\ fds' = [e \in DOMAIN fds \cup {d} |-> IF e = d THEN File(f, TRUE) ELSE fds[e]]
        /\ std' = [std EXCEPT ![s] = d]
  BY DEF Open
<1>2. std = [in |-> std.in, out |-> std.out, err |-> std.err]
  BY DEF PlacesInv
<1>3. std'[s] = d /\ \A r \in {"in", "out", "err"} \ {s} : std'[r] = std[r]
  <2>1. CASE s = "in"
    BY <1>1, <1>2, <2>1
  <2>2. CASE s = "out"
    BY <1>1, <1>2, <2>2
  <2>3. CASE s = "err"
    BY <1>1, <1>2, <2>3
  <2>. QED BY <2>1, <2>2, <2>3
<1>4. fds'[d] = File(f, TRUE) /\ fds'[d].cloexec
  BY <1>1 DEF File
<1>. QED BY <1>1, <1>3, <1>4 DEF Opened

(* The streams are opened from what is configured.                           *)
LEMMA OpenNamed ==
  ASSUME PlacesInv
  PROVE  /\ OpenIn => /\ call = "open in" /\ call' = "open out"
                      /\ Opened(std'.in, InFile) /\ DOMAIN fds = DOMAIN table
         /\ OpenOut => /\ call = "open out" /\ call' = "open err"
                       /\ Opened(std'.out, OutFile) /\ std'.in = std.in
         /\ OpenErr => /\ call = "open err" /\ call' = "dup2 in"
                       /\ std'.in = std.in /\ std'.out = std.out
                       /\ IF conf.err = NULL THEN std'.err = std.out /\ fds' = fds
                          ELSE Opened(std'.err, ErrFile)
         /\ OpenIn \/ OpenOut \/ OpenErr => UNCHANGED <<table, conf>>
<1>1. CASE OpenIn
  <2>1. Open(InFile, "in")
    BY <1>1 DEF OpenIn, InFile
  <2>. QED
    BY <1>1, <2>1, OpenStream DEF OpenIn, OpenOut, OpenErr, Then, PlacesInv, configurationVars
<1>2. CASE OpenOut
  <2>1. Open(OutFile, "out")
    BY <1>2 DEF OpenOut, OutFile
  <2>. QED BY <1>2, <2>1, OpenStream DEF OpenIn, OpenOut, OpenErr, Then, configurationVars
<1>3. CASE OpenErr
  <2>1. CASE conf.err = NULL
    BY <1>3, <2>1 DEF OpenIn, OpenOut, OpenErr, Then, PlacesInv, configurationVars
  <2>2. CASE conf.err # NULL
    <3>1. Open(ErrFile, "err")
      BY <1>3, <2>2 DEF OpenErr, ErrFile
    <3>. QED BY <1>3, <2>2, <3>1, OpenStream DEF OpenIn, OpenOut, OpenErr, Then, configurationVars
  <2>. QED BY <2>1, <2>2
<1>. QED BY <1>1, <1>2, <1>3

Kept(n) ==
  /\ \A d \in DOMAIN fds : d # n => d \in DOMAIN fds' /\ fds'[d] = fds[d]
  /\ \A d \in DOMAIN fds' : d \in DOMAIN fds \/ d = n

(* dup2(2) touches no descriptor but its target, and not even this one if it *)
(* is its source.                                                            *)
LEMMA Dup2Files ==
  ASSUME NEW s, NEW n, Dup2(s, n), NEW f, IsFile(std[s], f, TRUE)
  PROVE  n \in DOMAIN fds' /\ fds'[n] = File(f, IF std[s] = n THEN TRUE ELSE FALSE) /\ Kept(n)
<1>1. CASE std[s] = n
  BY <1>1 DEF Dup2, IsFile, Kept
<1>2. CASE std[s] # n
  <2>1. fds' = [d \in DOMAIN fds \cup {n} |-> IF d = n THEN File(f, FALSE) ELSE fds[d]]
    BY <1>2 DEF Dup2, File, IsFile
  <2>. QED BY <1>2, <2>1 DEF Kept
<1>. QED BY <1>1, <1>2

(* The streams are copied in their order.                                    *)
LEMMA Dup2Named ==
  ASSUME PlacesInv, FilesInv
  PROVE  /\ Dup2In => /\ call = "dup2 in" /\ call' = "dup2 out" /\ Kept(0)
                      /\ 0 \in DOMAIN fds'
                      /\ fds'[0] = File(InFile, IF std.in = 0 THEN TRUE ELSE FALSE)
         /\ Dup2Out => /\ call = "dup2 out" /\ call' = "dup2 err" /\ Kept(1)
                       /\ 1 \in DOMAIN fds'
                       /\ fds'[1] = File(OutFile, IF std.out = 1 THEN TRUE ELSE FALSE)
         /\ Dup2Err => /\ call = "dup2 err" /\ call' = "umask" /\ Kept(2)
                       /\ 2 \in DOMAIN fds'
                       /\ fds'[2] = File(ErrFile, IF std.err = 2 THEN TRUE ELSE FALSE)
         /\ Dup2In \/ Dup2Out \/ Dup2Err =>
              /\ UNCHANGED <<table, conf, std>>
              /\ std.in \in Nat /\ std.out \in Nat /\ std.err \in Nat
              /\ std.in < std.out /\ std.out <= std.err
              /\ std.out = std.err => ErrFile = OutFile
              /\ std.out # 0 /\ std.err # 0
              /\ std.err = 1 => std.out = 1 /\ ErrFile = OutFile
<1>1. Dup2In => IsFile(std.in, InFile, TRUE) /\ Dup2("in", 0)
  BY OpenSets DEF Dup2In, Then, FilesInv, OpenInv
<1>2. Dup2Out => IsFile(std.out, OutFile, TRUE) /\ Dup2("out", 1)
  BY OpenSets DEF Dup2Out, Then, FilesInv, OpenInv
<1>3. Dup2Err => IsFile(std.err, ErrFile, TRUE) /\ Dup2("err", 2)
  BY OpenSets DEF Dup2Err, Then, FilesInv, OpenInv
<1>4. /\ Dup2In => call = "dup2 in" /\ call' = "dup2 out"
      /\ Dup2Out => call = "dup2 out" /\ call' = "dup2 err"
      /\ Dup2Err => call = "dup2 err" /\ call' = "umask"
      /\ Dup2In \/ Dup2Out \/ Dup2Err => UNCHANGED <<table, conf, std>>
  BY DEF Dup2In, Dup2Out, Dup2Err, Dup2, Then, configurationVars
<1>5. Dup2In \/ Dup2Out \/ Dup2Err =>
        /\ std.in \in Nat /\ std.out \in Nat /\ std.err \in Nat
        /\ std.in < std.out /\ std.out <= std.err
        /\ std.out = std.err => ErrFile = OutFile
  <2>1. Dup2In \/ Dup2Out \/ Dup2Err => call \in OpenedErr
    BY <1>4, OpenSets
  <2>2. \A n \in Nat : ~(n < n)
    OBVIOUS
  <2>. QED BY <2>1, <2>2, PlacesOrdered DEF ErrFile
<1>6. Dup2In =>
        /\ Kept(0) /\ 0 \in DOMAIN fds'
        /\ fds'[0] = File(InFile, IF std.in = 0 THEN TRUE ELSE FALSE)
  BY <1>1, Dup2Files
<1>7. Dup2Out =>
        /\ Kept(1) /\ 1 \in DOMAIN fds'
        /\ fds'[1] = File(OutFile, IF std.out = 1 THEN TRUE ELSE FALSE)
  BY <1>2, Dup2Files
<1>8. Dup2Err =>
        /\ Kept(2) /\ 2 \in DOMAIN fds'
        /\ fds'[2] = File(ErrFile, IF std.err = 2 THEN TRUE ELSE FALSE)
  BY <1>3, Dup2Files
<1>9. Dup2In \/ Dup2Out \/ Dup2Err =>
        /\ std.out # 0 /\ std.err # 0
        /\ std.err = 1 => std.out = 1 /\ ErrFile = OutFile
  <2>1. \A i, o, e \in Nat : i < o /\ o <= e => o # 0 /\ e # 0 /\ (e = 1 => o = e)
    OBVIOUS
  <2>. QED BY <1>5, <2>1
<1>. QED BY <1>4, <1>5, <1>6, <1>7, <1>8, <1>9

(* What dup2(2) keeps.                                                       *)
LEMMA KeptNumbers ==
  /\ Kept(0) => \A n \in {1, 2} : n \in DOMAIN fds => n \in DOMAIN fds' /\ fds'[n] = fds[n]
  /\ Kept(1) => \A n \in {0, 2} : n \in DOMAIN fds => n \in DOMAIN fds' /\ fds'[n] = fds[n]
  /\ Kept(2) => \A n \in {0, 1} : n \in DOMAIN fds => n \in DOMAIN fds' /\ fds'[n] = fds[n]
BY DEF Kept

(* Each call keeps the descriptors in order.                                 *)
LEMMA FilesStep == SettledInv /\ PlacesInv /\ FilesInv /\ [Next]_vars => FilesInv'
<1>. SUFFICES ASSUME SettledInv, PlacesInv, FilesInv, [Next]_vars PROVE FilesInv'
  OBVIOUS
<1>. USE OpenSets
<1>. USE DEF FilesInv, TableInv, OpenInv, CopyInv, RestInv, RunInv, IsFile, IsCopy
<1>1. CASE ParserNext /\ UNCHANGED childVars
  <2>1. call = "none" /\ call' = "none"
    BY <1>1, ParserBefore DEF childVars
  <2>. QED BY <2>1
<1>2. CASE Fork
  <2>1. call' = "open in" /\ fds' = table'
    BY <1>2 DEF Fork
  <2>. QED BY <1>2, <2>1, ForkTable
<1>3. CASE OpenIn
  <2>1. /\ call = "open in" /\ call' = "open out" /\ UNCHANGED <<table, conf>>
        /\ Opened(std'.in, InFile) /\ DOMAIN fds = DOMAIN table
    BY <1>3, OpenNamed
  <2>2. InFile' = InFile
    BY <2>1 DEF InFile
  <2>3. TableInv'
    BY <2>1, <2>2 DEF Opened
  <2>4. OpenInv'
    BY <2>1, <2>2 DEF Opened
  <2>5. CopyInv'
    BY <2>1, <2>2 DEF Opened
  <2>6. RestInv'
    BY <2>1, <2>2 DEF Opened
  <2>7. RunInv'
    BY <2>1, <2>2 DEF Opened
  <2>. QED BY <2>3, <2>4, <2>5, <2>6, <2>7
<1>4. CASE OpenOut
  <2>1. /\ call = "open out" /\ call' = "open err" /\ UNCHANGED <<table, conf>>
        /\ Opened(std'.out, OutFile) /\ std'.in = std.in
    BY <1>4, OpenNamed
  <2>2. InFile' = InFile /\ OutFile' = OutFile
    BY <2>1 DEF InFile, OutFile
  <2>3. TableInv'
    BY <2>1, <2>2 DEF Opened
  <2>4. OpenInv'
    BY <2>1, <2>2 DEF Opened
  <2>5. CopyInv'
    BY <2>1, <2>2 DEF Opened
  <2>6. RestInv'
    BY <2>1, <2>2 DEF Opened
  <2>7. RunInv'
    BY <2>1, <2>2 DEF Opened
  <2>. QED BY <2>3, <2>4, <2>5, <2>6, <2>7
<1>5. CASE OpenErr
  <2>1. /\ call = "open err" /\ call' = "dup2 in" /\ UNCHANGED <<table, conf>>
        /\ std'.in = std.in /\ std'.out = std.out
    BY <1>5, OpenNamed
  <2>2. InFile' = InFile /\ OutFile' = OutFile /\ ErrFile' = ErrFile
    BY <2>1 DEF InFile, OutFile, ErrFile
  <2>3. CASE conf.err = NULL
    <3>1. std'.err = std.out /\ fds' = fds /\ ErrFile = OutFile
      BY <1>5, <2>3, OpenNamed DEF ErrFile
    <3>2. TableInv'
      BY <2>1, <3>1
    <3>3. OpenInv'
      BY <2>1, <2>2, <3>1
    <3>4. CopyInv'
      BY <2>1, <3>1
    <3>5. RestInv'
      BY <2>1, <2>2, <3>1
    <3>6. RunInv'
      BY <2>1, <3>1
    <3>. QED BY <3>2, <3>3, <3>4, <3>5, <3>6
  <2>4. CASE conf.err # NULL
    <3>1. Opened(std'.err, ErrFile)
      BY <1>5, <2>4, OpenNamed
    <3>2. TableInv'
      BY <2>1, <2>2, <3>1 DEF Opened
    <3>3. OpenInv'
      BY <2>1, <2>2, <3>1 DEF Opened
    <3>4. CopyInv'
      BY <2>1, <2>2, <3>1 DEF Opened
    <3>5. RestInv'
      BY <2>1, <2>2, <3>1 DEF Opened
    <3>6. RunInv'
      BY <2>1, <2>2, <3>1 DEF Opened
    <3>. QED BY <3>2, <3>3, <3>4, <3>5, <3>6
  <2>. QED BY <2>3, <2>4
<1>6. CASE Dup2In
  <2>1. /\ call = "dup2 in" /\ call' = "dup2 out" /\ UNCHANGED <<table, conf, std>>
        /\ 0 \in DOMAIN fds' /\ fds'[0] = File(InFile, IF std.in = 0 THEN TRUE ELSE FALSE)
    BY <1>6, Dup2Named
  <2>2. InFile' = InFile /\ OutFile' = OutFile /\ ErrFile' = ErrFile
    BY <2>1 DEF InFile, OutFile, ErrFile
  <2>3. /\ \A d \in DOMAIN fds : d # 0 => d \in DOMAIN fds' /\ fds'[d] = fds[d]
        /\ \A d \in DOMAIN fds' : d \in DOMAIN fds \/ d = 0
        /\ 1 \in DOMAIN fds => 1 \in DOMAIN fds' /\ fds'[1] = fds[1]
        /\ 2 \in DOMAIN fds => 2 \in DOMAIN fds' /\ fds'[2] = fds[2]
    BY <1>6, Dup2Named, KeptNumbers DEF Kept
  <2>4. std.out # 0 /\ std.err # 0
    BY <1>6, Dup2Named
  <2>5. TableInv'
    BY <2>1, <2>2, <2>3, <2>4
  <2>6. OpenInv'
    BY <2>1, <2>2, <2>3, <2>4
  <2>7. CopyInv'
    BY <2>1, <2>2, <2>3, <2>4
  <2>8. RestInv'
    BY <2>1, <2>2, <2>3, <2>4
  <2>9. RunInv'
    BY <2>1, <2>2, <2>3, <2>4
  <2>. QED BY <2>5, <2>6, <2>7, <2>8, <2>9
<1>7. CASE Dup2Out
  <2>1. /\ call = "dup2 out" /\ call' = "dup2 err" /\ UNCHANGED <<table, conf, std>>
        /\ 1 \in DOMAIN fds' /\ fds'[1] = File(OutFile, IF std.out = 1 THEN TRUE ELSE FALSE)
    BY <1>7, Dup2Named
  <2>2. InFile' = InFile /\ OutFile' = OutFile /\ ErrFile' = ErrFile
    BY <2>1 DEF InFile, OutFile, ErrFile
  <2>3. /\ \A d \in DOMAIN fds : d # 1 => d \in DOMAIN fds' /\ fds'[d] = fds[d]
        /\ \A d \in DOMAIN fds' : d \in DOMAIN fds \/ d = 1
        /\ 0 \in DOMAIN fds => 0 \in DOMAIN fds' /\ fds'[0] = fds[0]
        /\ 2 \in DOMAIN fds => 2 \in DOMAIN fds' /\ fds'[2] = fds[2]
    BY <1>7, Dup2Named, KeptNumbers DEF Kept
  <2>4. std.err = 1 => std.out = 1 /\ ErrFile = OutFile
    BY <1>7, Dup2Named
  <2>5. TableInv'
    BY <2>1, <2>2, <2>3, <2>4
  <2>6. OpenInv'
    BY <2>1, <2>2, <2>3, <2>4
  <2>7. CopyInv'
    BY <2>1, <2>2, <2>3, <2>4
  <2>8. RestInv'
    BY <2>1, <2>2, <2>3, <2>4
  <2>9. RunInv'
    BY <2>1, <2>2, <2>3, <2>4
  <2>. QED BY <2>5, <2>6, <2>7, <2>8, <2>9
<1>8. CASE Dup2Err
  <2>1. /\ call = "dup2 err" /\ call' = "umask" /\ UNCHANGED <<table, conf, std>>
        /\ 2 \in DOMAIN fds' /\ fds'[2] = File(ErrFile, IF std.err = 2 THEN TRUE ELSE FALSE)
    BY <1>8, Dup2Named
  <2>2. InFile' = InFile /\ OutFile' = OutFile /\ ErrFile' = ErrFile
    BY <2>1 DEF InFile, OutFile, ErrFile
  <2>3. /\ \A d \in DOMAIN fds : d # 2 => d \in DOMAIN fds' /\ fds'[d] = fds[d]
        /\ \A d \in DOMAIN fds' : d \in DOMAIN fds \/ d = 2
        /\ 0 \in DOMAIN fds => 0 \in DOMAIN fds' /\ fds'[0] = fds[0]
        /\ 1 \in DOMAIN fds => 1 \in DOMAIN fds' /\ fds'[1] = fds[1]
    BY <1>8, Dup2Named, KeptNumbers DEF Kept
  <2>5. TableInv'
    BY <2>1, <2>2, <2>3
  <2>6. OpenInv'
    BY <2>1, <2>2, <2>3
  <2>7. CopyInv'
    BY <2>1, <2>2, <2>3
  <2>8. RestInv'
    BY <2>1, <2>2, <2>3
  <2>9. RunInv'
    BY <2>1, <2>2, <2>3
  <2>. QED BY <2>5, <2>6, <2>7, <2>8, <2>9
<1>9. CASE SetUmask \/ Chdir \/ Sigprocmask \/ SetUid \/ SetGid \/ SetSid \/ SetPriority
  <2>1. /\ UNCHANGED <<table, conf, std, fds>>
        /\ call \in Filed \ {"run"} /\ call' \in Filed \ {"run"}
    BY <1>9 DEF SetUmask, Chdir, Sigprocmask, SetUid, SetGid, SetSid, SetPriority, Then, Change,
                configurationVars
  <2>2. InFile' = InFile /\ OutFile' = OutFile /\ ErrFile' = ErrFile
    BY <2>1 DEF InFile, OutFile, ErrFile
  <2>. QED BY <2>1, <2>2
<1>10. CASE Execve
  <2>1. /\ UNCHANGED <<table, conf, std>> /\ call = "execve" /\ call' = "run"
        /\ fds' = [d \in {e \in DOMAIN fds : ~fds[e].cloexec} |-> fds[d]]
    BY <1>10 DEF Execve, Then, configurationVars
  <2>2. InFile' = InFile /\ OutFile' = OutFile /\ ErrFile' = ErrFile
    BY <2>1 DEF InFile, OutFile, ErrFile
  <2>3. \A f : File(f, TRUE).cloexec /\ ~File(f, FALSE).cloexec
    BY DEF File
  <2>4. TableInv' /\ OpenInv' /\ CopyInv'
    BY <2>1, <2>2
  <2>5. RestInv'
    BY <2>1
  <2>6. RunInv'
    BY <2>1, <2>2, <2>3
  <2>. QED BY <2>4, <2>5, <2>6
<1>11. CASE Err \/ Signal \/ UNCHANGED vars
  <2>1. UNCHANGED <<table, std, fds, conf, call>>
    BY <1>11, EndStep DEF vars, childVars, configurationVars
  <2>2. InFile' = InFile /\ OutFile' = OutFile /\ ErrFile' = ErrFile
    BY <2>1 DEF InFile, OutFile, ErrFile
  <2>. QED BY <2>1, <2>2
<1>. QED BY <1>1, <1>2, <1>3, <1>4, <1>5, <1>6, <1>7, <1>8, <1>9, <1>10, <1>11 DEF Next, ChildNext
(* All three of them hold in every state.                                    *)
LEMMA DescriptorsHold == Spec => [](PlacesInv /\ FilesInv)
<1>1. Init => SettledInv /\ PlacesInv /\ FilesInv
  <2>. SUFFICES ASSUME Init PROVE SettledInv /\ PlacesInv /\ FilesInv
    OBVIOUS
  <2>1. SettledInv
    BY CallSets DEF Init, ChildInit, Inherited, SettledInv, Fields
  <2>2. call = "none" /\ std = [in |-> 0, out |-> 0, err |-> 0] /\ table = << >>
    BY DEF Init, ChildInit
  <2>3. PlacesInv
    <3>1. DOMAIN table \subseteq Nat
      BY <2>2
    <3>2. std = [in |-> std.in, out |-> std.out, err |-> std.err]
      BY <2>2
    <3>. QED BY <2>2, <3>1, <3>2, OpenSets DEF PlacesInv
  <2>4. FilesInv
    BY <2>2, OpenSets DEF FilesInv, TableInv, OpenInv, CopyInv, RestInv, RunInv
  <2>. QED BY <2>1, <2>3, <2>4
<1>. QED BY <1>1, SettledStep, PlacesStep, FilesStep, PTL DEF Spec, vars

(* A program has its standard streams, exactly unless cyberd's own are such  *)
(* that one of them is opened in its place (daemon.c:104-112).               *)
THEOREM StreamsAreGot == Spec => []StreamsAreThere
<1>1. PlacesInv /\ FilesInv => StreamsAreThere
  <2>. SUFFICES ASSUME PlacesInv, FilesInv, call = "run" PROVE StreamsAreThere
    BY DEF StreamsAreThere
  <2>1. /\ std.in # 0 /\ std.out # 1 /\ std.err # 2
             <=> 0 \in DOMAIN table /\ (DOMAIN table \cap {1, 2} # {} \/ conf.err # NULL)
    BY PlacesOrdered, OpenSets
  <2>2. \A f, c : File(f, c).file = f
    BY DEF File
  <2>3. IsStream(0, InFile) /\ IsStream(1, OutFile) /\ IsStream(2, ErrFile)
          <=> std.in # 0 /\ std.out # 1 /\ std.err # 2
    BY <2>2 DEF FilesInv, RunInv, IsFile, IsStream
  <2>. QED BY <2>1, <2>3 DEF StreamsAreThere
<1>. QED BY <1>1, DescriptorsHold, PTL

(* Nothing of cyberd's is left open to a program but the file of the daemon, *)
(* whatever descriptors cyberd uses (configuration.c:149).                   *)
THEOREM NothingElseIsInherited == Spec => []InheritsNothingElse
<1>1. FilesInv => InheritsNothingElse
  <2>. SUFFICES ASSUME FilesInv, call = "run", NEW d \in DOMAIN fds
                PROVE  \/ fds[d].file \in {InFile, OutFile, ErrFile}
                       \/ d \in DOMAIN table /\ fds[d].file = Source /\ table[d].file = Source
    BY DEF InheritsNothingElse
  <2>1. \A f, c : File(f, c).file = f
    BY DEF File
  <2>2. CASE d \in {0, 1, 2}
    <3>1. CASE d = 0
      <4>1. fds[0] = File(InFile, FALSE)
        BY <3>1 DEF FilesInv, RunInv, IsFile
      <4>. QED BY <2>1, <3>1, <4>1
    <3>2. CASE d = 1
      <4>1. fds[1] = File(OutFile, FALSE)
        BY <3>2 DEF FilesInv, RunInv, IsFile
      <4>. QED BY <2>1, <3>2, <4>1
    <3>3. CASE d = 2
      <4>1. fds[2] = File(ErrFile, FALSE)
        BY <3>3 DEF FilesInv, RunInv, IsFile
      <4>. QED BY <2>1, <3>3, <4>1
    <3>. QED BY <2>2, <3>1, <3>2, <3>3
  <2>3. CASE d \notin {0, 1, 2}
    <3>1. ~fds[d].cloexec
      BY DEF FilesInv, RunInv
    <3>2. d \in DOMAIN table /\ fds[d] = table[d]
      BY <2>3, <3>1, OpenSets DEF FilesInv, RestInv
    <3>3. table[d] \in {Own(Source), Own(Socket)}
      BY <2>3, <3>2 DEF FilesInv, TableInv
    <3>4. Own(Socket).cloexec /\ Own(Source).file = Source
      BY DEF Own, File
    <3>. QED BY <3>1, <3>2, <3>3, <3>4
  <2>. QED BY <2>2, <2>3
<1>. QED BY <1>1, DescriptorsHold, PTL

-----------------------------------------------------------------------------
(* The child as module Kernel takes it to be.                                *)

(* Only a child which is being set up ends.                                  *)
EndInv ==
  /\ ended \in {"no", "exitfailure", "killed", "dumped"}
  /\ call \in {"none", "run"} => ended = "no"
  /\ call # "none" => parse = "parsed"

(* What a step does to the child, seen as a process.                         *)
LEMMA ChildStep ==
  ASSUME EndInv, [Next]_vars
  PROVE  /\ EndInv'
         /\ \/ Fork
            \/ /\ UNCHANGED ended
               /\ (call = "none" <=> call' = "none") /\ (call = "run" <=> call' = "run")
            \/ call \notin {"none", "run"} /\ ended = "no" /\ call' = "run" /\ ended' = "no"
            \/ call \notin {"none", "run"} /\ ended = "no" /\ UNCHANGED call
               /\ ended' \in {"exitfailure", "killed", "dumped"}
<1>1. CASE ParserNext /\ UNCHANGED childVars
  <2>1. parse # "parsed"
    BY <1>1 DEF ParserNext, ReadSection, SkipLine, ReadValue, ReadArguments, ExpandTurn, ExpandEnd,
                EndOfFile, NextLine
  <2>. QED BY <1>1, <2>1 DEF EndInv, childVars
<1>2. CASE Fork
  BY <1>2 DEF Fork, EndInv, configurationVars, parserVars
<1>3. CASE OpenIn \/ OpenOut \/ OpenErr \/ Dup2In \/ Dup2Out \/ Dup2Err
  BY <1>3 DEF OpenIn, OpenOut, OpenErr, Dup2In, Dup2Out, Dup2Err, Then, EndInv, configurationVars,
              parserVars
<1>4. CASE SetUmask \/ Chdir \/ Sigprocmask \/ SetUid \/ SetGid \/ SetSid \/ SetPriority \/ Execve
  BY <1>4 DEF SetUmask, Chdir, Sigprocmask, SetUid, SetGid, SetSid, SetPriority, Execve, Then,
              EndInv, configurationVars, parserVars
<1>5. CASE Err
  BY <1>5 DEF Err, Fails, EndInv, configurationVars, parserVars
<1>6. CASE Signal
  <2>1. PICK s : \/ UNCHANGED ended
                 \/ ended' \in (IF s = SIGKILL THEN {"killed"} ELSE {"killed", "dumped"})
    BY <1>6 DEF Signal
  <2>. QED BY <1>6, <2>1 DEF Signal, EndInv, configurationVars, parserVars
<1>7. CASE UNCHANGED vars
  BY <1>7 DEF vars, childVars, EndInv, configurationVars, parserVars
<1>. QED BY <1>1, <1>2, <1>3, <1>4, <1>5, <1>6, <1>7 DEF Next, ChildNext

(* The child does what the whole of cyberd was checked with: it becomes its  *)
(* program, or it ends and not with a success (daemon.c:97-156).             *)
THEOREM ChildIsKernels == Spec => IsKernels
<1>1. Init => EndInv
  BY DEF Init, ChildInit, EndInv
<1>2. EndInv /\ [Next]_vars => EndInv'
  BY ChildStep
<1>3. EndInv /\ [Next]_vars =>
        [Fork \/ K!Exec(1) \/ \E cause \in Ends : K!Exit(1, cause)]_(K!kernelVars)
  <2>. SUFFICES ASSUME EndInv, [Next]_vars, ~Fork
                PROVE  \/ K!Exec(1) \/ \E cause \in Ends : K!Exit(1, cause)
                       \/ UNCHANGED K!kernelVars
    OBVIOUS
  <2>1. CASE UNCHANGED ended /\ (call = "none" <=> call' = "none") /\ (call = "run" <=> call' = "run")
    BY <2>1 DEF K!kernelVars
  <2>2. CASE call \notin {"none", "run"} /\ ended = "no" /\ call' = "run" /\ ended' = "no"
    BY <2>2 DEF K!Exec
  <2>3. CASE call \notin {"none", "run"} /\ ended = "no" /\ UNCHANGED call
             /\ ended' \in {"exitfailure", "killed", "dumped"}
    BY <2>3 DEF K!Exit, K!Alive, Ends
  <2>. QED BY <2>1, <2>2, <2>3, ChildStep
<1>. QED BY <1>1, <1>2, <1>3, PTL DEF Spec, vars, IsKernels

-----------------------------------------------------------------------------
(* The file.                                                                 *)

(* Only the parser changes what is read of the file.                         *)
LEMMA FileNext == FileInv /\ [Next]_vars => FileInv'
<1>. SUFFICES ASSUME FileInv, [Next]_vars PROVE FileInv'
  OBVIOUS
<1>1. CASE ParserNext
  BY <1>1, FileStep
<1>2. CASE ~ParserNext
  <2>1. UNCHANGED <<file, database, line, section, conf>>
    <3>1. CASE Fork \/ Err \/ Signal
      BY <3>1 DEF Fork, Err, Signal, configurationVars, parserVars
    <3>2. CASE UNCHANGED vars
      BY <3>2 DEF vars, configurationVars, parserVars
    <3>3. CASE \/ OpenIn \/ OpenOut \/ OpenErr \/ Dup2In \/ Dup2Out \/ Dup2Err \/ SetUmask \/ Chdir
               \/ Sigprocmask \/ SetUid \/ SetGid \/ SetSid \/ SetPriority \/ Execve
      BY <3>3 DEF OpenIn, OpenOut, OpenErr, Dup2In, Dup2Out, Dup2Err, SetUmask, Chdir,
        Sigprocmask, SetUid, SetGid, SetSid, SetPriority, Execve, Then, configurationVars,
        parserVars
    <3>. QED BY <1>2, <3>1, <3>2, <3>3 DEF Next, ChildNext
  <2>2. Only(conf, conf', "arguments")
    BY <2>1, FieldKept DEF FileInv, ConfInv
  <2>. QED BY <2>1, <2>2, FileKept
<1>. QED BY <1>1, <1>2

LEMMA FileBegins == Init => FileInv
BY FilesAssumption, FileInit DEF Init

(* A line which is not misread is taken for what the manual page says,       *)
(* wherever its blanks, its comment, its brackets and its equals signs are   *)
(* (daemon_conf.c:646).                                                      *)
THEOREM LinesAreRead == Spec => []LineMeans
<1>1. FileInv => LineMeans
  <2>. SUFFICES ASSUME FileInv, line <= Len(file), ~Misread(file[line])
                PROVE  Read = Meaning(file[line])
    BY DEF LineMeans
  <2>1. line \in 1..Len(file) /\ file \in Seq(Seq(STRING))
    BY DEF FileInv, LineInv, FileType
  <2>2. file[line] \in Seq(STRING)
    BY <2>1
  <2>. QED BY <2>2, ParsedMeans DEF Read
<1>. QED BY <1>1, FileBegins, FileNext, PTL DEF Spec, vars

(* Neither does anyone else change how far the arguments are read.           *)
LEMMA ListNext == FileInv /\ ListInv /\ [Next]_vars => ListInv'
<1>. SUFFICES ASSUME FileInv, ListInv, [Next]_vars PROVE ListInv'
  OBVIOUS
<1>1. CASE ParserNext
  BY <1>1, ListStep
<1>2. CASE ~ParserNext
  <2>1. UNCHANGED configurationVars
    <3>1. CASE Fork \/ Err \/ Signal
      BY <3>1 DEF Fork, Err, Signal
    <3>2. CASE UNCHANGED vars
      BY <3>2 DEF vars
    <3>3. CASE \/ OpenIn \/ OpenOut \/ OpenErr \/ Dup2In \/ Dup2Out \/ Dup2Err \/ SetUmask \/ Chdir
               \/ Sigprocmask \/ SetUid \/ SetGid \/ SetSid \/ SetPriority \/ Execve
      BY <3>3 DEF OpenIn, OpenOut, OpenErr, Dup2In, Dup2Out, Dup2Err, SetUmask, Chdir,
        Sigprocmask, SetUid, SetGid, SetSid, SetPriority, Execve, Then
    <3>. QED BY <1>2, <3>1, <3>2, <3>3 DEF Next, ChildNext
  <2>. QED BY <2>1, ListStays DEF configurationVars
<1>. QED BY <1>1, <1>2

LEMMA NoListYet == Init => ListInv
<1>1. \A f \in Seq(Seq(STRING \cap Chars)) : f \in Seq(Seq(Chars))
  <2>1. \A l \in Seq(STRING \cap Chars) : l \in Seq(Chars)
    OBVIOUS
  <2>. QED BY <2>1
<1>2. Files \subseteq Seq(Seq(Chars))
  BY <1>1, FilesAssumption
<1>. QED BY <1>2, ListInit DEF Init

(* As long as no line was misread the configuration is what the lines before *)
(* the next one mean: the last valid value of each key of its own section,   *)
(* the arguments of the last list which was closed, all start flags, and the *)
(* environment in order (daemon_conf.c:774).                                 *)
THEOREM FilesAreRead == Spec => []FileMeans
<1>1. FileInv /\ ListInv => FileMeans
  BY DEF FileInv, AsMeant, ListInv, FileMeans
<1>. QED BY <1>1, FileBegins, FileNext, NoListYet, ListNext, PTL DEF Spec, vars

(* A list of words which was quoted in a file is the list of arguments, with *)
(* each word, blank, quote and backslash in its place, whatever is written   *)
(* before and behind it that does not replace it (daemon_conf.c:211).        *)
THEOREM QuotedAreKept == Spec => []QuotedIsKept
<1>1. FileInv /\ ListInv => QuotedIsKept
  <2>. SUFFICES ASSUME FileInv, ListInv PROVE QuotedIsKept
    OBVIOUS
  <2>1. CASE parse = "reading" /\ NoneMisread
    <3>1. ArgumentsAsMeant
      BY <2>1 DEF ListInv
    <3>. QED BY <2>1, <3>1, QuotedKept
  <2>2. CASE ~(parse = "reading" /\ NoneMisread)
    BY <2>2 DEF QuotedIsKept
  <2>. QED BY <2>1, <2>2
<1>. QED BY <1>1, FileBegins, FileNext, NoListYet, ListNext, PTL DEF Spec, vars

=============================================================================
