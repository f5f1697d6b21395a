---------------------------- MODULE CyberdProofs ----------------------------
(***************************************************************************)
(* Theorems about Cyberd, for every set of names, pids and start flags.    *)
(***************************************************************************)
EXTENDS Cyberd, TLAPS

(* fork(2) makes a process: daemon_spawn() writes a record of the type.      *)
LEMMA ForkedType ==
  ASSUME NEW d \in Slots PROVE Forked(d) \in Process
BY DEF Forked, Process, Statuses

(* waitid(2) leaves a process table entry of the type behind.                *)
LEMMA FreeType == Free \in Process
BY DEF Free, Process, Statuses

(* kill(2), with a signal cyberd sends, keeps a process a process.           *)
LEMMA SignalledType ==
  ASSUME NEW q \in Process, NEW s \in Sent PROVE Signalled(q, s) \in Process
BY DEF Signalled, Process, Sent

DaemonType(st, pd, sf, sp, ps) ==
  /\ ps \in [Pids -> Process]
  /\ st \in [Slots -> States]
  /\ pd \in [Slots -> Pids \cup {NoPid}]
  /\ sf \in [Slots -> SUBSET Flags]
  /\ sp \subseteq Slots

(* daemon_spawn() keeps the types, whether fork(2) succeeds or fails, from   *)
(* whatever state its caller has made.                                       *)
LEMMA SpawnType ==
  ASSUME NEW d \in Slots, NEW st, NEW sp, NEW ps,
         DaemonType(st, pid, start, sp, ps), DaemonSpawn(d, st, sp, ps)
  PROVE  DaemonType(state', pid', start, spawns', proc')
BY ForkedType DEF DaemonSpawn, DaemonType, States

(* So does daemon_start().                                                   *)
LEMMA StartType ==
  ASSUME NEW d \in Slots, NEW st, NEW sp, NEW ps,
         DaemonType(st, pid, start, sp, ps), DaemonStart(d, st, sp, ps)
  PROVE  DaemonType(state', pid', start, spawns', proc')
BY SpawnType DEF DaemonStart, DaemonType

(* daemon_stop(), daemon_reload() and daemon_end() keep the types.           *)
LEMMA CommandType ==
  ASSUME NEW d \in Slots, DaemonType(state, pid, start, spawns, proc),
         DaemonStop(d) \/ DaemonReload(d) \/ DaemonEnd(d)
  PROVE  DaemonType(state', pid', start', spawns', proc')
<1>1. CASE DaemonStop(d)
  BY <1>1, SignalledType DEF DaemonStop, DaemonType, States, Sent
<1>2. CASE DaemonReload(d)
  BY <1>2, SignalledType DEF DaemonReload, DaemonType, Sent
<1>3. CASE DaemonEnd(d)
  BY <1>3, SignalledType DEF DaemonEnd, DaemonType, Sent
<1>. QED BY <1>1, <1>2, <1>3

(* spawns_stop() keeps the types.                                            *)
LEMMA SpawnsStopType ==
  ASSUME DaemonType(state, pid, start, spawns, proc), SpawnsStop
  PROVE  DaemonType(state', pid', start', spawns', proc')
BY SignalledType DEF SpawnsStop, DaemonType, States, Sent

(* daemon_destroy() keeps the types, for any set of daemons which a reload   *)
(* destroys.                                                                 *)
LEMMA DestroyType ==
  ASSUME DaemonType(state, pid, start, spawns, proc),
         NEW D \in SUBSET Slots, DaemonDestroy(D)
  PROVE  DaemonType(state', pid', start', spawns', proc)
BY DEF DaemonDestroy, DaemonType, States

(* reaped_daemon() keeps the types, with and without a new start.            *)
LEMMA ReapedType ==
  ASSUME NEW d \in Slots, NEW cause, NEW sp, NEW ps,
         DaemonType(state, pid, start, sp, ps), ReapedDaemon(d, cause, sp, ps)
  PROVE  DaemonType(state', pid', start, spawns', proc')
<1>. DEFINE st == [state EXCEPT ![d] = "STOPPED"]
<1>1. DaemonType(st, pid, start, sp, ps)
  BY DEF DaemonType, States
<1>2. CASE cause \in start[d]
  BY <1>1, <1>2, StartType DEF ReapedDaemon
<1>3. CASE cause \notin start[d]
  BY <1>1, <1>3 DEF ReapedDaemon, DaemonType
<1>. QED BY <1>2, <1>3

-----------------------------------------------------------------------------

SignalType(pn, qd, sr, sc, sh, sa, al) ==
  /\ pn \subseteq {"TERM", "HUP", "CHLD", "ALRM"}
  /\ qd \in Terms
  /\ sr \in Reboots \cup {"none"}
  /\ sc \in BOOLEAN /\ sh \in BOOLEAN /\ sa \in BOOLEAN
  /\ al \in {"off", "armed", "rung"}

(* The handlers keep the types, for any set of signals which pselect(2) or   *)
(* sigsuspend(2) delivers under any mask.                                    *)
LEMMA DeliverType ==
  ASSUME SignalType(pending, queued, sigreboot, sigchld, sighup, sigalrm, alarm),
         NEW S, NEW mask, Deliver(S, mask)
  PROVE  SignalType(pending', queued', sigreboot', sigchld', sighup', sigalrm', alarm')
BY DEF SignalType, Deliver, SigtermHandler, Terms, Howtos, Reboots

(* A SIGTERM which is sent to cyberd is PLAIN or has a known value.          *)
LEMMA RaiseTermType ==
  ASSUME pending \subseteq {"TERM", "HUP", "CHLD", "ALRM"}, queued \in Terms,
         NEW v \in Terms, RaiseTerm(v)
  PROVE  pending' \subseteq {"TERM", "HUP", "CHLD", "ALRM"} /\ queued' \in Terms
BY DEF RaiseTerm

(* TypeOK, in the parts which the components keep. *)
TypeInParts ==
  /\ DaemonType(state, pid, start, spawns, proc)
  /\ SignalType(pending, queued, sigreboot, sigchld, sighup, sigalrm, alarm)
  /\ daemons \subseteq Names /\ olddaemons \subseteq Names /\ unread \subseteq Names
  /\ pc \in Places

(* TypeOK, split into what the daemons, the signals and the configuration    *)
(* have of it.                                                               *)
LEMMA TypeParts == (TypeOK <=> TypeInParts) /\ (TypeOK' <=> TypeInParts')
BY DEF TypeOK, TypeInParts, DaemonType, SignalType

(* A file which configuration_fopenat() opened has start flags of the type.  *)
LEMMA FilesType ==
  ASSUME NEW f \in Files PROVE f.start \in SUBSET Flags
BY StartSetsAssumption DEF Files

(* A daemon's slot is its name.                                              *)
LEMMA NamesAreSlots == Names \subseteq Slots
BY DEF Slots

(* configuration_load() keeps the types at each entry of the directory.      *)
LEMMA LoadType ==
  ASSUME DaemonType(state, pid, start, spawns, proc), daemons \subseteq Names,
         NEW n \in Names, NEW f \in Files, LoadDaemon(n, f)
  PROVE  DaemonType(state', pid', start', spawns', proc') /\ daemons' \subseteq Names
<1>1. CASE ~f.valid
  BY <1>1 DEF LoadDaemon, daemonVars
<1>2. CASE f.valid
  <2>1. start' \in [Slots -> SUBSET Flags] /\ daemons' \subseteq Names
    BY <1>2, FilesType DEF LoadDaemon, DaemonType
  <2>2. CASE "load" \in f.start
    BY <1>2, <2>1, <2>2, StartType, NamesAreSlots DEF LoadDaemon, DaemonType
  <2>3. CASE "load" \notin f.start
    BY <1>2, <2>1, <2>3 DEF LoadDaemon, DaemonType
  <2>. QED BY <2>2, <2>3
<1>. QED BY <1>1, <1>2

(* configuration_reload() keeps the types at each entry of the directory.    *)
LEMMA ReloadType ==
  ASSUME DaemonType(state, pid, start, spawns, proc),
         daemons \subseteq Names, olddaemons \subseteq Names, unread \subseteq Names,
         NEW n \in Names, NEW f \in Files, ReloadEntry(n, f)
  PROVE  /\ DaemonType(state', pid', start', spawns', proc')
         /\ daemons' \subseteq Names /\ olddaemons' \subseteq Names
         /\ unread' \subseteq Names
<1>1. CASE n \notin olddaemons
  BY <1>1, LoadType DEF ReloadEntry
<1>2. CASE n \in olddaemons /\ ~f.valid
  BY <1>2 DEF ReloadEntry, ReloadDaemon, daemonVars
<1>3. CASE n \in olddaemons /\ f.valid
  <2>1. /\ start' \in [Slots -> SUBSET Flags]
        /\ daemons' \subseteq Names /\ olddaemons' \subseteq Names
        /\ unread' \subseteq Names
    BY <1>3, FilesType DEF ReloadEntry, ReloadDaemon, DaemonType
  <2>2. CASE "reload" \in f.start
    BY <1>3, <2>1, <2>2, StartType, NamesAreSlots DEF ReloadEntry, ReloadDaemon, DaemonType
  <2>3. CASE "reload" \notin f.start
    BY <1>3, <2>1, <2>3 DEF ReloadEntry, ReloadDaemon, DaemonType
  <2>. QED BY <2>2, <2>3
<1>. QED BY <1>1, <1>2, <1>3

(* One turn of the loop of reap_children() keeps the types.                  *)
LEMMA ReapType ==
  ASSUME DaemonType(state, pid, start, spawns, proc), NEW p \in Pids, Reap(p)
  PROVE  DaemonType(state', pid', start', spawns', proc')
<1>. DEFINE ps == [proc EXCEPT ![p] = Free]
            found == SpawnsFind(p, spawns)
<1>1. ps \in [Pids -> Process]
  BY FreeType DEF DaemonType
<1>2. CASE found = {} /\ proc' = ps /\ UNCHANGED <<state, pid, spawns>>
  BY <1>1, <1>2 DEF Reap, DaemonType
<1>3. ASSUME NEW d \in found, ReapedDaemon(d, proc[p].status, spawns \ {d}, ps)
      PROVE  DaemonType(state', pid', start, spawns', proc')
  <2>1. d \in Slots /\ DaemonType(state, pid, start, spawns \ {d}, ps)
    BY <1>1 DEF SpawnsFind, DaemonType
  <2>. QED BY <1>3, <2>1, ReapedType
<1>4. start' = start
  BY DEF Reap
<1>. QED BY <1>2, <1>3, <1>4 DEF Reap

-----------------------------------------------------------------------------

(* setup() starts in the types.                                              *)
LEMMA InitType == Init => TypeOK
BY FreeType DEF Init, TypeOK, SignalsInit, DaemonInit, ConfigurationInit, States,
   Terms, Places, Boot

(* Each step of cyberd, and of what runs beside it, keeps the types.         *)
LEMMA NextType == TypeOK /\ [Next]_vars => TypeOK'
<1>. SUFFICES ASSUME TypeOK, [Next]_vars PROVE TypeOK'
  OBVIOUS
<1>. USE TypeParts DEF TypeInParts
<1>d. USE DEF kernelVars, daemonVars, configurationVars, signalVars
<1>1. ASSUME RcFork PROVE TypeOK'
  BY <1>1, SpawnType DEF RcFork, Slots, Places, Boot, DaemonType, SignalType, TypeOK
<1>2. ASSUME RcSuspend PROVE TypeOK'
  BY <1>2, DeliverType DEF RcSuspend, Places, Boot, Deliver, DaemonType
<1>3. ASSUME RcReaped PROVE TypeOK'
  BY <1>3 DEF RcReaped, Places, Boot, TypeOK
<1>4. ASSUME NEW n \in Names, NEW f \in Files, Load(n, f) PROVE TypeOK'
  BY <1>4, LoadType DEF Load, LoadEntry, SignalType
<1>5. ASSUME NEW n \in Names, NEW f \in Files, Reload(n, f) PROVE TypeOK'
  BY <1>5, ReloadType DEF Reload, ReloadEntry, SignalType
<1>6. ASSUME LoadEnd PROVE TypeOK'
  BY <1>6 DEF LoadEnd, Places, TypeOK
<1>7. ASSUME Interrupted PROVE TypeOK'
  BY <1>7, DeliverType DEF Interrupted, Places, Teardown, LoopEnd, Deliver, DaemonType
<1>8. ASSUME Opendir PROVE TypeOK'
  BY <1>8 DEF Opendir, ReloadBegin, Reloaded, LoopEnd, Places, Teardown, TypeOK
<1>9. ASSUME ReloadDone PROVE TypeOK'
  <2>1. olddaemons \in SUBSET Slots
    BY NamesAreSlots DEF TypeOK
  <2>2. DaemonType(state', pid', start', spawns', proc')
    BY <1>9, <2>1, DestroyType DEF ReloadDone, ReloadEnd
  <2>3. SignalType(pending, queued, sigreboot, sigchld, sighup, sigalrm, alarm)'
    BY <1>9 DEF ReloadDone, ReloadEnd, Reloaded, SignalType
  <2>4. daemons' \subseteq Names /\ olddaemons' \subseteq Names /\ unread' \subseteq Names
    BY <1>9 DEF ReloadDone, ReloadEnd
  <2>5. pc' \in Places
    BY <1>9 DEF ReloadDone, Reloaded, LoopEnd, Places, Teardown
  <2>. QED BY <2>2, <2>3, <2>4, <2>5
<1>10. ASSUME NEW p \in Pids, Reap(p) PROVE TypeOK'
  BY <1>10, ReapType DEF Reap, SignalType
<1>11. ASSUME Reaped PROVE TypeOK'
  BY <1>11 DEF Reaped, LoopEnd, Places, Teardown, TypeOK
<1>12. ASSUME TeardownBegin PROVE TypeOK'
  BY <1>12, SpawnsStopType DEF TeardownBegin, SignalsAlarm, SignalType, Places, Teardown
<1>13. ASSUME TeardownSuspend PROVE TypeOK'
  BY <1>13, DeliverType DEF TeardownSuspend, Places, Teardown, Deliver, DaemonType
<1>14. ASSUME TeardownReaped PROVE TypeOK'
  <2>1. proc' \in [Pids -> Process]
    BY <1>14, SignalledType DEF TeardownReaped, KillAll, Sent, TypeOK
  <2>. QED BY <1>14, <2>1 DEF TeardownReaped, Places, Teardown, TypeOK
<1>15. ASSUME AllEnded PROVE TypeOK'
  BY <1>15 DEF AllEnded, Places, Teardown, TypeOK
<1>16. ASSUME NEW n \in Names, Command(n) PROVE TypeOK'
  <2>1. n \in Slots
    BY NamesAreSlots
  <2>2. DaemonType(state', pid', start', spawns', proc')
    BY <1>16, <2>1, StartType, CommandType DEF Command
  <2>. QED BY <1>16, <2>2 DEF Command, SignalType
<1>17. ASSUME NEW howto \in Howtos \cap Sigvals, QueueReboot(howto) PROVE TypeOK'
  BY <1>17, RaiseTermType DEF QueueReboot, Terms, TypeOK
<1>18. ASSUME Environment PROVE TypeOK'
  <2>1. ASSUME NEW p \in Pids, Process_Exec(p) PROVE TypeOK'
    BY <2>1 DEF Process_Exec, Beside, Exec, TypeOK, Process, Statuses
  <2>2. ASSUME NEW p \in Pids, NEW cause \in Causes, Process_Exit(p, cause) PROVE TypeOK'
    BY <2>2 DEF Process_Exit, Beside, Exit, TypeOK, Process, Statuses
  <2>3. ASSUME Timeout PROVE TypeOK'
    BY <2>3 DEF Timeout, Beside, AlarmRings, TypeOK
  <2>4. ASSUME Bother PROVE TypeOK'
    <3>1. ASSUME NEW p \in Pids, Beside(Adopt(p) /\ UNCHANGED signalVars) PROVE TypeOK'
      BY <3>1 DEF Beside, Adopt, Free, TypeOK, Process, Statuses
    <3>2. ASSUME NEW p \in Pids, Beside(StopOrContinue(p) /\ UNCHANGED signalVars)
          PROVE TypeOK'
      BY <3>2 DEF Beside, StopOrContinue, TypeOK
    <3>3. ASSUME Beside(SendHup /\ UNCHANGED signalVars) PROVE TypeOK'
      BY <3>3 DEF Beside, SendHup, TypeOK
    <3>4. ASSUME Beside(SendTerm /\ UNCHANGED signalVars) PROVE TypeOK'
      BY <3>4, RaiseTermType, SigvalsAssumption DEF Beside, SendTerm, TypeOK
    <3>. QED BY <2>4, <3>1, <3>2, <3>3, <3>4 DEF Bother
  <2>. QED BY <1>18, <2>1, <2>2, <2>3, <2>4 DEF Environment
<1>19. CASE UNCHANGED vars
  BY <1>19 DEF vars, TypeOK
<1>. QED
  BY <1>1, <1>2, <1>3, <1>4, <1>5, <1>6, <1>7, <1>8, <1>9, <1>10, <1>11, <1>12,
     <1>13, <1>14, <1>15, <1>16, <1>17, <1>18, <1>19 DEF Next, Progress, Request

(* Every variable of cyberd keeps its type: a daemon's state, pid and start  *)
(* flags, the daemons and spawns trees, the process table, the signals and   *)
(* their flags.                                                              *)
THEOREM TypeCorrect == Spec => []TypeOK
BY InitType, NextType, PTL DEF Spec

-----------------------------------------------------------------------------
(* The spawns tree.  SpawnsTracked and PidsOwned are inductive together: the *)
(* first says that a daemon which is started has no key in the tree, the     *)
(* second that the key it gets is no other daemon's, and that a daemon which *)
(* is destroyed takes no entry but its own out of the tree.                  *)

Tracked(st, sp) == \A d \in Slots : d \in sp <=> st[d] # "STOPPED"

Owned(sp, pd, ps) ==
  \A d \in sp : pd[d] \in Pids /\ ps[pd[d]].status # "free" /\ ps[pd[d]].prog = d

(* daemon_spawn() keeps spawns in agreement with the states and the process  *)
(* table, for a daemon which was STOPPED and out of spawns, be the fork a    *)
(* success or not.                                                           *)
LEMMA SpawnKeeps ==
  ASSUME NEW d \in Slots, NEW st, NEW sp, NEW ps,
         DaemonType(st, pid, start, sp, ps), DaemonSpawn(d, st, sp, ps),
         Tracked(st, sp), Owned(sp, pid, ps), d \notin sp
  PROVE  Tracked(state', spawns') /\ Owned(spawns', pid', proc')
<1>1. ASSUME NEW p \in Pids, ps[p].status = "free",
             proc' = [ps EXCEPT ![p] = Forked(d)], pid' = [pid EXCEPT ![d] = p],
             state' = [st EXCEPT ![d] = "STARTED"], spawns' = sp \cup {d}
      PROVE  Tracked(state', spawns') /\ Owned(spawns', pid', proc')
  <2>1. Tracked(state', spawns')
    BY <1>1 DEF Tracked, DaemonType
  <2>2. ASSUME NEW e \in spawns'
        PROVE  /\ pid'[e] \in Pids
               /\ proc'[pid'[e]].status # "free" /\ proc'[pid'[e]].prog = e
    <3>1. CASE e = d
      BY <1>1, <3>1 DEF DaemonType, Forked
    <3>2. CASE e # d
      BY <1>1, <2>2, <3>2 DEF DaemonType, Owned
    <3>. QED BY <3>1, <3>2
  <2>. QED BY <2>1, <2>2 DEF Owned
<1>2. CASE proc' = ps /\ state' = st /\ spawns' = sp /\ UNCHANGED pid
  BY <1>2
<1>. QED BY <1>1, <1>2 DEF DaemonSpawn

(* So does daemon_start(), whatever the daemon's state.                      *)
LEMMA StartKeeps ==
  ASSUME NEW d \in Slots, NEW st, NEW sp, NEW ps,
         DaemonType(st, pid, start, sp, ps), DaemonStart(d, st, sp, ps),
         Tracked(st, sp), Owned(sp, pid, ps)
  PROVE  Tracked(state', spawns') /\ Owned(spawns', pid', proc')
<1>1. CASE st[d] = "STOPPED"
  BY <1>1, SpawnKeeps DEF DaemonStart, Tracked
<1>2. CASE st[d] # "STOPPED"
  BY <1>2 DEF DaemonStart
<1>. QED BY <1>1, <1>2

(* kill(2) changes neither the program of a process nor whether it runs.     *)
LEMMA SignalledKeeps ==
  ASSUME NEW q \in Process, NEW s
  PROVE  Signalled(q, s).status = q.status /\ Signalled(q, s).prog = q.prog
BY DEF Signalled, Process

(* daemon_stop(), daemon_reload() and daemon_end() leave spawns in agreement *)
(* with the states and the process table.                                    *)
LEMMA CommandKeeps ==
  ASSUME NEW d \in Slots, DaemonType(state, pid, start, spawns, proc),
         DaemonStop(d) \/ DaemonReload(d) \/ DaemonEnd(d),
         Tracked(state, spawns), Owned(spawns, pid, proc)
  PROVE  Tracked(state', spawns') /\ Owned(spawns', pid', proc')
<1>1. Tracked(state', spawns')
  BY DEF DaemonStop, DaemonReload, DaemonEnd, Tracked, DaemonType
<1>2. \A p \in Pids : proc'[p].status = proc[p].status /\ proc'[p].prog = proc[p].prog
  BY SignalledKeeps DEF DaemonStop, DaemonReload, DaemonEnd, DaemonType
<1>3. spawns' = spawns /\ pid' = pid
  BY DEF DaemonStop, DaemonReload, DaemonEnd
<1>. QED BY <1>1, <1>2, <1>3 DEF Owned

(* So does spawns_stop().                                                    *)
LEMMA SpawnsStopKeeps ==
  ASSUME DaemonType(state, pid, start, spawns, proc), SpawnsStop,
         Tracked(state, spawns), Owned(spawns, pid, proc)
  PROVE  Tracked(state', spawns') /\ Owned(spawns', pid', proc')
<1>1. Tracked(state', spawns')
  BY DEF SpawnsStop, Tracked, DaemonType
<1>2. \A p \in Pids : proc'[p].status = proc[p].status /\ proc'[p].prog = proc[p].prog
  BY SignalledKeeps DEF SpawnsStop, DaemonType
<1>. QED BY <1>1, <1>2 DEF SpawnsStop, Owned

(* daemon_destroy() takes the daemons it frees out of spawns and no other,   *)
(* because the pid it looks up is the key of one daemon only.                *)
LEMMA DestroyKeeps ==
  ASSUME DaemonType(state, pid, start, spawns, proc),
         NEW D \in SUBSET Slots, DaemonDestroy(D),
         Tracked(state, spawns), Owned(spawns, pid, proc)
  PROVE  /\ Tracked(state', spawns') /\ Owned(spawns', pid', proc)
         /\ spawns' = spawns \ D
<1>1. ASSUME NEW d \in D, state[d] # "STOPPED"
      PROVE  SpawnsFind(pid[d], spawns) = {d}
  BY <1>1 DEF SpawnsFind, Tracked, Owned
<1>2. spawns' = spawns \ D
  <2>1. ASSUME NEW e \in spawns, e \in D PROVE e \notin spawns'
    BY <1>1, <2>1 DEF DaemonDestroy, Tracked, DaemonType
  <2>2. ASSUME NEW e \in spawns, e \notin D PROVE e \in spawns'
    BY <1>1, <2>2 DEF DaemonDestroy
  <2>3. spawns' \subseteq spawns
    BY DEF DaemonDestroy
  <2>. QED BY <2>1, <2>2, <2>3
<1>3. Tracked(state', spawns')
  BY <1>2 DEF DaemonDestroy, Tracked, DaemonType
<1>4. ASSUME NEW d \in spawns' PROVE d \in spawns /\ pid'[d] = pid[d]
  BY <1>2, <1>4 DEF DaemonDestroy, DaemonType
<1>5. Owned(spawns', pid', proc)
  BY <1>4 DEF Owned
<1>. QED BY <1>2, <1>3, <1>5

(* reap_children() frees a pid and takes the daemon it was the key of out of *)
(* spawns: no daemon stays in spawns under a pid which may be used again.    *)
LEMMA ReapKeeps ==
  ASSUME DaemonType(state, pid, start, spawns, proc), NEW p \in Pids, Reap(p),
         Tracked(state, spawns), Owned(spawns, pid, proc)
  PROVE  Tracked(state', spawns') /\ Owned(spawns', pid', proc')
<1>. DEFINE ps == [proc EXCEPT ![p] = Free]
            found == SpawnsFind(p, spawns)
<1>1. CASE found = {} /\ proc' = ps /\ UNCHANGED <<state, pid, spawns>>
  BY <1>1 DEF SpawnsFind, Tracked, Owned, DaemonType
<1>2. ASSUME NEW d \in found, ReapedDaemon(d, proc[p].status, spawns \ {d}, ps)
      PROVE  Tracked(state', spawns') /\ Owned(spawns', pid', proc')
  <2>. DEFINE st == [state EXCEPT ![d] = "STOPPED"]
  <2>1. d \in spawns /\ pid[d] = p /\ d \in Slots
    BY DEF SpawnsFind, DaemonType
  <2>2. DaemonType(st, pid, start, spawns \ {d}, ps)
    BY <2>1, FreeType DEF DaemonType, States
  <2>3. Tracked(st, spawns \ {d})
    BY <2>1 DEF Tracked, DaemonType
  <2>4. Owned(spawns \ {d}, pid, ps)
    BY <2>1 DEF Owned, DaemonType
  <2>5. CASE proc[p].status \in start[d]
    BY <1>2, <2>1, <2>2, <2>3, <2>4, <2>5, StartKeeps DEF ReapedDaemon
  <2>6. CASE proc[p].status \notin start[d]
    BY <1>2, <2>3, <2>4, <2>6 DEF ReapedDaemon
  <2>. QED BY <2>5, <2>6
<1>. QED BY <1>1, <1>2 DEF Reap

(* When rc() is to fork, nothing was spawned yet. *)
RcFirst == pc = "rc" => spawns = {}

SpawnsInv == SpawnsTracked /\ PidsOwned /\ RcFirst

(* The invariant of spawns, as a relation between the states, spawns, the    *)
(* pids and the process table.                                               *)
LEMMA SpawnsParts ==
  /\ SpawnsTracked <=> Tracked(state, spawns)
  /\ PidsOwned <=> Owned(spawns, pid, proc)
  /\ SpawnsTracked' <=> Tracked(state', spawns')
  /\ PidsOwned' <=> Owned(spawns', pid', proc')
BY DEF SpawnsTracked, PidsOwned, Tracked, Owned, Unreaped

(* What TypeOK says of the daemons.                                          *)
LEMMA TypeOfDaemon == TypeOK => DaemonType(state, pid, start, spawns, proc)
BY DEF TypeOK, DaemonType

(* setup() starts with no daemon in spawns.                                  *)
LEMMA InitSpawns == Init => SpawnsInv
BY DEF Init, DaemonInit, SpawnsInv, SpawnsTracked, PidsOwned, RcFirst

(* Each step keeps spawns in agreement with the states and the process       *)
(* table.                                                                    *)
LEMMA NextSpawns == TypeOK /\ SpawnsInv /\ [Next]_vars => SpawnsInv'
<1>. SUFFICES ASSUME TypeOK, SpawnsInv, [Next]_vars PROVE SpawnsInv'
  OBVIOUS
<1>. USE SpawnsParts, TypeOfDaemon DEF SpawnsInv
<1>d. USE DEF kernelVars, daemonVars
<1>r. ASSUME pc' = pc \/ pc' # "rc", pc # "rc" PROVE RcFirst'
  BY <1>r DEF RcFirst
<1>u. ASSUME UNCHANGED <<state, pid, spawns, proc>>, pc' = pc \/ pc' # "rc"
      PROVE  SpawnsInv'
  BY <1>u DEF RcFirst, Tracked, Owned
<1>1. ASSUME RcFork PROVE SpawnsInv'
  <2>1. Rc \in Slots /\ Rc \notin spawns
    BY <1>1 DEF RcFork, RcFirst, Slots
  <2>2. SpawnsTracked' /\ PidsOwned'
    BY <1>1, <2>1, SpawnKeeps DEF RcFork
  <2>. QED BY <1>1, <2>2 DEF RcFork, RcFirst
<1>2. ASSUME RcSuspend PROVE SpawnsInv'
  BY <1>2, <1>u DEF RcSuspend, Deliver
<1>3. ASSUME RcReaped PROVE SpawnsInv'
  BY <1>3, <1>u DEF RcReaped
<1>4. ASSUME NEW n \in Names, NEW f \in Files, LoadDaemon(n, f) PROVE SpawnsTracked' /\ PidsOwned'
  BY <1>4, StartKeeps, NamesAreSlots DEF LoadDaemon
<1>5. ASSUME NEW n \in Names, NEW f \in Files, Load(n, f) PROVE SpawnsInv'
  BY <1>4, <1>5, <1>r DEF Load, LoadEntry
<1>6. ASSUME NEW n \in Names, NEW f \in Files, Reload(n, f) PROVE SpawnsInv'
  <2>1. CASE n \notin olddaemons
    BY <1>4, <1>6, <1>r, <2>1 DEF Reload, ReloadEntry
  <2>2. CASE n \in olddaemons
    BY <1>6, <1>r, <1>u, <2>2, StartKeeps, NamesAreSlots DEF Reload, ReloadEntry, ReloadDaemon
  <2>. QED BY <2>1, <2>2
<1>7. ASSUME LoadEnd PROVE SpawnsInv'
  BY <1>7, <1>u DEF LoadEnd
<1>8. ASSUME Interrupted PROVE SpawnsInv'
  BY <1>8, <1>u DEF Interrupted, LoopEnd, Deliver
<1>9. ASSUME Opendir PROVE SpawnsInv'
  BY <1>9, <1>u DEF Opendir, Reloaded, LoopEnd
<1>10. ASSUME ReloadDone PROVE SpawnsInv'
  <2>1. olddaemons \in SUBSET Slots
    BY NamesAreSlots DEF TypeOK
  <2>2. SpawnsTracked' /\ PidsOwned'
    BY <1>10, <2>1, DestroyKeeps DEF ReloadDone, ReloadEnd
  <2>. QED BY <1>10, <1>r, <2>2 DEF ReloadDone, Reloaded, LoopEnd
<1>11. ASSUME NEW p \in Pids, Reap(p) PROVE SpawnsInv'
  BY <1>11, <1>r, ReapKeeps DEF Reap, Reaping
<1>12. ASSUME Reaped PROVE SpawnsInv'
  BY <1>12, <1>u DEF Reaped, LoopEnd
<1>13. ASSUME TeardownBegin PROVE SpawnsInv'
  BY <1>13, <1>r, SpawnsStopKeeps DEF TeardownBegin
<1>14. ASSUME TeardownSuspend PROVE SpawnsInv'
  BY <1>14, <1>u DEF TeardownSuspend, Deliver
<1>15. ASSUME NEW ps, proc' = ps, UNCHANGED <<state, pid, spawns>>, pc' = pc \/ pc' # "rc",
              \A p \in Pids : proc[p].status # "free" =>
                ps[p].status # "free" /\ ps[p].prog = proc[p].prog
       PROVE  SpawnsInv'
  BY <1>15 DEF Owned, Tracked, RcFirst
<1>16. ASSUME TeardownReaped PROVE SpawnsInv'
  BY <1>15, <1>16, SignalledKeeps DEF TeardownReaped, KillAll, TypeOK
<1>17. ASSUME AllEnded PROVE SpawnsInv'
  BY <1>17, <1>u DEF AllEnded
<1>18. ASSUME NEW n \in Names, Command(n) PROVE SpawnsInv'
  <2>1. SpawnsTracked' /\ PidsOwned'
    BY <1>18, StartKeeps, CommandKeeps, NamesAreSlots DEF Command
  <2>. QED BY <1>18, <1>r, <2>1 DEF Command
<1>19. ASSUME NEW howto, QueueReboot(howto) PROVE SpawnsInv'
  BY <1>19, <1>u DEF QueueReboot
<1>20. ASSUME Environment PROVE SpawnsInv'
  <2>1. ASSUME NEW p \in Pids, Process_Exec(p) PROVE SpawnsInv'
    BY <1>15, <2>1 DEF Process_Exec, Beside, Exec, TypeOK, Process
  <2>2. ASSUME NEW p \in Pids, NEW cause \in Causes, Process_Exit(p, cause) PROVE SpawnsInv'
    BY <1>15, <2>2, CausesAssumption DEF Process_Exit, Beside, Exit, TypeOK, Process
  <2>3. ASSUME Timeout PROVE SpawnsInv'
    BY <1>u, <2>3 DEF Timeout, Beside, AlarmRings
  <2>4. ASSUME NEW p \in Pids, Beside(Adopt(p) /\ UNCHANGED signalVars) PROVE SpawnsInv'
    BY <1>15, <2>4 DEF Beside, Adopt, Unreaped, TypeOK
  <2>5. ASSUME NEW p \in Pids, Beside(StopOrContinue(p) /\ UNCHANGED signalVars)
        PROVE SpawnsInv'
    BY <1>u, <2>5 DEF Beside, StopOrContinue
  <2>6. ASSUME Beside((SendHup \/ SendTerm) /\ UNCHANGED signalVars) PROVE SpawnsInv'
    BY <1>u, <2>6 DEF Beside, SendHup, SendTerm
  <2>. QED BY <1>20, <2>1, <2>2, <2>3, <2>4, <2>5, <2>6 DEF Environment, Bother, Beside
<1>21. CASE UNCHANGED vars
  BY <1>21, <1>u DEF vars
<1>. QED
  BY <1>1, <1>2, <1>3, <1>5, <1>6, <1>7, <1>8, <1>9, <1>10, <1>11, <1>12, <1>13,
     <1>14, <1>16, <1>17, <1>18, <1>19, <1>20, <1>21 DEF Next, Progress, Request

(* spawns.c:27: the spawns tree holds exactly the daemons which are not      *)
(* STOPPED, each under the pid of a process which was forked for it and      *)
(* which cyberd has not collected.                                           *)
THEOREM SpawnsCorrect == Spec => [](SpawnsTracked /\ PidsOwned)
<1>1. Init => TypeOK /\ SpawnsInv
  BY InitType, InitSpawns
<1>2. (TypeOK /\ SpawnsInv) /\ [Next]_vars => (TypeOK /\ SpawnsInv)'
  BY NextType, NextSpawns
<1>3. TypeOK /\ SpawnsInv => SpawnsTracked /\ PidsOwned
  BY DEF SpawnsInv
<1>. QED BY <1>1, <1>2, <1>3, PTL DEF Spec

=============================================================================
