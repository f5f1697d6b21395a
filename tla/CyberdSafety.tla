---------------------------- MODULE CyberdSafety ----------------------------
(***************************************************************************)
(* Theorems about Cyberd which rest on those of CyberdProofs: the ends of  *)
(* children, the way down, the daemons trees, what a step may not do, and  *)
(* that each step starts, stops, collects or abandons a daemon as          *)
(* Supervision allows, or changes nothing which Supervision speaks of.     *)
(***************************************************************************)
EXTENDS CyberdProofs

-----------------------------------------------------------------------------
(* NoLostChild.  No operation on a daemon makes a zombie: only Exit does,    *)
(* and it raises SIGCHLD.                                                    *)

NoNewZombie(ps) == \A p \in Pids : proc'[p].status \in Causes => ps[p].status \in Causes

(* A child which daemon_spawn() forks has not ended.                         *)
LEMMA SpawnNoZombie ==
  ASSUME NEW d \in Slots, NEW st, NEW sp, NEW ps,
         DaemonType(st, pid, start, sp, ps),
         DaemonStart(d, st, sp, ps) \/ DaemonSpawn(d, st, sp, ps)
  PROVE  NoNewZombie(ps)
BY CausesAssumption DEF DaemonStart, DaemonSpawn, DaemonType, NoNewZombie, Forked

(* kill(2) makes no zombie: a process ends by itself, later.                 *)
LEMMA SignalNoZombie ==
  ASSUME TypeOK,
         \/ SpawnsStop
         \/ KillAll
         \/ \E d \in Slots : DaemonStop(d) \/ DaemonReload(d) \/ DaemonEnd(d)
  PROVE  NoNewZombie(proc)
<1>1. \A p \in Pids : proc'[p].status = proc[p].status
  <2>1. CASE SpawnsStop
    BY <2>1, SignalledKeeps DEF SpawnsStop, TypeOK
  <2>2. CASE KillAll
    BY <2>2, SignalledKeeps DEF KillAll, TypeOK
  <2>3. ASSUME NEW d \in Slots, DaemonStop(d) \/ DaemonReload(d) \/ DaemonEnd(d)
        PROVE  \A p \in Pids : proc'[p].status = proc[p].status
    BY <2>3, SignalledKeeps DEF DaemonStop, DaemonReload, DaemonEnd, TypeOK
  <2>. QED BY <2>1, <2>2, <2>3
<1>. QED BY <1>1 DEF NoNewZombie

(* Each step keeps the end of every child in sight.                          *)
LEMMA NextNoLostChild == TypeOK /\ NoLostChild /\ [Next]_vars => NoLostChild'
<1>. SUFFICES ASSUME TypeOK, NoLostChild, [Next]_vars PROVE NoLostChild'
  OBVIOUS
<1>. USE DEF Zombie, kernelVars, daemonVars, signalVars
<1>k. ASSUME NoNewZombie(proc), UNCHANGED <<pending, sigchld, pc>> PROVE NoLostChild'
  BY <1>k DEF NoLostChild, NoNewZombie
<1>1. ASSUME RcFork PROVE NoLostChild'
  <2>1. NoNewZombie(proc)
    BY <1>1, SpawnNoZombie, TypeOfDaemon DEF RcFork, Slots
  <2>. QED BY <1>1, <2>1 DEF RcFork, NoLostChild, NoNewZombie, Reaping
<1>2. ASSUME RcSuspend PROVE NoLostChild'
  BY <1>2 DEF RcSuspend, NoLostChild, Reaping
<1>3. ASSUME RcReaped PROVE NoLostChild'
  BY <1>3 DEF RcReaped, NoLostChild
<1>4. ASSUME NEW n \in Names, NEW f \in Files, LoadDaemon(n, f) PROVE NoNewZombie(proc)
  BY <1>4, SpawnNoZombie, TypeOfDaemon, NamesAreSlots DEF LoadDaemon, NoNewZombie
<1>5. ASSUME NEW n \in Names, NEW f \in Files, Load(n, f) PROVE NoLostChild'
  BY <1>4, <1>5, <1>k DEF Load, LoadEntry
<1>6. ASSUME NEW n \in Names, NEW f \in Files, Reload(n, f) PROVE NoLostChild'
  <2>1. CASE n \notin olddaemons
    BY <1>4, <1>6, <1>k, <2>1 DEF Reload, ReloadEntry
  <2>2. CASE n \in olddaemons
    <3>1. NoNewZombie(proc)
      BY <1>6, <2>2, SpawnNoZombie, TypeOfDaemon, NamesAreSlots
      DEF Reload, ReloadEntry, ReloadDaemon, NoNewZombie
    <3>. QED BY <1>6, <1>k, <3>1 DEF Reload, ReloadEntry
  <2>. QED BY <2>1, <2>2
<1>7. ASSUME LoadEnd PROVE NoLostChild'
  BY <1>7 DEF LoadEnd, NoLostChild, Reaping
<1>8. ASSUME Interrupted PROVE NoLostChild'
  BY <1>8 DEF Interrupted, Deliver, NoLostChild, Reaping
<1>9. ASSUME Opendir PROVE NoLostChild'
  BY <1>9 DEF Opendir, Reloaded, NoLostChild, Reaping
<1>10. ASSUME ReloadDone PROVE NoLostChild'
  BY <1>10 DEF ReloadDone, ReloadEnd, Reloaded, NoLostChild, Reaping
<1>11. ASSUME NEW p \in Pids, Reap(p) PROVE NoLostChild'
  BY <1>11 DEF Reap, NoLostChild
<1>12. ASSUME Reaped \/ AllEnded PROVE NoLostChild'
  BY <1>12, CausesAssumption DEF Reaped, AllEnded, Unreaped, NoLostChild
<1>13. ASSUME TeardownBegin PROVE NoLostChild'
  <2>1. NoNewZombie(proc)
    BY <1>13, SignalNoZombie DEF TeardownBegin
  <2>. QED BY <1>13, <2>1 DEF TeardownBegin, NoLostChild, NoNewZombie, Reaping
<1>14. ASSUME TeardownSuspend PROVE NoLostChild'
  BY <1>14 DEF TeardownSuspend, NoLostChild, Reaping
<1>15. ASSUME TeardownReaped PROVE NoLostChild'
  BY <1>15, SignalNoZombie DEF TeardownReaped, NoLostChild, NoNewZombie, Reaping
<1>16. ASSUME NEW n \in Names, Command(n) PROVE NoLostChild'
  <2>1. NoNewZombie(proc)
    BY <1>16, SpawnNoZombie, SignalNoZombie, TypeOfDaemon, NamesAreSlots DEF Command
  <2>. QED BY <1>16, <1>k, <2>1 DEF Command
<1>17. ASSUME NEW howto, QueueReboot(howto) PROVE NoLostChild'
  BY <1>17 DEF QueueReboot, RaiseTerm, NoLostChild
<1>18. ASSUME Environment PROVE NoLostChild'
  <2>1. ASSUME NEW p \in Pids, Process_Exec(p) PROVE NoLostChild'
    BY <2>1, CausesAssumption DEF Process_Exec, Beside, Exec, NoLostChild, TypeOK
  <2>2. ASSUME NEW p \in Pids, NEW cause \in Causes, Process_Exit(p, cause)
        PROVE  NoLostChild'
    BY <2>2 DEF Process_Exit, Beside, Exit, NoLostChild
  <2>3. ASSUME Timeout PROVE NoLostChild'
    BY <2>3 DEF Timeout, Beside, AlarmRings, NoLostChild
  <2>4. ASSUME NEW p \in Pids, Beside(Adopt(p) /\ UNCHANGED signalVars) PROVE NoLostChild'
    BY <2>4, CausesAssumption DEF Beside, Adopt, NoLostChild, TypeOK
  <2>5. ASSUME NEW p \in Pids, Beside(StopOrContinue(p) /\ UNCHANGED signalVars)
        PROVE  NoLostChild'
    BY <2>5 DEF Beside, StopOrContinue, NoLostChild
  <2>6. ASSUME Beside((SendHup \/ SendTerm) /\ UNCHANGED signalVars) PROVE NoLostChild'
    BY <2>6 DEF Beside, SendHup, SendTerm, RaiseTerm, NoLostChild
  <2>. QED BY <1>18, <2>1, <2>2, <2>3, <2>4, <2>5, <2>6 DEF Environment, Bother, Beside
<1>19. CASE UNCHANGED vars
  BY <1>19 DEF vars, NoLostChild
<1>. QED
  BY <1>1, <1>2, <1>3, <1>5, <1>6, <1>7, <1>8, <1>9, <1>10, <1>11, <1>12, <1>13,
     <1>14, <1>15, <1>16, <1>17, <1>18, <1>19 DEF Next, Progress, Request

(* A child which ended is never forgotten: cyberd is collecting, is about    *)
(* to, or has a SIGCHLD pending (main.c, reap_children and the loops around  *)
(* it).                                                                      *)
THEOREM NoChildIsLost == Spec => []NoLostChild
<1>1. Init => NoLostChild
  BY CausesAssumption DEF Init, NoLostChild, Zombie, Free
<1>. QED BY <1>1, InitType, NextType, NextNoLostChild, PTL DEF Spec

-----------------------------------------------------------------------------
(* The daemons trees.  Between two reloads no tree is set aside, and boot    *)
(* has none at all.                                                          *)

OwnerInv ==
  /\ OneOwner
  /\ NoDangling
  /\ pc # "reload" => olddaemons = {}
  /\ pc \in Boot => daemons = {}

(* What an operation on daemon d may change in spawns. *)
LEMMA SpawnGrows ==
  ASSUME NEW d, NEW st, NEW sp, NEW ps,
         DaemonStart(d, st, sp, ps) \/ DaemonSpawn(d, st, sp, ps)
  PROVE  spawns' \subseteq sp \cup {d}
BY DEF DaemonStart, DaemonSpawn

(* configuration_load_daemon() puts a daemon into spawns only if it also     *)
(* puts it into the daemons tree.                                            *)
LEMMA LoadGrows ==
  ASSUME NEW n \in Names, NEW f \in Files, LoadDaemon(n, f)
  PROVE  \/ spawns' = spawns /\ daemons' \subseteq daemons \cup {n} /\ daemons \subseteq daemons'
         \/ spawns' \subseteq spawns \cup {n} /\ daemons' = daemons \cup {n}
BY SpawnGrows DEF LoadDaemon, daemonVars

(* setup() starts with empty trees.                                          *)
LEMMA InitOwner == Init => OwnerInv
BY DEF Init, ConfigurationInit, DaemonInit, OwnerInv, OneOwner, NoDangling

(* Each step keeps every daemon in one tree, and those in spawns in some     *)
(* tree.                                                                     *)
LEMMA NextOwner == TypeOK /\ SpawnsInv /\ OwnerInv /\ [Next]_vars => OwnerInv'
<1>. SUFFICES ASSUME TypeOK, SpawnsInv, OwnerInv, [Next]_vars PROVE OwnerInv'
  OBVIOUS
<1>. USE DEF daemonVars, configurationVars, Boot
<1>s. ASSUME spawns' \subseteq spawns, UNCHANGED <<daemons, olddaemons, unread, pc>>
      PROVE  OwnerInv'
  BY <1>s DEF OwnerInv, OneOwner, NoDangling
<1>1. ASSUME RcFork PROVE OwnerInv'
  BY <1>1, SpawnGrows DEF RcFork, OwnerInv, OneOwner, NoDangling
<1>2. ASSUME RcSuspend PROVE OwnerInv'
  BY <1>2 DEF RcSuspend, OwnerInv, OneOwner, NoDangling
<1>3. ASSUME RcReaped PROVE OwnerInv'
  BY <1>3 DEF RcReaped, OwnerInv, OneOwner, NoDangling
<1>4. ASSUME NEW n \in Names, NEW f \in Files, Load(n, f) PROVE OwnerInv'
  <2>1. CASE spawns' = spawns /\ daemons' \subseteq daemons \cup {n} /\ daemons \subseteq daemons'
    BY <1>4, <2>1 DEF Load, LoadEntry, OwnerInv, OneOwner, NoDangling
  <2>2. CASE spawns' \subseteq spawns \cup {n} /\ daemons' = daemons \cup {n}
    BY <1>4, <2>2 DEF Load, LoadEntry, OwnerInv, OneOwner, NoDangling
  <2>. QED BY <1>4, <2>1, <2>2, LoadGrows DEF Load, LoadEntry
<1>5. ASSUME NEW n \in Names, NEW f \in Files, Reload(n, f) PROVE OwnerInv'
  <2>1. CASE n \notin olddaemons
    <3>1. CASE spawns' = spawns /\ daemons' \subseteq daemons \cup {n} /\ daemons \subseteq daemons'
      BY <1>5, <2>1, <3>1 DEF Reload, ReloadEntry, OwnerInv, OneOwner, NoDangling
    <3>2. CASE spawns' \subseteq spawns \cup {n} /\ daemons' = daemons \cup {n}
      BY <1>5, <2>1, <3>2 DEF Reload, ReloadEntry, OwnerInv, OneOwner, NoDangling
    <3>. QED BY <1>5, <2>1, <3>1, <3>2, LoadGrows DEF Reload, ReloadEntry
  <2>2. CASE n \in olddaemons
    <3>1. spawns' \subseteq spawns \cup {n}
      BY <1>5, <2>2, SpawnGrows DEF Reload, ReloadEntry, ReloadDaemon
    <3>. QED BY <1>5, <2>2, <3>1
             DEF Reload, ReloadEntry, ReloadDaemon, OwnerInv, OneOwner, NoDangling
  <2>. QED BY <2>1, <2>2
<1>6. ASSUME LoadEnd PROVE OwnerInv'
  BY <1>6 DEF LoadEnd, OwnerInv, OneOwner, NoDangling
<1>7. ASSUME Interrupted PROVE OwnerInv'
  BY <1>7 DEF Interrupted, LoopEnd, OwnerInv, OneOwner, NoDangling
<1>8. ASSUME Opendir PROVE OwnerInv'
  BY <1>8 DEF Opendir, ReloadBegin, Reloaded, LoopEnd, OwnerInv, OneOwner, NoDangling
<1>9. ASSUME ReloadDone PROVE OwnerInv'
  <2>1. olddaemons \in SUBSET Slots
    BY NamesAreSlots DEF TypeOK
  <2>2. spawns' = spawns \ olddaemons
    BY <1>9, <2>1, DestroyKeeps, SpawnsParts, TypeOfDaemon
    DEF ReloadDone, ReloadEnd, SpawnsInv
  <2>. QED BY <1>9, <2>2 DEF ReloadDone, ReloadEnd, Reloaded, LoopEnd, OwnerInv, OneOwner, NoDangling
<1>10. ASSUME NEW p \in Pids, Reap(p) PROVE OwnerInv'
  <2>1. ASSUME NEW d \in spawns, NEW cause, NEW ps,
               ReapedDaemon(d, cause, spawns \ {d}, ps)
        PROVE  spawns' \subseteq spawns
    BY <2>1, SpawnGrows DEF ReapedDaemon
  <2>2. spawns' \subseteq spawns
    BY <1>10, <2>1 DEF Reap, SpawnsFind
  <2>. QED BY <1>10, <1>s, <2>2 DEF Reap
<1>11. ASSUME Reaped PROVE OwnerInv'
  BY <1>11 DEF Reaped, LoopEnd, OwnerInv, OneOwner, NoDangling
<1>12. ASSUME TeardownBegin PROVE OwnerInv'
  BY <1>12 DEF TeardownBegin, SpawnsStop, OwnerInv, OneOwner, NoDangling
<1>13. ASSUME TeardownSuspend PROVE OwnerInv'
  BY <1>13 DEF TeardownSuspend, OwnerInv, OneOwner, NoDangling
<1>14. ASSUME TeardownReaped PROVE OwnerInv'
  BY <1>14 DEF TeardownReaped, OwnerInv, OneOwner, NoDangling
<1>15. ASSUME AllEnded PROVE OwnerInv'
  BY <1>15 DEF AllEnded, OwnerInv, OneOwner, NoDangling
<1>16. ASSUME NEW n \in Names, Command(n) PROVE OwnerInv'
  <2>1. spawns' \subseteq spawns \cup daemons
    BY <1>16, SpawnGrows DEF Command, DaemonStop, DaemonReload, DaemonEnd
  <2>. QED BY <1>16, <2>1 DEF Command, OwnerInv, OneOwner, NoDangling
<1>17. ASSUME NEW howto, QueueReboot(howto) PROVE OwnerInv'
  BY <1>17, <1>s DEF QueueReboot
<1>18. ASSUME Environment PROVE OwnerInv'
  BY <1>18, <1>s DEF Environment, Bother, Process_Exec, Process_Exit, Timeout, Beside
<1>19. CASE UNCHANGED vars
  BY <1>19, <1>s DEF vars
<1>. QED
  BY <1>1, <1>2, <1>3, <1>4, <1>5, <1>6, <1>7, <1>8, <1>9, <1>10, <1>11, <1>12, <1>13,
     <1>14, <1>15, <1>16, <1>17, <1>18, <1>19 DEF Next, Progress, Request

(* Every daemon in spawns is a structure which one of the daemons trees, and *)
(* only one of them, has (configuration_reload and daemon_destroy).          *)
THEOREM DaemonsAreOwned == Spec => [](OneOwner /\ NoDangling)
<1>1. Init => TypeOK /\ SpawnsInv /\ OwnerInv
  BY InitType, InitSpawns, InitOwner
<1>2. (TypeOK /\ SpawnsInv /\ OwnerInv) /\ [Next]_vars => (TypeOK /\ SpawnsInv /\ OwnerInv)'
  BY NextType, NextSpawns, NextOwner
<1>3. TypeOK /\ SpawnsInv /\ OwnerInv => OneOwner /\ NoDangling
  BY DEF OwnerInv
<1>. QED BY <1>1, <1>2, <1>3, PTL DEF Spec

-----------------------------------------------------------------------------
(* The way down.  Once told to stop, a daemon has no start flag left, so     *)
(* that its end, whatever the cause, only takes it out of spawns.            *)

Stopping(d) == state[d] = "STOPPING" /\ start[d] = {}

(* While all daemons are STOPPING without start flags, reap_children() only  *)
(* takes daemons out of spawns: reaped_daemon() starts none.                 *)
LEMMA ReapStopping ==
  ASSUME TypeOK, NEW p \in Pids, Reap(p), \A d \in spawns : Stopping(d)
  PROVE  /\ proc' = [proc EXCEPT ![p] = Free]
         /\ spawns' \subseteq spawns
         /\ \A d \in spawns' : state'[d] = "STOPPING" /\ start'[d] = {}
<1>. DEFINE ps == [proc EXCEPT ![p] = Free]
<1>1. start' = start
  BY DEF Reap
<1>2. CASE proc' = ps /\ UNCHANGED <<state, pid, spawns>>
  BY <1>1, <1>2 DEF Stopping
<1>3. ASSUME NEW d \in SpawnsFind(p, spawns),
             ReapedDaemon(d, proc[p].status, spawns \ {d}, ps)
      PROVE  /\ proc' = ps
             /\ spawns' = spawns \ {d}
             /\ state' = [state EXCEPT ![d] = "STOPPED"]
  BY <1>3 DEF SpawnsFind, ReapedDaemon, Stopping
<1>4. ASSUME NEW d \in SpawnsFind(p, spawns),
             ReapedDaemon(d, proc[p].status, spawns \ {d}, ps)
      PROVE  /\ proc' = ps
             /\ spawns' \subseteq spawns
             /\ \A e \in spawns' : state'[e] = "STOPPING" /\ start'[e] = {}
  BY <1>1, <1>3, <1>4 DEF Stopping, TypeOK
<1>. QED BY <1>2, <1>1, <1>4 DEF Reap, Stopping

(* spawns_stop() leaves every daemon of spawns STOPPING, without start       *)
(* flags.                                                                    *)
LEMMA StopAll ==
  ASSUME TypeOK, SpawnsInv, SpawnsStop
  PROVE  spawns' = spawns /\ \A d \in spawns : state'[d] = "STOPPING" /\ start'[d] = {}
BY DEF TypeOK, SpawnsInv, SpawnsTracked, SpawnsStop, States

DownInv == StoppedForGood /\ CleanOff

(* Each step of teardown() keeps the daemons stopping, and it ends with      *)
(* nothing left.                                                             *)
LEMMA NextDown == TypeOK /\ SpawnsInv /\ DownInv /\ [Next]_vars => DownInv'
<1>. SUFFICES ASSUME TypeOK, SpawnsInv, DownInv, [Next]_vars PROVE DownInv'
  OBVIOUS
<1>. USE DEF daemonVars, kernelVars, Teardown
<1>u. ASSUME pc' \notin Teardown \ {"teardown"} PROVE DownInv'
  BY <1>u DEF DownInv, StoppedForGood, CleanOff
<1>v. ASSUME pc' # "off", UNCHANGED daemonVars, pc \in Teardown \ {"teardown"} PROVE DownInv'
  BY <1>v DEF DownInv, StoppedForGood, CleanOff
<1>1. ASSUME RcFork \/ RcSuspend \/ RcReaped PROVE DownInv'
  BY <1>1, <1>u DEF RcFork, RcSuspend, RcReaped
<1>2. ASSUME NEW n \in Names, NEW f \in Files, Load(n, f) \/ Reload(n, f) PROVE DownInv'
  BY <1>2, <1>u DEF Load, Reload
<1>3. ASSUME LoadEnd \/ Interrupted \/ Opendir \/ ReloadDone \/ Reaped PROVE DownInv'
  BY <1>3, <1>u DEF LoadEnd, Interrupted, Opendir, ReloadDone, Reaped, Reloaded, LoopEnd
<1>4. ASSUME NEW p \in Pids, Reap(p) PROVE DownInv'
  <2>1. CASE pc \in {"tdreap", "endall"}
    <3>1. \A d \in spawns : Stopping(d)
      BY <2>1 DEF DownInv, StoppedForGood, Stopping
    <3>. QED BY <1>4, <2>1, <3>1, ReapStopping DEF Reap, DownInv, StoppedForGood, CleanOff
  <2>2. CASE pc \notin {"tdreap", "endall"}
    BY <1>4, <1>u, <2>2 DEF Reap, Reaping
  <2>. QED BY <2>1, <2>2
<1>5. ASSUME TeardownBegin PROVE DownInv'
  BY <1>5, StopAll DEF TeardownBegin, DownInv, StoppedForGood, CleanOff
<1>6. ASSUME TeardownSuspend PROVE DownInv'
  BY <1>6, <1>v DEF TeardownSuspend
<1>7. ASSUME TeardownReaped PROVE DownInv'
  <2>1. CASE \E p \in Pids : Unreaped(p)
    BY <1>7, <1>v, <2>1 DEF TeardownReaped
  <2>2. CASE \A p \in Pids : ~Unreaped(p)
    <3>1. spawns = {}
      BY <2>2 DEF SpawnsInv, PidsOwned
    <3>. QED BY <1>7, <2>2, <3>1
             DEF TeardownReaped, DownInv, StoppedForGood, CleanOff, Unreaped
  <2>. QED BY <2>1, <2>2
<1>8. ASSUME AllEnded PROVE DownInv'
  <2>1. spawns = {}
    BY <1>8 DEF AllEnded, SpawnsInv, PidsOwned
  <2>. QED BY <1>8, <2>1 DEF AllEnded, DownInv, StoppedForGood, CleanOff, Unreaped
<1>9. ASSUME NEW n \in Names, Command(n) PROVE DownInv'
  BY <1>9, <1>u DEF Command
<1>10. ASSUME NEW howto, QueueReboot(howto) PROVE DownInv'
  BY <1>10, <1>u DEF QueueReboot
<1>11. ASSUME Environment PROVE DownInv'
  <2>1. pc' = pc /\ pc # "off" /\ UNCHANGED daemonVars
    BY <1>11 DEF Environment, Bother, Process_Exec, Process_Exit, Timeout, Beside
  <2>. QED BY <1>u, <1>v, <2>1
<1>12. CASE UNCHANGED vars
  BY <1>12 DEF vars, DownInv, StoppedForGood, CleanOff, Unreaped
<1>. QED
  BY <1>1, <1>2, <1>3, <1>4, <1>5, <1>6, <1>7, <1>8, <1>9, <1>10, <1>11, <1>12
  DEF Next, Progress, Request

(* Once teardown() has called spawns_stop(), each daemon which is left is    *)
(* STOPPING and will not start again; when it calls reboot(2), no process    *)
(* and no entry of spawns is left.                                           *)
THEOREM TeardownStops == Spec => [](StoppedForGood /\ CleanOff)
<1>1. Init => DownInv
  BY DEF Init, DownInv, StoppedForGood, CleanOff, Teardown
<1>2. Init => TypeOK /\ SpawnsInv /\ DownInv
  BY <1>1, InitType, InitSpawns
<1>3. (TypeOK /\ SpawnsInv /\ DownInv) /\ [Next]_vars => (TypeOK /\ SpawnsInv /\ DownInv)'
  BY NextType, NextSpawns, NextDown
<1>4. TypeOK /\ SpawnsInv /\ DownInv => StoppedForGood /\ CleanOff
  BY DEF DownInv
<1>. QED BY <1>2, <1>3, <1>4, PTL DEF Spec

-----------------------------------------------------------------------------
(* What a step may not do. *)

(* No step of teardown() forks.                                              *)
LEMMA TeardownNoFork ==
  ASSUME TypeOK, DownInv, [Next]_vars, pc \in Teardown,
         NEW p \in Pids, proc'[p].status = "forked"
  PROVE  proc[p].status = "forked"
<1>. USE DEF kernelVars, daemonVars, Teardown
<1>u. ASSUME proc' = proc PROVE proc[p].status = "forked"
  BY <1>u
<1>1. ASSUME RcFork \/ RcSuspend \/ RcReaped PROVE FALSE
  BY <1>1 DEF RcFork, RcSuspend, RcReaped
<1>2. ASSUME NEW n \in Names, NEW f \in Files, Load(n, f) \/ Reload(n, f) PROVE FALSE
  BY <1>2 DEF Load, Reload
<1>3. ASSUME LoadEnd \/ Interrupted \/ Opendir \/ ReloadDone \/ Reaped PROVE FALSE
  BY <1>3 DEF LoadEnd, Interrupted, Opendir, ReloadDone, Reaped
<1>4. ASSUME NEW q \in Pids, Reap(q) PROVE proc[p].status = "forked"
  <2>1. pc \in {"tdreap", "endall"}
    BY <1>4 DEF Reap, Reaping
  <2>2. \A d \in spawns : Stopping(d)
    BY <2>1 DEF DownInv, StoppedForGood, Stopping
  <2>3. proc' = [proc EXCEPT ![q] = Free]
    BY <1>4, <2>2, ReapStopping
  <2>. QED BY <2>3 DEF TypeOK, Free
<1>5. ASSUME TeardownBegin PROVE proc[p].status = "forked"
  BY <1>5, SignalledKeeps DEF TeardownBegin, SpawnsStop, TypeOK
<1>6. ASSUME TeardownSuspend \/ AllEnded PROVE proc[p].status = "forked"
  BY <1>6, <1>u DEF TeardownSuspend, AllEnded, Deliver
<1>7. ASSUME TeardownReaped PROVE proc[p].status = "forked"
  BY <1>7, SignalledKeeps DEF TeardownReaped, KillAll, TypeOK
<1>8. ASSUME NEW n \in Names, Command(n) PROVE FALSE
  BY <1>8 DEF Command
<1>9. ASSUME NEW howto, QueueReboot(howto) PROVE FALSE
  BY <1>9 DEF QueueReboot
<1>10. ASSUME Environment PROVE proc[p].status = "forked"
  <2>1. ASSUME NEW q \in Pids, Process_Exec(q) PROVE proc[p].status = "forked"
    BY <2>1 DEF Process_Exec, Beside, Exec, TypeOK, Process
  <2>2. ASSUME NEW q \in Pids, NEW cause \in Causes, Process_Exit(q, cause)
        PROVE  proc[p].status = "forked"
    BY <2>2, CausesAssumption DEF Process_Exit, Beside, Exit, TypeOK, Process
  <2>3. ASSUME Timeout PROVE proc[p].status = "forked"
    BY <1>u, <2>3 DEF Timeout, Beside, AlarmRings
  <2>4. ASSUME NEW q \in Pids, Beside(Adopt(q) /\ UNCHANGED signalVars)
        PROVE  proc[p].status = "forked"
    BY <2>4 DEF Beside, Adopt, Free, TypeOK
  <2>5. ASSUME NEW q \in Pids, Beside(StopOrContinue(q) /\ UNCHANGED signalVars)
        PROVE  proc[p].status = "forked"
    BY <1>u, <2>5 DEF Beside, StopOrContinue
  <2>6. ASSUME Beside((SendHup \/ SendTerm) /\ UNCHANGED signalVars)
        PROVE  proc[p].status = "forked"
    BY <1>u, <2>6 DEF Beside, SendHup, SendTerm
  <2>. QED BY <1>10, <2>1, <2>2, <2>3, <2>4, <2>5, <2>6 DEF Environment, Bother, Beside
<1>11. CASE UNCHANGED vars
  BY <1>11, <1>u DEF vars
<1>. QED
  BY <1>1, <1>2, <1>3, <1>4, <1>5, <1>6, <1>7, <1>8, <1>9, <1>10, <1>11
  DEF Next, Progress, Request

(* From the end of the main loop on, cyberd does not fork.                   *)
THEOREM TeardownForksNothing == Spec => NoSpawnInTeardown
<1>. DEFINE Quiet == pc \in Teardown =>
              \A p \in Pids : proc'[p].status = "forked" => proc[p].status = "forked"
<1>1. Init => TypeOK /\ SpawnsInv /\ DownInv
  BY InitType, InitSpawns DEF Init, DownInv, StoppedForGood, CleanOff, Teardown
<1>2. (TypeOK /\ SpawnsInv /\ DownInv) /\ [Next]_vars => (TypeOK /\ SpawnsInv /\ DownInv)'
  BY NextType, NextSpawns, NextDown
<1>3. (TypeOK /\ SpawnsInv /\ DownInv) /\ [Next]_vars => [Quiet]_vars
  BY TeardownNoFork
<1>4. Spec => [][Quiet]_vars
  BY <1>1, <1>2, <1>3, PTL DEF Spec
<1>. QED BY <1>4 DEF NoSpawnInTeardown

(* Before the main loop reaches its reaping or its reload, nothing is decided.*)
Undecided == pc \in Boot \cup {"load", "select"} => sigreboot = "none"

(* sigterm_handler() runs in the main loop or in teardown() only, and the    *)
(* main loop ends after it has decided something.                            *)
LEMMA NextUndecided ==
  ASSUME TypeOK, Undecided, [Next]_vars
  PROVE  Undecided' /\ (sigreboot # "none" => sigreboot' = sigreboot)
<1>. DEFINE Goal == Undecided' /\ (sigreboot # "none" => sigreboot' = sigreboot)
<1>. USE DEF Boot, signalVars
<1>u. ASSUME UNCHANGED sigreboot, pc' = pc \/ pc' \notin Boot \cup {"load", "select"}
      PROVE  Goal
  BY <1>u DEF Undecided
<1>1. ASSUME RcFork \/ RcReaped PROVE Goal
  BY <1>1 DEF RcFork, RcReaped, Undecided
<1>2. ASSUME RcSuspend PROVE Goal
  BY <1>2 DEF RcSuspend, Deliver, Undecided
<1>3. ASSUME NEW n \in Names, NEW f \in Files, Load(n, f) \/ Reload(n, f) PROVE Goal
  BY <1>3, <1>u DEF Load, Reload
<1>4. ASSUME LoadEnd PROVE Goal
  BY <1>4 DEF LoadEnd, Undecided
<1>5. ASSUME Interrupted PROVE Goal
  BY <1>5 DEF Interrupted, LoopEnd, Undecided
<1>6. ASSUME Opendir PROVE Goal
  BY <1>6 DEF Opendir, Reloaded, LoopEnd, Undecided
<1>7. ASSUME ReloadDone PROVE Goal
  BY <1>7 DEF ReloadDone, Reloaded, LoopEnd, Undecided
<1>8. ASSUME NEW p \in Pids, Reap(p) PROVE Goal
  BY <1>8, <1>u DEF Reap
<1>9. ASSUME Reaped PROVE Goal
  BY <1>9 DEF Reaped, LoopEnd, Undecided
<1>10. ASSUME TeardownBegin PROVE Goal
  BY <1>10, <1>u DEF TeardownBegin
<1>11. ASSUME TeardownSuspend PROVE Goal
  BY <1>11, <1>u DEF TeardownSuspend, Deliver
<1>12. ASSUME TeardownReaped \/ AllEnded PROVE Goal
  BY <1>12, <1>u DEF TeardownReaped, AllEnded
<1>13. ASSUME NEW n \in Names, Command(n) PROVE Goal
  BY <1>13, <1>u DEF Command
<1>14. ASSUME NEW howto, QueueReboot(howto) PROVE Goal
  BY <1>14, <1>u DEF QueueReboot
<1>15. ASSUME Environment PROVE Goal
  BY <1>15, <1>u DEF Environment, Bother, Process_Exec, Process_Exit, Timeout, Beside, AlarmRings
<1>16. CASE UNCHANGED vars
  BY <1>16, <1>u DEF vars
<1>. QED
  BY <1>1, <1>2, <1>3, <1>4, <1>5, <1>6, <1>7, <1>8, <1>9, <1>10, <1>11, <1>12,
     <1>13, <1>14, <1>15, <1>16 DEF Next, Progress, Request

(* What sigterm_handler() decided is what reboot(2) is called with.          *)
THEOREM DecisionIsFinal == Spec => DecisionFinal
<1>. DEFINE Kept == sigreboot # "none" => sigreboot' = sigreboot
<1>1. Init => TypeOK /\ Undecided
  BY InitType DEF Init, SignalsInit, Undecided
<1>2. (TypeOK /\ Undecided) /\ [Next]_vars => (TypeOK /\ Undecided)' /\ [Kept]_vars
  BY NextType, NextUndecided
<1>3. Spec => [][Kept]_vars
  BY <1>1, <1>2, PTL DEF Spec
<1>. QED BY <1>3 DEF DecisionFinal

-----------------------------------------------------------------------------
(* What a signal reaches. *)

NoNewSignal(ps) == \A p \in Pids : proc'[p].sigs \subseteq ps[p].sigs

(* Whatever process p is newly sent is meant for it.                         *)
Meant ==
  pc' # "endall" =>
    \A p \in Pids : (proc'[p].sigs \ proc[p].sigs) # {} =>
      \E d \in spawns : pid[d] = p /\ proc[p].prog = d

(* A child which daemon_spawn() forks was sent nothing.                      *)
LEMMA SpawnNoSignal ==
  ASSUME NEW d \in Slots, NEW st, NEW sp, NEW ps,
         DaemonType(st, pid, start, sp, ps),
         DaemonStart(d, st, sp, ps) \/ DaemonSpawn(d, st, sp, ps)
  PROVE  NoNewSignal(ps)
BY DEF DaemonStart, DaemonSpawn, DaemonType, NoNewSignal, Forked

(* Collecting a process, and starting its daemon again, signals none.        *)
LEMMA ReapNoSignal ==
  ASSUME TypeOK, NEW p \in Pids, Reap(p)
  PROVE  NoNewSignal(proc)
<1>. DEFINE ps == [proc EXCEPT ![p] = Free]
<1>1. NoNewSignal(ps) => NoNewSignal(proc)
  BY DEF NoNewSignal, TypeOK, Free
<1>2. CASE proc' = ps
  BY <1>2, <1>1 DEF NoNewSignal
<1>3. ASSUME NEW d \in SpawnsFind(p, spawns),
             ReapedDaemon(d, proc[p].status, spawns \ {d}, ps)
      PROVE  NoNewSignal(ps)
  <2>. DEFINE st == [state EXCEPT ![d] = "STOPPED"]
  <2>1. d \in Slots /\ DaemonType(st, pid, start, spawns \ {d}, ps)
    BY TypeOfDaemon, FreeType DEF DaemonType, States, SpawnsFind
  <2>2. CASE proc[p].status \in start[d]
    BY <1>3, <2>1, <2>2, SpawnNoSignal DEF ReapedDaemon
  <2>3. CASE proc[p].status \notin start[d]
    BY <1>3, <2>3 DEF ReapedDaemon, NoNewSignal
  <2>. QED BY <2>2, <2>3
<1>. QED BY <1>1, <1>2, <1>3 DEF Reap

(* daemon_stop(), daemon_reload() and daemon_end() signal a daemon which is  *)
(* not STOPPED, under a pid which is then its own.                           *)
LEMMA CommandMeant ==
  ASSUME TypeOK, SpawnsInv, NEW n \in Slots,
         DaemonStop(n) \/ DaemonReload(n) \/ DaemonEnd(n)
  PROVE  Meant
<1>1. CASE proc' = proc
  BY <1>1 DEF Meant
<1>2. ASSUME state[n] # "STOPPED",
             NEW s, proc' = [proc EXCEPT ![pid[n]] = Signalled(@, s)]
      PROVE  Meant
  <2>1. n \in spawns /\ pid[n] \in Pids /\ proc[pid[n]].prog = n
    BY <1>2 DEF SpawnsInv, SpawnsTracked, PidsOwned
  <2>2. \A p \in Pids : p # pid[n] => proc'[p] = proc[p]
    BY <1>2 DEF TypeOK
  <2>. QED BY <2>1, <2>2 DEF Meant
<1>. QED BY <1>1, <1>2 DEF DaemonStop, DaemonReload, DaemonEnd

(* Each step signals nobody, or a daemon it means.                           *)
LEMMA NextMeant == TypeOK /\ SpawnsInv /\ [Next]_vars => Meant
<1>. SUFFICES ASSUME TypeOK, SpawnsInv, [Next]_vars PROVE Meant
  OBVIOUS
<1>. USE DEF kernelVars, daemonVars, signalVars
<1>k. ASSUME NoNewSignal(proc) PROVE Meant
  BY <1>k DEF Meant, NoNewSignal
<1>u. ASSUME UNCHANGED proc PROVE Meant
  BY <1>u DEF Meant
<1>1. ASSUME RcFork PROVE Meant
  BY <1>1, <1>k, SpawnNoSignal, TypeOfDaemon DEF RcFork, Slots
<1>2. ASSUME RcSuspend \/ RcReaped \/ LoadEnd \/ Interrupted \/ Opendir \/ ReloadDone
             \/ Reaped \/ TeardownSuspend \/ AllEnded
      PROVE  Meant
  BY <1>2, <1>u DEF RcSuspend, RcReaped, LoadEnd, Interrupted, Opendir, ReloadDone,
                    ReloadEnd, Reaped, TeardownSuspend, AllEnded, Deliver
<1>3. ASSUME NEW n \in Names, NEW f \in Files, LoadDaemon(n, f) PROVE NoNewSignal(proc)
  BY <1>3, SpawnNoSignal, TypeOfDaemon, NamesAreSlots DEF LoadDaemon, NoNewSignal
<1>4. ASSUME NEW n \in Names, NEW f \in Files, Load(n, f) \/ Reload(n, f) PROVE Meant
  <2>1. CASE Load(n, f)
    BY <1>3, <1>k, <2>1 DEF Load, LoadEntry
  <2>2. CASE Reload(n, f) /\ n \notin olddaemons
    BY <1>3, <1>k, <2>2 DEF Reload, ReloadEntry
  <2>3. CASE Reload(n, f) /\ n \in olddaemons
    BY <1>k, <2>3, SpawnNoSignal, TypeOfDaemon, NamesAreSlots
    DEF Reload, ReloadEntry, ReloadDaemon, NoNewSignal
  <2>. QED BY <1>4, <2>1, <2>2, <2>3
<1>5. ASSUME NEW p \in Pids, Reap(p) PROVE Meant
  BY <1>5, <1>k, ReapNoSignal
<1>6. ASSUME NEW n \in Names, Command(n) PROVE Meant
  <2>1. CASE DaemonStart(n, state, spawns, proc)
    BY <1>k, <2>1, SpawnNoSignal, TypeOfDaemon, NamesAreSlots
  <2>. QED BY <1>6, <2>1, CommandMeant, NamesAreSlots DEF Command
<1>7. ASSUME NEW howto, QueueReboot(howto) PROVE Meant
  BY <1>7, <1>u DEF QueueReboot
<1>8. ASSUME TeardownBegin PROVE Meant
  <2>1. ASSUME NEW p \in Pids, (proc'[p].sigs \ proc[p].sigs) # {}
        PROVE  \E d \in spawns : pid[d] = p
    BY <1>8, <2>1 DEF TeardownBegin, SpawnsStop
  <2>. QED BY <2>1 DEF Meant, SpawnsInv, PidsOwned
<1>9. ASSUME TeardownReaped PROVE Meant
  BY <1>9, <1>u DEF TeardownReaped, Meant
<1>10. ASSUME NEW p \in Pids, Process_Exec(p) PROVE NoNewSignal(proc)
  BY <1>10 DEF Process_Exec, Beside, Exec, NoNewSignal, TypeOK, Process
<1>11. ASSUME NEW p \in Pids, NEW cause \in Causes, Process_Exit(p, cause)
       PROVE  NoNewSignal(proc)
  BY <1>11 DEF Process_Exit, Beside, Exit, NoNewSignal, TypeOK, Process
<1>12. ASSUME Timeout PROVE Meant
  BY <1>12, <1>u DEF Timeout, Beside, AlarmRings
<1>13. ASSUME Bother PROVE NoNewSignal(proc)
  BY <1>13 DEF Bother, Beside, Adopt, StopOrContinue, SendHup, SendTerm, Free,
               NoNewSignal, TypeOK, Process
<1>14. CASE UNCHANGED vars
  BY <1>14, <1>u DEF vars
<1>. QED
  BY <1>k, <1>1, <1>2, <1>4, <1>5, <1>6, <1>7, <1>8, <1>9, <1>10, <1>11, <1>12,
     <1>13, <1>14 DEF Next, Progress, Request, Environment

(* A signal which cyberd sends to a pid reaches the daemon it is meant for,  *)
(* however often pids are recycled.                                          *)
THEOREM SignalsReachTheirOwn == Spec => SignalsOwn
<1>1. Init => TypeOK /\ SpawnsInv
  BY InitType, InitSpawns
<1>2. (TypeOK /\ SpawnsInv) /\ [Next]_vars => (TypeOK /\ SpawnsInv)' /\ [Meant]_vars
  BY NextType, NextSpawns, NextMeant
<1>3. Spec => [][Meant]_vars
  BY <1>1, <1>2, PTL DEF Spec
<1>. QED BY <1>3 DEF SignalsOwn, Meant

-----------------------------------------------------------------------------
(* What a reload leaves alone. *)

(* The daemons of spawns for which there is still a file keep what they have.*)
Undisturbed ==
  pc \in {"opendir", "reload"} =>
    \A d \in spawns : d \in daemons' \cup olddaemons' =>
      d \in spawns' /\ pid'[d] = pid[d] /\ state'[d] = state[d]

(* daemon_start() changes nothing for a daemon which has a process already,  *)
(* nor for any other daemon.                                                 *)
LEMMA StartUndisturbed ==
  ASSUME TypeOK, SpawnsTracked, NEW n \in Slots, DaemonStart(n, state, spawns, proc),
         NEW d \in spawns
  PROVE  d \in spawns' /\ pid'[d] = pid[d] /\ state'[d] = state[d]
<1>1. CASE state[n] = "STOPPED"
  <2>1. d # n
    BY <1>1 DEF SpawnsTracked
  <2>. QED BY <1>1, <2>1 DEF DaemonStart, DaemonSpawn, TypeOK
<1>2. CASE state[n] # "STOPPED"
  BY <1>2 DEF DaemonStart
<1>. QED BY <1>1, <1>2

(* Reading a file starts its daemon, if anything.                            *)
LEMMA EntryUndisturbed ==
  ASSUME TypeOK, SpawnsTracked, NEW n \in Names, NEW f \in Files, ReloadEntry(n, f),
         NEW d \in spawns
  PROVE  d \in spawns' /\ pid'[d] = pid[d] /\ state'[d] = state[d]
<1>1. \/ DaemonStart(n, state, spawns, proc)
      \/ UNCHANGED <<state, pid, spawns>>
  BY DEF ReloadEntry, ReloadDaemon, LoadDaemon, daemonVars
<1>. QED BY <1>1, StartUndisturbed, NamesAreSlots

(* The end of a reload destroys the daemons of the old tree only, of which   *)
(* none is in the new one.                                                   *)
LEMMA EndUndisturbed ==
  ASSUME TypeOK, SpawnsInv, OneOwner, ReloadEnd,
         NEW d \in spawns, d \in daemons' \cup olddaemons'
  PROVE  d \in spawns' /\ pid'[d] = pid[d] /\ state'[d] = state[d]
<1>1. d \in daemons /\ d \notin olddaemons
  BY DEF ReloadEnd, OneOwner
<1>2. olddaemons \in SUBSET Slots
  BY NamesAreSlots DEF TypeOK
<1>3. DaemonDestroy(olddaemons) /\ spawns' = spawns \ olddaemons
  BY <1>2, DestroyKeeps, SpawnsParts, TypeOfDaemon DEF ReloadEnd, SpawnsInv
<1>. QED BY <1>1, <1>3 DEF DaemonDestroy, TypeOK

(* Of what may happen in a reload, only those steps change a daemon.         *)
LEMMA NextUndisturbed ==
  ASSUME TypeOK, SpawnsInv, OwnerInv, [Next]_vars
  PROVE  Undisturbed
<1>. SUFFICES ASSUME pc \in {"opendir", "reload"} PROVE Undisturbed
  BY DEF Undisturbed
<1>u. ASSUME UNCHANGED daemonVars PROVE Undisturbed
  BY <1>u DEF Undisturbed, daemonVars
<1>1. CASE Opendir
  BY <1>1, <1>u DEF Opendir
<1>2. ASSUME NEW n \in Names, NEW f \in Files, Reload(n, f) PROVE Undisturbed
  BY <1>2, EntryUndisturbed DEF Reload, SpawnsInv, Undisturbed
<1>3. CASE ReloadDone
  BY <1>3, EndUndisturbed DEF ReloadDone, OwnerInv, Undisturbed
<1>4. CASE Environment
  BY <1>4, <1>u DEF Environment, Bother, Process_Exec, Process_Exit, Timeout, Beside
<1>5. CASE UNCHANGED vars
  BY <1>5, <1>u DEF vars
<1>6. ASSUME NEW n \in Names, NEW f \in Files PROVE ~Load(n, f)
  BY DEF Load
<1>7. ASSUME NEW p \in Pids PROVE ~Reap(p)
  BY DEF Reap, Reaping
<1>8. ~(RcFork \/ RcSuspend \/ RcReaped \/ LoadEnd \/ Interrupted \/ Reaped)
  BY DEF RcFork, RcSuspend, RcReaped, LoadEnd, Interrupted, Reaped
<1>9. ~(TeardownBegin \/ TeardownSuspend \/ TeardownReaped \/ AllEnded)
  BY DEF TeardownBegin, TeardownSuspend, TeardownReaped, AllEnded
<1>10. ~Request
  BY DEF Request, Command, QueueReboot
<1>. QED BY <1>1, <1>2, <1>3, <1>4, <1>5, <1>6, <1>7, <1>8, <1>9, <1>10 DEF Next, Progress

(* A reload keeps each daemon whose file it meets: its process, its state    *)
(* and its place in spawns.                                                  *)
THEOREM ReloadIsQuiet == Spec => ReloadKeeps
<1>. DEFINE Inv == TypeOK /\ SpawnsInv /\ OwnerInv
<1>1. Init => Inv
  BY InitType, InitSpawns, InitOwner
<1>2. Inv /\ [Next]_vars => Inv' /\ [Undisturbed]_vars
  BY NextType, NextSpawns, NextOwner, NextUndisturbed
<1>3. Spec => [][Undisturbed]_vars
  BY <1>1, <1>2, PTL DEF Spec
<1>. QED BY <1>3 DEF ReloadKeeps, Undisturbed

-----------------------------------------------------------------------------
(* Supervision is implemented. *)

Children == [d \in Slots |-> Child(d)]
Again    == [d \in Slots |-> start[d] \cap Causes]
Closed   == pc \in Teardown \ {"teardown"}

(* The processes of the daemons of spawns are as they were, but that a child *)
(* may have become its program.                                              *)
SameProcesses ==
  /\ UNCHANGED <<pid, spawns>>
  /\ \A d \in spawns : \/ proc'[pid[d]].status = proc[pid[d]].status
                       \/ Alive(pid[d]) /\ Alive(pid[d])'

(* Then cyberd knows what it knew of them.                                   *)
LEMMA SameChildren == SameProcesses => Children' = Children
<1>. SUFFICES ASSUME SameProcesses, NEW d \in Slots PROVE Child(d)' = Child(d)
  BY DEF Children
<1>. QED BY DEF SameProcesses, Child, Alive

(* daemon_spawn(): the daemon has a process, the other ones keep theirs.     *)
LEMMA SpawnChild ==
  ASSUME NEW d \in Slots, TypeOK, SpawnsInv, DaemonStart(d, state, spawns, proc)
  PROVE  \/ /\ state[d] = "STOPPED"
            /\ state' = [state EXCEPT ![d] = "STARTED"]
            /\ Children' = [Children EXCEPT ![d] = "alive"]
         \/ state' = state /\ Children' = Children
<1>1. CASE proc' = proc /\ state' = state /\ spawns' = spawns /\ UNCHANGED pid
  BY <1>1, SameChildren DEF SameProcesses
<1>2. ASSUME NEW p \in Pids, proc[p].status = "free", state[d] = "STOPPED",
             proc' = [proc EXCEPT ![p] = Forked(d)], pid' = [pid EXCEPT ![d] = p],
             state' = [state EXCEPT ![d] = "STARTED"], spawns' = spawns \cup {d}
      PROVE  Children' = [Children EXCEPT ![d] = "alive"]
  <2>1. Child(d)' = "alive"
    BY <1>2 DEF Child, Alive, Forked, TypeOK
  <2>2. ASSUME NEW e \in Slots, e # d PROVE Child(e)' = Child(e)
    <3>1. CASE e \in spawns
      <4>1. pid[e] \in Pids /\ pid[e] # p
        BY <1>2, <3>1 DEF SpawnsInv, PidsOwned, Unreaped
      <4>2. pid'[e] = pid[e] /\ proc'[pid[e]] = proc[pid[e]]
        BY <1>2, <2>2, <4>1 DEF TypeOK
      <4>. QED BY <1>2, <3>1, <4>2 DEF Child, Alive
    <3>2. CASE e \notin spawns
      BY <1>2, <2>2, <3>2 DEF Child
    <3>. QED BY <3>1, <3>2
  <2>. QED BY <2>1, <2>2 DEF Children
<1>. QED BY <1>1, <1>2 DEF DaemonStart, DaemonSpawn

(* reaped_daemon(): the end of a daemon is seen, and the daemon started      *)
(* again if it has the flag for it; no other daemon is disturbed.            *)
LEMMA ReapChild ==
  ASSUME TypeOK, SpawnsInv, NEW p \in Pids, Reap(p)
  PROVE  \/ state' = state /\ Children' = Children
         \/ \E d \in Slots :
              /\ Children[d] \in Causes
              /\ \/ /\ state' = [state EXCEPT ![d] = "STOPPED"]
                    /\ Children' = [Children EXCEPT ![d] = "none"]
                 \/ /\ Children[d] \in Again[d]
                    /\ state' = [state EXCEPT ![d] = "STARTED"]
                    /\ Children' = [Children EXCEPT ![d] = "alive"]
<1>. DEFINE ps == [proc EXCEPT ![p] = Free]
<1>1. CASE SpawnsFind(p, spawns) = {} /\ proc' = ps /\ UNCHANGED <<state, pid, spawns>>
  <2>1. ASSUME NEW d \in spawns PROVE proc'[pid[d]].status = proc[pid[d]].status
    BY <1>1 DEF SpawnsFind, SpawnsInv, PidsOwned, TypeOK
  <2>. QED BY <1>1, <2>1, SameChildren DEF SameProcesses
<1>2. ASSUME NEW d \in SpawnsFind(p, spawns),
             ReapedDaemon(d, proc[p].status, spawns \ {d}, ps)
      PROVE  \E e \in Slots :
              /\ Children[e] \in Causes
              /\ \/ /\ state' = [state EXCEPT ![e] = "STOPPED"]
                    /\ Children' = [Children EXCEPT ![e] = "none"]
                 \/ /\ Children[e] \in Again[e]
                    /\ state' = [state EXCEPT ![e] = "STARTED"]
                    /\ Children' = [Children EXCEPT ![e] = "alive"]
  <2>1. d \in Slots /\ d \in spawns /\ pid[d] = p
    BY DEF SpawnsFind, TypeOK
  <2>2. Children[d] = proc[p].status /\ proc[p].status \in Causes
    <3>1. proc[p].status \in Causes /\ ~Alive(p)
      BY CausesAssumption DEF Reap, Zombie, Alive
    <3>. QED BY <2>1, <3>1 DEF Children, Child
  <2>3. ASSUME NEW e \in spawns, e # d PROVE pid[e] \in Pids /\ pid[e] # p
    BY <2>1, <2>3 DEF SpawnsInv, PidsOwned
  <2>4. CASE /\ proc' = ps /\ state' = [state EXCEPT ![d] = "STOPPED"]
             /\ spawns' = spawns \ {d} /\ UNCHANGED pid
    <3>1. Child(d)' = "none"
      BY <2>4 DEF Child
    <3>2. ASSUME NEW e \in Slots, e # d PROVE Child(e)' = Child(e)
      BY <2>3, <2>4, <3>2 DEF Child, Alive, TypeOK
    <3>3. Children' = [Children EXCEPT ![d] = "none"]
      BY <3>1, <3>2 DEF Children
    <3>. QED BY <2>1, <2>2, <2>4, <3>3
  <2>5. ASSUME NEW q \in Pids, proc[p].status \in start[d],
               ps[q].status = "free",
               proc' = [ps EXCEPT ![q] = Forked(d)], pid' = [pid EXCEPT ![d] = q],
               state' = [state EXCEPT ![d] = "STARTED"],
               spawns' = (spawns \ {d}) \cup {d}
        PROVE  /\ Children[d] \in Again[d]
               /\ Children' = [Children EXCEPT ![d] = "alive"]
    <3>1. Child(d)' = "alive"
      BY <2>1, <2>5 DEF Child, Alive, Forked, TypeOK
    <3>2. ASSUME NEW e \in Slots, e # d PROVE Child(e)' = Child(e)
      <4>1. CASE e \in spawns
        <5>1. pid[e] \in Pids /\ pid[e] # p /\ proc[pid[e]].status # "free"
          BY <2>3, <3>2, <4>1 DEF SpawnsInv, PidsOwned, Unreaped
        <5>2. pid[e] # q
          BY <2>5, <5>1 DEF TypeOK
        <5>3. pid'[e] = pid[e] /\ proc'[pid[e]] = proc[pid[e]]
          BY <2>5, <3>2, <5>1, <5>2 DEF TypeOK
        <5>. QED BY <2>5, <3>2, <4>1, <5>3 DEF Child, Alive
      <4>2. CASE e \notin spawns
        BY <2>5, <3>2, <4>2 DEF Child
      <4>. QED BY <4>1, <4>2
    <3>3. Children' = [Children EXCEPT ![d] = "alive"]
      BY <3>1, <3>2 DEF Children
    <3>. QED BY <2>1, <2>2, <2>5, <3>3 DEF Again
  <2>. DEFINE st == [state EXCEPT ![d] = "STOPPED"]
  <2>6. st[d] = "STOPPED" /\ [st EXCEPT ![d] = "STARTED"] = [state EXCEPT ![d] = "STARTED"]
    BY <2>1 DEF TypeOK
  <2>7. \/ /\ proc' = ps /\ state' = st
           /\ spawns' = spawns \ {d} /\ UNCHANGED pid
        \/ /\ proc[p].status \in start[d]
           /\ \E q \in Pids :
                /\ ps[q].status = "free"
                /\ proc' = [ps EXCEPT ![q] = Forked(d)] /\ pid' = [pid EXCEPT ![d] = q]
                /\ state' = [st EXCEPT ![d] = "STARTED"]
                /\ spawns' = (spawns \ {d}) \cup {d}
    BY <1>2, <2>6 DEF ReapedDaemon, DaemonStart, DaemonSpawn
  <2>. QED BY <2>1, <2>2, <2>4, <2>5, <2>6, <2>7
<1>. QED BY <1>1, <1>2 DEF Reap

-----------------------------------------------------------------------------
(* The steps of Supervision, in terms of Cyberd.                             *)

Started(d) ==
  /\ state[d] = "STOPPED"
  /\ state' = [state EXCEPT ![d] = "STARTED"]
  /\ Children' = [Children EXCEPT ![d] = "alive"]

SuperStep == [Supervised!Next]_(Supervised!vars)

(* Nothing changes which Supervision speaks of.                              *)
LEMMA IsStutter ==
  ASSUME UNCHANGED <<state, Children, Again, Closed>>
  PROVE  SuperStep
BY DEF SuperStep, Supervised!vars, Children, Again, Closed

(* daemon_start() on a STOPPED daemon.                                       *)
LEMMA IsStart ==
  ASSUME NEW d \in Slots, ~Closed, Started(d), UNCHANGED <<Again, Closed>>
  PROVE  SuperStep
<1>1. Supervised!Start(d)
  BY DEF Supervised!Start, Supervised!Run, Started, Children, Again, Closed
<1>. QED BY <1>1 DEF SuperStep, Supervised!Next

(* A file which was read.                                                    *)
LEMMA IsConfigure ==
  ASSUME NEW d \in Slots, NEW C \in SUBSET Causes, ~Closed,
         Again' = [Again EXCEPT ![d] = C], UNCHANGED Closed,
         Started(d) \/ UNCHANGED <<state, Children>>
  PROVE  SuperStep
<1>1. Supervised!Configure(d)
  BY DEF Supervised!Configure, Supervised!Run, Started, Children, Again, Closed
<1>. QED BY <1>1 DEF SuperStep, Supervised!Next

(* daemon_stop() on a STARTED daemon.                                        *)
LEMMA IsStop ==
  ASSUME NEW d \in Slots, ~Closed, state[d] = "STARTED",
         state' = [state EXCEPT ![d] = "STOPPING"], UNCHANGED <<Children, Again, Closed>>
  PROVE  SuperStep
<1>1. Supervised!Stop(d)
  BY DEF Supervised!Stop, Children, Again, Closed
<1>. QED BY <1>1 DEF SuperStep, Supervised!Next

(* The end of a process of spawns.                                           *)
LEMMA IsEnd ==
  ASSUME NEW d \in Slots, NEW cause \in Causes, Children[d] = "alive",
         Children' = [Children EXCEPT ![d] = cause], UNCHANGED <<state, Again, Closed>>
  PROVE  SuperStep
<1>1. Supervised!End(d, cause)
  BY DEF Supervised!End, Children, Again, Closed
<1>. QED BY <1>1 DEF SuperStep, Supervised!Next

(* reaped_daemon().                                                          *)
LEMMA IsCollect ==
  ASSUME NEW d \in Slots, Children[d] \in Causes, UNCHANGED <<Again, Closed>>,
         \/ /\ state' = [state EXCEPT ![d] = "STOPPED"]
            /\ Children' = [Children EXCEPT ![d] = "none"]
         \/ /\ Children[d] \in Again[d]
            /\ state' = [state EXCEPT ![d] = "STARTED"]
            /\ Children' = [Children EXCEPT ![d] = "alive"]
  PROVE  SuperStep
<1>1. Supervised!Collect(d)
  BY DEF Supervised!Collect, Supervised!Run, Children, Again, Closed
<1>. QED BY <1>1 DEF SuperStep, Supervised!Next

(* daemon_destroy() on what is left in the old tree.                         *)
LEMMA IsAbandon ==
  ASSUME NEW D \in SUBSET Slots, ~Closed, UNCHANGED Closed,
         state'    = [d \in Slots |-> IF d \in D THEN "STOPPED" ELSE state[d]],
         Children' = [d \in Slots |-> IF d \in D THEN "none" ELSE Children[d]],
         Again'    = [d \in Slots |-> IF d \in D THEN {} ELSE Again[d]]
  PROVE  SuperStep
<1>1. Supervised!Abandon(D)
  BY DEF Supervised!Abandon, Children, Again, Closed
<1>. QED BY <1>1 DEF SuperStep, Supervised!Next

(* spawns_stop().                                                            *)
LEMMA IsClose ==
  ASSUME ~Closed, Closed', UNCHANGED Children,
         state' = [d \in Slots |-> IF state[d] = "STOPPED" THEN "STOPPED" ELSE "STOPPING"],
         Again' = [d \in Slots |-> IF state[d] = "STOPPED" THEN Again[d] ELSE {}]
  PROVE  SuperStep
<1>1. (pc' \in Teardown \ {"teardown"}) = TRUE
  BY DEF Closed
<1>2. Supervised!Close
  BY <1>1 DEF Supervised!Close, Children, Again, Closed
<1>. QED BY <1>2 DEF SuperStep, Supervised!Next

-----------------------------------------------------------------------------
(* The steps of Cyberd. *)

(* daemon_start() called for a client.                                       *)
LEMMA StartStep ==
  ASSUME NEW d \in Slots, TypeOK, SpawnsInv, DaemonStart(d, state, spawns, proc),
         ~Closed, UNCHANGED <<start, Closed>>
  PROVE  SuperStep
<1>1. Again' = Again
  BY DEF Again
<1>2. Started(d) \/ UNCHANGED <<state, Children>>
  BY SpawnChild DEF Started
<1>. QED BY <1>1, <1>2, IsStart, IsStutter

(* An entry of the directory is read, by configuration_load() or by          *)
(* configuration_reload().                                                   *)
LEMMA EntryStep ==
  ASSUME NEW n \in Names, NEW f \in Files, TypeOK, SpawnsInv, ~Closed, UNCHANGED Closed,
         LoadDaemon(n, f) \/ ReloadDaemon(n, f)
  PROVE  SuperStep
<1>1. n \in Slots
  BY NamesAreSlots
<1>2. CASE UNCHANGED <<daemonVars, proc>>
  <2>1. SameProcesses /\ Again' = Again /\ state' = state
    BY <1>2 DEF SameProcesses, daemonVars, Again
  <2>. QED BY <2>1, SameChildren, IsStutter
<1>3. CASE /\ start' = [start EXCEPT ![n] = f.start]
           /\ \/ DaemonStart(n, state, spawns, proc)
              \/ UNCHANGED <<state, pid, spawns, proc>>
  <2>1. Again' = [Again EXCEPT ![n] = f.start \cap Causes]
    BY <1>1, <1>3 DEF Again, TypeOK
  <2>2. f.start \cap Causes \in SUBSET Causes
    OBVIOUS
  <2>3. Started(n) \/ UNCHANGED <<state, Children>>
    <3>1. CASE DaemonStart(n, state, spawns, proc)
      BY <1>1, <3>1, SpawnChild DEF Started
    <3>2. CASE UNCHANGED <<state, pid, spawns, proc>>
      <4>1. SameProcesses
        BY <3>2 DEF SameProcesses
      <4>. QED BY <3>2, <4>1, SameChildren
    <3>. QED BY <1>3, <3>1, <3>2
  <2>. QED BY <1>1, <2>1, <2>2, <2>3, IsConfigure
<1>. QED BY <1>2, <1>3 DEF LoadDaemon, ReloadDaemon

(* A command on a daemon, from a connection.                                 *)
LEMMA CommandStep ==
  ASSUME NEW n \in Names, TypeOK, SpawnsInv, Command(n)
  PROVE  SuperStep
<1>1. n \in Slots /\ ~Closed /\ UNCHANGED Closed
  BY NamesAreSlots DEF Command, Closed, Teardown
<1>2. CASE DaemonStart(n, state, spawns, proc) /\ UNCHANGED start
  BY <1>1, <1>2, StartStep
<1>3. CASE DaemonStop(n) \/ DaemonReload(n) \/ DaemonEnd(n)
  <2>1. /\ UNCHANGED <<pid, start, spawns>>
        /\ \A p \in Pids : proc'[p].status = proc[p].status
    BY <1>1, <1>3, SignalledKeeps DEF DaemonStop, DaemonReload, DaemonEnd, TypeOK
  <2>2. SameProcesses
    BY <2>1 DEF SameProcesses, SpawnsInv, PidsOwned
  <2>3. UNCHANGED <<Children, Again>>
    BY <2>1, <2>2, SameChildren DEF Again
  <2>4. CASE state' = state
    BY <1>1, <2>3, <2>4, IsStutter
  <2>5. CASE state[n] = "STARTED" /\ state' = [state EXCEPT ![n] = "STOPPING"]
    BY <1>1, <2>3, <2>5, IsStop
  <2>. QED BY <1>3, <2>4, <2>5 DEF DaemonStop, DaemonReload, DaemonEnd
<1>. QED BY <1>2, <1>3 DEF Command

(* The end of a reload, with the daemons whose files are gone.               *)
LEMMA DestroyStep ==
  ASSUME TypeOK, SpawnsInv, ReloadDone
  PROVE  SuperStep
<1>. DEFINE D == olddaemons
<1>1. D \in SUBSET Slots
  BY NamesAreSlots DEF TypeOK
<1>2. ~Closed /\ UNCHANGED Closed
  BY DEF ReloadDone, Reloaded, LoopEnd, Closed, Teardown
<1>3. DaemonDestroy(D) /\ proc' = proc
  BY DEF ReloadDone, ReloadEnd, kernelVars
<1>4. spawns' = spawns \ D
  BY <1>1, <1>3, DestroyKeeps, TypeOfDaemon, SpawnsParts DEF SpawnsInv
<1>5. \A d \in Slots : Child(d)' = IF d \in D THEN "none" ELSE Child(d)
  BY <1>3, <1>4 DEF DaemonDestroy, Child, Alive
<1>6. Children' = [d \in Slots |-> IF d \in D THEN "none" ELSE Children[d]]
  BY <1>5 DEF Children
<1>7. Again' = [d \in Slots |-> IF d \in D THEN {} ELSE Again[d]]
  BY <1>3 DEF DaemonDestroy, Again
<1>. QED BY <1>1, <1>2, <1>3, <1>6, <1>7, IsAbandon DEF DaemonDestroy

(* The way down begins: every daemon which has a process is told to stop.    *)
LEMMA CloseStep ==
  ASSUME TypeOK, SpawnsInv, TeardownBegin
  PROVE  SuperStep
<1>1. ~Closed /\ Closed'
  BY DEF TeardownBegin, Closed, Teardown
<1>2. SpawnsStop
  BY DEF TeardownBegin
<1>3. \A d \in Slots : d \in spawns <=> state[d] # "STOPPED"
  BY DEF SpawnsInv, SpawnsTracked
<1>4. Children' = Children
  <2>1. \A p \in Pids : proc'[p].status = proc[p].status
    BY <1>2, SignalledKeeps DEF SpawnsStop, TypeOK
  <2>2. SameProcesses
    BY <1>2, <2>1 DEF SpawnsStop, SameProcesses, SpawnsInv, PidsOwned
  <2>. QED BY <2>2, SameChildren
<1>5. state' = [d \in Slots |-> IF state[d] = "STOPPED" THEN "STOPPED" ELSE "STOPPING"]
  BY <1>2, <1>3 DEF SpawnsStop, TypeOK, States
<1>6. Again' = [d \in Slots |-> IF state[d] = "STOPPED" THEN Again[d] ELSE {}]
  BY <1>2, <1>3 DEF SpawnsStop, Again
<1>. QED BY <1>1, <1>4, <1>5, <1>6, IsClose

(* A process ends, which may be that of a daemon of spawns.                  *)
LEMMA ExitStep ==
  ASSUME TypeOK, SpawnsInv, NEW p \in Pids, NEW cause \in Causes, Process_Exit(p, cause)
  PROVE  SuperStep
<1>1. /\ Alive(p) /\ UNCHANGED <<state, pid, start, spawns, pc>>
      /\ proc' = [proc EXCEPT ![p].status = cause, ![p].sigs = {}]
  BY DEF Process_Exit, Beside, Exit, daemonVars
<1>2. UNCHANGED <<state, Again, Closed>>
  BY <1>1 DEF Again, Closed
<1>3. proc'[p].status = cause /\ \A q \in Pids : q # p => proc'[q] = proc[q]
  BY <1>1 DEF TypeOK
<1>4. CASE \A d \in spawns : pid[d] # p
  <2>1. SameProcesses
    BY <1>1, <1>3, <1>4 DEF SameProcesses, SpawnsInv, PidsOwned
  <2>. QED BY <1>2, <2>1, SameChildren, IsStutter
<1>5. ASSUME NEW d \in spawns, pid[d] = p PROVE SuperStep
  <2>1. d \in Slots
    BY DEF TypeOK
  <2>2. Children[d] = "alive"
    BY <1>1, <1>5, <2>1 DEF Children, Child
  <2>3. Child(d)' = cause
    <3>1. cause \notin {"forked", "running"}
      BY CausesAssumption
    <3>. QED BY <1>1, <1>3, <1>5, <3>1 DEF Child, Alive
  <2>4. ASSUME NEW e \in Slots, e # d PROVE Child(e)' = Child(e)
    <3>1. CASE e \in spawns
      <4>1. pid[e] \in Pids /\ pid[e] # p
        BY <1>5, <2>4, <3>1 DEF SpawnsInv, PidsOwned
      <4>. QED BY <1>1, <1>3, <3>1, <4>1 DEF Child, Alive
    <3>2. CASE e \notin spawns
      BY <1>1, <3>2 DEF Child
    <3>. QED BY <3>1, <3>2
  <2>5. Children' = [Children EXCEPT ![d] = cause]
    BY <2>3, <2>4 DEF Children
  <2>. QED BY <1>2, <2>1, <2>2, <2>5, IsEnd
<1>. QED BY <1>4, <1>5

(* A step beside cyberd which ends no process.                               *)
LEMMA BesideStep ==
  ASSUME TypeOK, SpawnsInv,
         (\E p \in Pids : Process_Exec(p)) \/ Timeout \/ Bother
  PROVE  SuperStep
<1>1. UNCHANGED <<state, pid, start, spawns, pc>>
  BY DEF Process_Exec, Timeout, Bother, Beside, daemonVars
<1>2. SameProcesses
  <2>1. ASSUME NEW p \in Pids, Exec(p) PROVE SameProcesses
    BY <1>1, <2>1 DEF Exec, SameProcesses, Alive, SpawnsInv, PidsOwned, TypeOK
  <2>2. ASSUME NEW p \in Pids, Adopt(p) PROVE SameProcesses
    BY <1>1, <2>2 DEF Adopt, SameProcesses, SpawnsInv, PidsOwned, TypeOK, Unreaped
  <2>3. CASE proc' = proc
    BY <1>1, <2>3 DEF SameProcesses
  <2>. QED BY <2>1, <2>2, <2>3
       DEF Process_Exec, Timeout, Bother, Beside, AlarmRings, StopOrContinue,
           SendHup, SendTerm
<1>. QED BY <1>1, <1>2, SameChildren, IsStutter DEF Again, Closed

(* Each step of Cyberd is one of Supervision, or none.                       *)
LEMMA NextSupervised == TypeOK /\ SpawnsInv /\ [Next]_vars => SuperStep
<1>. SUFFICES ASSUME TypeOK, SpawnsInv, [Next]_vars PROVE SuperStep
  OBVIOUS
<1>s. ASSUME UNCHANGED <<state, pid, start, spawns, Closed>>,
             \A p \in Pids : proc'[p].status = proc[p].status
      PROVE  SuperStep
  <2>1. SameProcesses
    BY <1>s DEF SameProcesses, SpawnsInv, PidsOwned
  <2>. QED BY <1>s, <2>1, SameChildren, IsStutter DEF Again
<1>1. CASE RcFork
  <2>1. Rc \in Slots /\ ~Closed /\ UNCHANGED Closed /\ UNCHANGED start
    BY <1>1 DEF RcFork, Slots, Closed, Teardown
  <2>2. DaemonStart(Rc, state, spawns, proc)
    BY <1>1, <2>1 DEF RcFork, DaemonStart, SpawnsInv, SpawnsTracked, RcFirst
  <2>. QED BY <2>1, <2>2, StartStep
<1>2. CASE RcSuspend \/ RcReaped \/ LoadEnd \/ Interrupted \/ Opendir \/ Reaped
           \/ TeardownSuspend \/ AllEnded
  <2>1. UNCHANGED <<proc, state, pid, start, spawns>>
    BY <1>2 DEF RcSuspend, RcReaped, LoadEnd, Interrupted, Opendir, Reaped,
                TeardownSuspend, AllEnded, Deliver, kernelVars, daemonVars
  <2>2. UNCHANGED Closed
    BY <1>2 DEF RcSuspend, RcReaped, LoadEnd, Interrupted, Opendir, Reaped, Reloaded,
                LoopEnd, TeardownSuspend, AllEnded, Closed, Teardown
  <2>. QED BY <1>s, <2>1, <2>2
<1>3. ASSUME NEW n \in Names, NEW f \in Files, Load(n, f) \/ Reload(n, f) PROVE SuperStep
  <2>1. ~Closed /\ UNCHANGED Closed
    BY <1>3 DEF Load, Reload, Closed, Teardown
  <2>2. LoadDaemon(n, f) \/ ReloadDaemon(n, f)
    BY <1>3 DEF Load, Reload, LoadEntry, ReloadEntry
  <2>. QED BY <2>1, <2>2, EntryStep
<1>4. CASE ReloadDone
  BY <1>4, DestroyStep
<1>5. ASSUME NEW p \in Pids, Reap(p) PROVE SuperStep
  <2>1. UNCHANGED <<Again, Closed>>
    BY <1>5 DEF Reap, Again, Closed
  <2>2. CASE state' = state /\ Children' = Children
    BY <2>1, <2>2, IsStutter
  <2>3. CASE ~(state' = state /\ Children' = Children)
    BY <1>5, <2>1, <2>3, ReapChild, IsCollect
  <2>. QED BY <2>2, <2>3
<1>6. CASE TeardownBegin
  BY <1>6, CloseStep
<1>7. CASE TeardownReaped
  <2>1. \A p \in Pids : proc'[p].status = proc[p].status
    BY <1>7, SignalledKeeps DEF TeardownReaped, KillAll, TypeOK
  <2>2. UNCHANGED <<state, pid, start, spawns, Closed>>
    BY <1>7 DEF TeardownReaped, daemonVars, Closed, Teardown
  <2>. QED BY <1>s, <2>1, <2>2
<1>8. ASSUME NEW n \in Names, Command(n) PROVE SuperStep
  BY <1>8, CommandStep
<1>9. ASSUME NEW howto, QueueReboot(howto) PROVE SuperStep
  BY <1>9, <1>s DEF QueueReboot, daemonVars, Closed
<1>10. CASE Environment
  BY <1>10, ExitStep, BesideStep DEF Environment
<1>11. CASE UNCHANGED vars
  BY <1>11, <1>s DEF vars, kernelVars, daemonVars, Closed
<1>. QED
  BY <1>1, <1>2, <1>3, <1>4, <1>5, <1>6, <1>7, <1>8, <1>9, <1>10, <1>11
  DEF Next, Progress, Request

(* Cyberd implements Supervision: whatever handlers, reloads and recycled    *)
(* pids do in between, no daemon is started while cyberd knows a process of  *)
(* it, none leaves STOPPING but by the end of its process or of its file,    *)
(* and none is started again but after an end its file names, nor once the   *)
(* system stops.                                                             *)
THEOREM CyberdSupervises == Spec => Supervises
<1>1. Init => Supervised!Init
  BY DEF Init, DaemonInit, Supervised!Init, Child, Teardown
<1>2. Init => TypeOK /\ SpawnsInv
  BY InitType, InitSpawns
<1>3. TypeOK /\ SpawnsInv /\ [Next]_vars => (TypeOK /\ SpawnsInv)'
  BY NextType, NextSpawns
<1>4. TypeOK /\ SpawnsInv /\ [Next]_vars => [Supervised!Next]_(Supervised!vars)
  BY NextSupervised DEF SuperStep
<1>. QED BY <1>1, <1>2, <1>3, <1>4, PTL DEF Spec, Supervises, Supervised!Spec

=============================================================================
