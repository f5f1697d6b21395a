------------------------------- MODULE Cyberd -------------------------------
(***************************************************************************)
(* main.c, composed with the modules it calls: boot (rc and the first load *)
(* of the configuration), the main loop around pselect(2), and teardown.   *)
(*                                                                         *)
(* cyberd is one thread; what runs beside it are its children, the alarm   *)
(* and the administrator.  pc is the place where cyberd is:                *)
(*   "rc"          rc() is about to fork                                   *)
(*   "rcsuspend"   rc() waits in sigsuspend                                *)
(*   "rcreap"      rc() is in reap_children(WNOHANG)                       *)
(*   "load"        configuration_load() scans the directory                *)
(*   "select"      the main loop waits in pselect                          *)
(*   "opendir"     configuration_reload() is about to open the directory   *)
(*   "reload"      configuration_reload() scans the directory              *)
(*   "reap"        the main loop is in reap_children(WNOHANG)              *)
(*   "teardown"    the main loop has ended                                 *)
(*   "tdsuspend"   teardown() waits in sigsuspend                          *)
(*   "tdreap"      teardown() is in reap_children(WNOHANG)                 *)
(*   "endall"      teardown() is in the blocking reap_children(0)          *)
(*   "off"         reboot(2) was called                                    *)
(***************************************************************************)
EXTENDS Configuration, Signals

CONSTANT Commands  \* daemon commands for which there is an endpoint

ASSUME CommandsAssumption == Commands \subseteq {"start", "stop", "reload", "end"}

VARIABLE pc

vars == <<kernelVars, daemonVars, configurationVars, signalVars, pc>>

Boot     == {"rc", "rcsuspend", "rcreap"}
Teardown == {"teardown", "tdsuspend", "tdreap", "endall", "off"}
Reaping  == {"rcreap", "reap", "tdreap", "endall"}
Places   == Boot \cup Teardown \cup {"load", "select", "opendir", "reload", "reap"}

(* signals_setup() is over: SIGTERM, SIGHUP and SIGCHLD are blocked except   *)
(* in pselect.  CONFIG_RC_PATH is optional: a build may start without rc().  *)
Init ==
  /\ proc = [p \in Pids |-> Free] /\ pending = {} /\ queued = "PLAIN"
  /\ SignalsInit /\ DaemonInit /\ ConfigurationInit
  /\ pc \in {"rc", "load"}

-----------------------------------------------------------------------------
(* rc() and configuration_load(), from setup(). *)

(* rc: fork the run commands, or go on without them when fork fails. *)
RcFork ==
  /\ pc = "rc"
  /\ DaemonSpawn(Rc, state, spawns, proc)
  /\ pc' = IF spawns' = {} THEN "load" ELSE "rcsuspend"
  /\ UNCHANGED <<start, pending, queued, configurationVars, signalVars>>

(* rc: sigsuspend lets only SIGCHLD through. *)
RcSuspend ==
  /\ pc = "rcsuspend"
  /\ Deliver({"CHLD"}, {"CHLD"})
  /\ pc' = "rcreap"
  /\ UNCHANGED <<daemonVars, configurationVars>>

(* Wrong: rc() goes on only when cyberd has no child at all.                 *)
WrongRcReaped ==
  /\ pc = "rcreap"
  /\ ~\E p \in Pids : Zombie(p)
  /\ IF \A p \in Pids : ~Unreaped(p)
     THEN pc' = "load" /\ sigchld' = FALSE
     ELSE pc' = "rcsuspend" /\ UNCHANGED sigchld
  /\ UNCHANGED <<kernelVars, daemonVars, configurationVars,
                 sigreboot, sighup, sigalrm, alarm>>

(* rc: nothing more to reap; the loop goes on while rc is in spawns. *)
RcReaped ==
  /\ pc = "rcreap"
  /\ ~\E p \in Pids : Zombie(p)
  /\ IF spawns = {}
     THEN pc' = "load" /\ sigchld' = FALSE
     ELSE pc' = "rcsuspend" /\ UNCHANGED sigchld
  /\ UNCHANGED <<kernelVars, daemonVars, configurationVars,
                 sigreboot, sighup, sigalrm, alarm>>

Load(n, f) == pc = "load" /\ LoadEntry(n, f) /\ UNCHANGED <<signalVars, pc>>

(* The scan is over, or opendir failed. *)
LoadEnd ==
  /\ pc = "load"
  /\ pc' = "select" /\ unread' = {}
  /\ UNCHANGED <<kernelVars, daemonVars, signalVars, daemons, olddaemons>>

-----------------------------------------------------------------------------
(* The main loop. *)

LoopEnd(reboot) == IF reboot = "none" THEN "select" ELSE "teardown"

(* pselect returns with EINTR after handlers ran; the flags say what is next.*)
Interrupted ==
  /\ pc = "select"
  /\ \E S \in SUBSET pending : Deliver(S, {"TERM", "HUP", "CHLD"})
  /\ pc' = IF sighup' THEN "opendir" ELSE IF sigchld' THEN "reap"
                                     ELSE LoopEnd(sigreboot')
  /\ UNCHANGED <<daemonVars, configurationVars>>

(* pselect returns ready descriptors: socket_switch_operate() executes a     *)
(* command on a daemon which configuration_find() found ...                  *)
Command(n) ==
  /\ pc = "select" /\ n \in daemons
  /\ \/ "start" \in Commands /\ DaemonStart(n, state, spawns, proc) /\ UNCHANGED start
     \/ "stop" \in Commands /\ DaemonStop(n)
     \/ "reload" \in Commands /\ DaemonReload(n)
     \/ "end" \in Commands /\ DaemonEnd(n)
  /\ UNCHANGED <<pending, queued, configurationVars, signalVars, pc>>

(* ... or a system command, which cyberd queues to itself (queue_reboot).    *)
QueueReboot(howto) ==
  /\ pc = "select"
  /\ RaiseTerm(howto)
  /\ UNCHANGED <<proc, daemonVars, configurationVars, signalVars, pc>>

(* Wrong: children are reaped only when there was no reload.                 *)
WrongReloaded ==
  /\ sighup' = FALSE
  /\ pc' = LoopEnd(sigreboot)
  /\ UNCHANGED <<sigreboot, sigchld, sigalrm, alarm>>

(* configuration_reload is over: sighup is reset, then comes the reaping.    *)
Reloaded ==
  /\ sighup' = FALSE
  /\ pc' = IF sigchld THEN "reap" ELSE LoopEnd(sigreboot)
  /\ UNCHANGED <<sigreboot, sigchld, sigalrm, alarm>>

Opendir ==
  /\ pc = "opendir"
  /\ \/ ReloadBegin /\ pc' = "reload" /\ UNCHANGED signalVars
     \/ \* opendir failed
        Reloaded /\ UNCHANGED configurationVars
  /\ UNCHANGED <<kernelVars, daemonVars>>

Reload(n, f) == pc = "reload" /\ ReloadEntry(n, f) /\ UNCHANGED <<signalVars, pc>>

ReloadDone == pc = "reload" /\ ReloadEnd /\ Reloaded

(* Wrong: the daemon is found in spawns and left there.                      *)
WrongReap(p) ==
  /\ pc \in Reaping /\ Zombie(p)
  /\ LET ps    == [proc EXCEPT ![p] = Free]
         found == SpawnsFind(p, spawns)
     IN  \/ /\ found = {}
            /\ proc' = ps
            /\ UNCHANGED <<state, pid, spawns>>
         \/ \E d \in found : ReapedDaemon(d, proc[p].status, spawns, ps)
  /\ UNCHANGED <<start, pending, queued, configurationVars, signalVars, pc>>

(* reap_children: waitid collects process p, whose pid is free from then on. *)
Reap(p) ==
  /\ pc \in Reaping /\ Zombie(p)
  /\ LET ps    == [proc EXCEPT ![p] = Free]
         found == SpawnsFind(p, spawns)
     IN  \/ /\ found = {}  \* reaped_orphan
            /\ proc' = ps
            /\ UNCHANGED <<state, pid, spawns>>
         \/ \E d \in found : ReapedDaemon(d, proc[p].status, spawns \ {d}, ps)
  /\ UNCHANGED <<start, pending, queued, configurationVars, signalVars, pc>>

(* reap_children(WNOHANG) has found no more zombie, in the main loop. *)
Reaped ==
  /\ pc = "reap"
  /\ ~\E p \in Pids : Zombie(p)
  /\ sigchld' = FALSE
  /\ pc' = LoopEnd(sigreboot)
  /\ UNCHANGED <<kernelVars, daemonVars, configurationVars,
                 sigreboot, sighup, sigalrm, alarm>>

-----------------------------------------------------------------------------
(* teardown(). *)

TeardownBegin ==
  /\ pc = "teardown"
  /\ SpawnsStop
  /\ SignalsAlarm
  /\ pc' = "tdsuspend"
  /\ UNCHANGED <<pending, queued, configurationVars,
                 sigreboot, sigchld, sighup, sigalrm>>

(* Wrong: the mask of pselect, which lets SIGTERM and SIGHUP through.        *)
WrongTeardownSuspend ==
  /\ pc = "tdsuspend"
  /\ \E S \in SUBSET pending : Deliver(S, {"TERM", "HUP", "CHLD", "ALRM"})
  /\ pc' = "tdreap"
  /\ UNCHANGED <<daemonVars, configurationVars>>

(* sigsuspend, with SIGCHLD and SIGALRM unblocked. *)
TeardownSuspend ==
  /\ pc = "tdsuspend"
  /\ \E S \in SUBSET pending : Deliver(S, {"CHLD", "ALRM"})
  /\ pc' = "tdreap"
  /\ UNCHANGED <<daemonVars, configurationVars>>

(* Wrong: the loop does not look at the alarm.                               *)
WrongTeardownTimeout ==
  /\ pc = "tdreap"
  /\ ~\E p \in Pids : Zombie(p)
  /\ IF \E p \in Pids : Unreaped(p)
     THEN IF spawns # {}
          THEN pc' = "tdsuspend" /\ UNCHANGED proc
          ELSE pc' = "endall" /\ KillAll
     ELSE pc' = "off" /\ UNCHANGED proc
  /\ UNCHANGED <<pending, queued, daemonVars, configurationVars, signalVars>>

(* Wrong: when the daemons have ended, other processes may be left.          *)
WrongTeardownEnd ==
  /\ pc = "tdreap"
  /\ ~\E p \in Pids : Zombie(p)
  /\ IF spawns # {}
     THEN IF ~sigalrm
          THEN pc' = "tdsuspend" /\ UNCHANGED proc
          ELSE pc' = "endall" /\ KillAll
     ELSE pc' = "off" /\ UNCHANGED proc
  /\ UNCHANGED <<pending, queued, daemonVars, configurationVars, signalVars>>

(* reap_children(WNOHANG) has found no more zombie.  Children are left       *)
(* unless waitid failed with ECHILD; the loop ends when there are none, when *)
(* the alarm rang, or when spawns is empty; what is left is then killed.     *)
TeardownReaped ==
  /\ pc = "tdreap"
  /\ ~\E p \in Pids : Zombie(p)
  /\ IF \E p \in Pids : Unreaped(p)
     THEN IF ~sigalrm /\ spawns # {}
          THEN pc' = "tdsuspend" /\ UNCHANGED proc
          ELSE pc' = "endall" /\ KillAll
     ELSE pc' = "off" /\ UNCHANGED proc
  /\ UNCHANGED <<pending, queued, daemonVars, configurationVars, signalVars>>

(* The blocking reap_children(0) returns when there is no child: ECHILD. *)
AllEnded ==
  /\ pc = "endall"
  /\ ~\E p \in Pids : Unreaped(p)
  /\ pc' = "off"
  /\ UNCHANGED <<kernelVars, daemonVars, configurationVars, signalVars>>

-----------------------------------------------------------------------------

(* What cyberd does by itself ... *)
Progress ==
  \/ RcFork \/ RcSuspend \/ RcReaped
  \/ \E n \in Names, f \in Files : Load(n, f) \/ Reload(n, f)
  \/ LoadEnd
  \/ Interrupted
  \/ Opendir \/ ReloadDone
  \/ \E p \in Pids : Reap(p)
  \/ Reaped
  \/ TeardownBegin \/ TeardownSuspend \/ TeardownReaped \/ AllEnded

(* ... and what a connection asks for. *)
Request ==
  \/ \E n \in Names : Command(n)
  \/ \E howto \in Howtos \cap Sigvals : QueueReboot(howto)

(* What happens beside cyberd.  The machine is gone once reboot(2) was       *)
(* called.                                                                   *)
Beside(Step) ==
  /\ pc # "off" /\ Step
  /\ UNCHANGED <<daemonVars, configurationVars, pc>>

Process_Exec(p)        == Beside(Exec(p) /\ UNCHANGED signalVars)
Process_Exit(p, cause) == Beside(Exit(p, cause) /\ UNCHANGED signalVars)
Timeout                == Beside(AlarmRings)
Bother ==
  \/ \E p \in Pids : Beside(Adopt(p) /\ UNCHANGED signalVars)
  \/ \E p \in Pids : Beside(StopOrContinue(p) /\ UNCHANGED signalVars)
  \/ Beside(SendHup /\ UNCHANGED signalVars)
  \/ Beside(SendTerm /\ UNCHANGED signalVars)

Environment ==
  \/ \E p \in Pids : Process_Exec(p)
  \/ \E p \in Pids, cause \in Causes : Process_Exit(p, cause)
  \/ Timeout
  \/ Bother

Next == Progress \/ Request \/ Environment

Spec == Init /\ [][Next]_vars

-----------------------------------------------------------------------------
(* Fairness.  cyberd does not stop by itself; the run commands end; a process*)
(* which got SIGKILL ends; the alarm rings.                                  *)
Fairness ==
  /\ WF_vars(Progress)
  /\ WF_vars(\E p \in Pids, cause \in Causes :
               proc[p].prog = Rc /\ Process_Exit(p, cause))
  /\ \A p \in Pids : WF_vars(\E cause \in Causes :
                                "kill" \in proc[p].sigs /\ Process_Exit(p, cause))
  /\ WF_vars(Timeout)

(* Nothing bothers cyberd for ever: requests, signals and processes which    *)
(* end unasked come to a rest.  reap_children() does not return, and         *)
(* pselect(2) delivers no signal, as long as they do not.                    *)
Unasked(p) ==
  /\ proc[p].sigs = {}
  /\ \E cause \in Causes : Process_Exit(p, cause)

Rest == <>[][~(Request \/ Bother \/ \E p \in Pids : Unasked(p))]_vars

FairSpec == Spec /\ Fairness /\ Rest

-----------------------------------------------------------------------------
(* Properties. *)

TypeOK ==
  /\ proc \in [Pids -> Process]
  /\ pending \subseteq {"TERM", "HUP", "CHLD", "ALRM"}
  /\ queued \in Terms
  /\ sigreboot \in Reboots \cup {"none"}
  /\ sigchld \in BOOLEAN /\ sighup \in BOOLEAN /\ sigalrm \in BOOLEAN
  /\ alarm \in {"off", "armed", "rung"}
  /\ state \in [Slots -> States]
  /\ pid \in [Slots -> Pids \cup {NoPid}]
  /\ start \in [Slots -> SUBSET Flags]
  /\ spawns \subseteq Slots
  /\ daemons \subseteq Names /\ olddaemons \subseteq Names
  /\ unread \subseteq Names
  /\ pc \in Places

(* spawns.c:27, "All daemon should be in a non-DAEMON_STOPPED state", and    *)
(* conversely: a daemon which is not STOPPED can be found by its pid, so its *)
(* end is not taken for an orphan's.                                         *)
SpawnsTracked == \A d \in Slots : d \in spawns <=> state[d] # "STOPPED"

(* The pid under which a daemon is in spawns is that of a process which was  *)
(* forked for it and not yet collected, although pids are recycled.  So a    *)
(* daemon's signals never reach another process, and no two daemons have the *)
(* same key: tree_insert() does not abort.                                   *)
PidsOwned ==
  \A d \in spawns :
    pid[d] \in Pids /\ Unreaped(pid[d]) /\ proc[pid[d]].prog = d

(* A daemon of spawns is a structure which exists: one of the daemons trees  *)
(* has it, or it is the one on the stack of rc().                            *)
NoDangling ==
  spawns \subseteq daemons \cup olddaemons \cup (IF pc \in Boot THEN {Rc} ELSE {})

(* configuration.c:33, "bound to this tree's storage lifetime": a daemon is  *)
(* in one tree only, so a reload neither destroys a daemon it has kept nor   *)
(* inserts one which is there ("should never happen", tree.c:115).           *)
OneOwner ==
  /\ daemons \cap olddaemons = {}
  /\ pc \in {"load", "reload"} => daemons \cap unread = {}

(* The end of a child is not forgotten: as long as there is a zombie, cyberd *)
(* is reaping, is going to, or will be woken up by a SIGCHLD.                *)
NoLostChild ==
  (\E p \in Pids : Zombie(p)) =>
    \/ "CHLD" \in pending
    \/ pc \in Reaping
    \/ sigchld /\ pc \in {"opendir", "reload"}

(* spawns.c:68, "It's important to disallow daemons' restart when stopping": *)
(* in teardown each daemon left was told to stop and will not start again,   *)
(* not even when its exit status is one it had to be started again for.      *)
StoppedForGood ==
  pc \in Teardown \ {"teardown"} =>
    \A d \in spawns : state[d] = "STOPPING" /\ start[d] = {}

(* main.c:235: when reboot(2) is called no process is left, nor a daemon     *)
(* which cyberd believes to be running.                                      *)
CleanOff ==
  pc = "off" => spawns = {} /\ \A p \in Pids : ~Unreaped(p)

(* Once the main loop has ended, no daemon is spawned.                       *)
NoSpawnInTeardown ==
  [][(pc \in Teardown) =>
       \A p \in Pids : proc'[p].status = "forked" => proc[p].status = "forked"]_vars

(* The action which was decided is the one reboot(2) gets: from the handler  *)
(* on, nothing changes it, whatever is asked while the system stops.         *)
DecisionFinal == [][sigreboot # "none" => sigreboot' = sigreboot]_vars

(* A signal which cyberd sends to one process goes to the process of the     *)
(* daemon it is meant for, never to an orphan or to another daemon's which   *)
(* has got a pid again.  kill(-1) in teardown is meant for all.              *)
SignalsOwn ==
  [][pc' # "endall" =>
       \A p \in Pids : (proc'[p].sigs \ proc[p].sigs) # {} =>
         \E d \in spawns : pid[d] = p /\ proc[p].prog = d]_vars

(* A reload does not disturb a daemon whose file is still there: while the   *)
(* daemons are being moved from one tree to the other, one which runs keeps  *)
(* its process, its state and its place in spawns.                           *)
ReloadKeeps ==
  [][(pc \in {"opendir", "reload"}) =>
       \A d \in spawns : d \in daemons' \cup olddaemons' =>
         d \in spawns' /\ pid'[d] = pid[d] /\ state'[d] = state[d]]_vars

(* What cyberd knows of the process of a daemon. *)
Child(d) ==
  CASE d \notin spawns                    -> "none"
    [] d \in spawns /\ Alive(pid[d])      -> "alive"
    [] d \in spawns /\ ~Alive(pid[d])     -> proc[pid[d]].status

Supervised == INSTANCE Supervision WITH
  life   <- state,
  child  <- [d \in Slots |-> Child(d)],
  again  <- [d \in Slots |-> start[d] \cap Causes],
  closed <- pc \in Teardown \ {"teardown"}

(* README.md:23, daemons are started "At configuration load, reload or a     *)
(* depending on a previous exit status": whatever handlers, reloads and      *)
(* recycled pids do in between, each daemon goes through the life which      *)
(* Supervision says.  It is not started as long as cyberd knows a process of *)
(* it, leaves STOPPING when that has ended (or when its file is gone), and   *)
(* is started again after the ends its file names, until the system stops.   *)
Supervises == Supervised!Spec

(* Each process which ended is collected.                                    *)
ZombiesReaped == \A p \in Pids : Zombie(p) ~> ~Zombie(p)

(* The run commands do not keep the system from being booted.                *)
BootCompletes == <>(pc \notin Boot)

(* README.md:28, "Poweroff, Halt, Reboot": a SIGTERM which does not ask for  *)
(* a suspend ends in reboot(2), whatever the daemons do about their own.     *)
ShutdownCompletes ==
  ("TERM" \in pending /\ queued # "SUSPEND") ~> pc = "off"

-----------------------------------------------------------------------------
(* What the documentation says, and the code does not do. *)

(* man/cyberd.8:19, "Only one instance of a daemon can run at any time".     *)
OneInstance ==
  \A p, q \in Pids :
    Alive(p) /\ Alive(q) /\ proc[p].prog = proc[q].prog
      => p = q \/ proc[p].prog = Orphan

(* daemon.h:13, "DAEMON_STOPPING, Sent a signal to shut it, spawned": the    *)
(* program of a daemon which is STOPPING was told to finish.                 *)
StoppingWasTold ==
  \A d \in spawns :
    state[d] = "STOPPING" /\ proc[pid[d]].status = "running"
      => "finish" \in proc[pid[d]].sigs

=============================================================================
