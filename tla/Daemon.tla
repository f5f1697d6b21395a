------------------------------- MODULE Daemon -------------------------------
(***************************************************************************)
(* daemon.c and spawns.c: the life of a struct daemon and the spawns tree  *)
(* which finds a daemon by the pid of its process.                         *)
(*                                                                         *)
(* A daemon is named by its slot: its file name, or Rc for the structure   *)
(* which rc() keeps on its stack.  The slot of a daemon which is not       *)
(* allocated is STOPPED, with no start flag.  The spawns tree is the set   *)
(* of the daemons in it; its key is their pid field.                       *)
(*                                                                         *)
(* daemon_start() is called from handlers which have already changed the   *)
(* states, the spawns tree or the process table: st, sp and ps stand for   *)
(* their values at the call.                                               *)
(*                                                                         *)
(* An operator named Wrong... is a bug which the one after it does not     *)
(* have: no module uses it, it is there to be put in its place, so that    *)
(* the properties are seen to fail.                                        *)
(***************************************************************************)
EXTENDS Kernel

VARIABLES
  state,   \* daemon->state
  pid,     \* daemon->pid, not meaningful while the daemon is STOPPED
  start,   \* daemon->conf.start, the set of the flags which are 1
  spawns   \* the spawns tree

daemonVars == <<state, pid, start, spawns>>

States == {"STARTED", "STOPPED", "STOPPING"}
Flags  == {"load", "reload"} \cup Causes

DaemonInit ==
  /\ state  = [d \in Slots |-> "STOPPED"]
  /\ pid    = [d \in Slots |-> NoPid]
  /\ start  = [d \in Slots |-> {}]
  /\ spawns = {}

-----------------------------------------------------------------------------

(* daemon_spawn: fork, then record the daemon under its new pid. *)
DaemonSpawn(d, st, sp, ps) ==
  \/ \E p \in Pids :
       /\ ps[p].status = "free"
       /\ proc'   = [ps EXCEPT ![p] = Forked(d)]
       /\ pid'    = [pid EXCEPT ![d] = p]
       /\ state'  = [st EXCEPT ![d] = "STARTED"]
       /\ spawns' = sp \cup {d}
  \/ \* fork failed
     proc' = ps /\ state' = st /\ spawns' = sp /\ UNCHANGED pid

(* Wrong: a daemon which is STOPPING is spawned again.                       *)
WrongDaemonStart(d, st, sp, ps) ==
  IF st[d] # "STARTED"
  THEN DaemonSpawn(d, st, sp, ps)
  ELSE proc' = ps /\ state' = st /\ spawns' = sp /\ UNCHANGED pid

(* daemon_start: only a STOPPED daemon is spawned. *)
DaemonStart(d, st, sp, ps) ==
  IF st[d] = "STOPPED"
  THEN DaemonSpawn(d, st, sp, ps)
  ELSE proc' = ps /\ state' = st /\ spawns' = sp /\ UNCHANGED pid

(* daemon_stop: only a STARTED daemon gets sigfinish; it is then STOPPING. *)
DaemonStop(d) ==
  /\ IF state[d] = "STARTED"
     THEN /\ proc'  = [proc EXCEPT ![pid[d]] = Signalled(@, "finish")]
          /\ state' = [state EXCEPT ![d] = "STOPPING"]
     ELSE UNCHANGED <<proc, state>>
  /\ UNCHANGED <<pid, start, spawns>>

(* daemon_reload: only a STARTED daemon gets sigreload. *)
DaemonReload(d) ==
  /\ IF state[d] = "STARTED"
     THEN proc' = [proc EXCEPT ![pid[d]] = Signalled(@, "reload")]
     ELSE UNCHANGED proc
  /\ UNCHANGED <<state, pid, start, spawns>>

(* Wrong: daemon_end kills a pid which may not be the daemon's any more.      *)
WrongDaemonEnd(d) ==
  /\ proc' = [p \in Pids |-> IF p = pid[d] THEN Signalled(proc[p], "kill")
                                            ELSE proc[p]]
  /\ UNCHANGED <<state, pid, start, spawns>>

(* daemon_end: SIGKILL unless the daemon is STOPPED; the state stays. *)
DaemonEnd(d) ==
  /\ IF state[d] # "STOPPED"
     THEN proc' = [proc EXCEPT ![pid[d]] = Signalled(@, "kill")]
     ELSE UNCHANGED proc
  /\ UNCHANGED <<state, pid, start, spawns>>

(* spawns_retrieve: the daemons of sp found under pid p, at most one. *)
SpawnsFind(p, sp) == {d \in sp : pid[d] = p}

(* Wrong: the pid of a STOPPED daemon, which is stale, is looked up too.      *)
WrongDaemonDestroy(D) ==
  /\ spawns' = spawns \ UNION {SpawnsFind(pid[d], spawns) : d \in D}
  /\ state'  = [d \in Slots |-> IF d \in D THEN "STOPPED" ELSE state[d]]
  /\ pid'    = [d \in Slots |-> IF d \in D THEN NoPid ELSE pid[d]]
  /\ start'  = [d \in Slots |-> IF d \in D THEN {} ELSE start[d]]

(* Wrong: the structure is freed while spawns refers to it.                  *)
WrongDaemonFree(D) ==
  /\ state'  = [d \in Slots |-> IF d \in D THEN "STOPPED" ELSE state[d]]
  /\ pid'    = [d \in Slots |-> IF d \in D THEN NoPid ELSE pid[d]]
  /\ start'  = [d \in Slots |-> IF d \in D THEN {} ELSE start[d]]
  /\ UNCHANGED spawns

(* daemon_destroy on every daemon of D: a daemon which is not STOPPED leaves *)
(* spawns, then its structure is freed.  Its process is left alone.          *)
DaemonDestroy(D) ==
  /\ spawns' = spawns \ UNION {SpawnsFind(pid[d], spawns) :
                                 d \in {e \in D : state[e] # "STOPPED"}}
  /\ state'  = [d \in Slots |-> IF d \in D THEN "STOPPED" ELSE state[d]]
  /\ pid'    = [d \in Slots |-> IF d \in D THEN NoPid ELSE pid[d]]
  /\ start'  = [d \in Slots |-> IF d \in D THEN {} ELSE start[d]]

(* Wrong: a daemon which is STOPPING already keeps its start flags.          *)
WrongSpawnsStop ==
  LET told == {d \in spawns : state[d] = "STARTED"} IN
  /\ start' = [d \in Slots |-> IF d \in told THEN {} ELSE start[d]]
  /\ state' = [d \in Slots |-> IF d \in told THEN "STOPPING" ELSE state[d]]
  /\ proc'  = [p \in Pids |-> IF \E d \in told : pid[d] = p
                               THEN Signalled(proc[p], "finish") ELSE proc[p]]
  /\ UNCHANGED <<pid, spawns>>

(* Wrong: one of the start flags is forgotten.                               *)
WrongSpawnsStopFlags ==
  LET told == {d \in spawns : state[d] = "STARTED"} IN
  /\ start' = [d \in Slots |-> IF d \in spawns THEN start[d] \cap {"killed"}
                                                 ELSE start[d]]
  /\ state' = [d \in Slots |-> IF d \in told THEN "STOPPING" ELSE state[d]]
  /\ proc'  = [p \in Pids |-> IF \E d \in told : pid[d] = p
                               THEN Signalled(proc[p], "finish") ELSE proc[p]]
  /\ UNCHANGED <<pid, spawns>>

(* spawns_stop: every daemon of the tree loses all its start flags and is    *)
(* stopped.                                                                  *)
SpawnsStop ==
  LET told == {d \in spawns : state[d] = "STARTED"} IN
  /\ start' = [d \in Slots |-> IF d \in spawns THEN {} ELSE start[d]]
  /\ state' = [d \in Slots |-> IF d \in told THEN "STOPPING" ELSE state[d]]
  /\ proc'  = [p \in Pids |-> IF \E d \in told : pid[d] = p
                               THEN Signalled(proc[p], "finish") ELSE proc[p]]
  /\ UNCHANGED <<pid, spawns>>

(* Wrong: a daemon which is to start again is not set to STOPPED first.      *)
WrongReapedDaemon(d, cause, sp, ps) ==
  IF cause \in start[d]
  THEN DaemonStart(d, state, sp, ps)
  ELSE /\ state' = [state EXCEPT ![d] = "STOPPED"]
       /\ proc' = ps /\ spawns' = sp /\ UNCHANGED pid

(* reaped_daemon: the daemon, which spawns_retrieve() took out of spawns, is *)
(* STOPPED, and started again when its start flag for this cause is set.     *)
ReapedDaemon(d, cause, sp, ps) ==
  LET st == [state EXCEPT ![d] = "STOPPED"] IN
  IF cause \in start[d]
  THEN DaemonStart(d, st, sp, ps)
  ELSE proc' = ps /\ state' = st /\ spawns' = sp /\ UNCHANGED pid

=============================================================================
