--------------------------- MODULE Configuration ----------------------------
(***************************************************************************)
(* configuration.c: the daemons tree, which owns every struct daemon, and  *)
(* the scans of the configuration directory that load and reload it.       *)
(*                                                                         *)
(* The directory belongs to the administrator and may change at any time,  *)
(* so each scan meets contents of its own.  An entry which readdir(3)      *)
(* returns and which opens is read by one LoadEntry or ReloadEntry step;   *)
(* a name whose file is not there, cannot be opened, or is lost to a       *)
(* readdir error is a name the scan ends without having read.              *)
(***************************************************************************)
EXTENDS Daemon

CONSTANT StartSets  \* the [start] sections which files may have

ASSUME StartSetsAssumption == StartSets \subseteq SUBSET Flags

VARIABLES
  daemons,     \* the daemons tree, as the set of the names in it
  olddaemons,  \* the tree configuration_reload() has set aside
  unread       \* names which the current scan has not returned

configurationVars == <<daemons, olddaemons, unread>>

(* What daemon_conf_parse() makes of a file: it fails when there is no path. *)
Files == {[valid |-> TRUE, start |-> s] : s \in StartSets}
           \cup {[valid |-> FALSE, start |-> {}]}

ConfigurationInit == daemons = {} /\ olddaemons = {} /\ unread = Names

-----------------------------------------------------------------------------

(* configuration_load_daemon: a new structure, destroyed again when its file *)
(* does not parse, else inserted and started if its file says so.            *)
LoadDaemon(n, f) ==
  IF f.valid
  THEN /\ daemons' = daemons \cup {n}
       /\ start'   = [start EXCEPT ![n] = f.start]
       /\ IF "load" \in f.start
          THEN DaemonStart(n, state, spawns, proc)
          ELSE UNCHANGED <<state, pid, spawns, proc>>
  ELSE UNCHANGED <<daemons, daemonVars, proc>>

(* configuration_load, one entry of the directory. *)
LoadEntry(n, f) ==
  /\ n \in unread
  /\ unread' = unread \ {n}
  /\ LoadDaemon(n, f)
  /\ UNCHANGED <<olddaemons, pending, queued>>

(* Wrong: the tree set aside is still the daemons tree.                      *)
WrongReloadBegin ==
  /\ olddaemons' = daemons
  /\ unread'     = Names
  /\ UNCHANGED daemons

(* configuration_reload, up to its scan: all daemons are set aside. *)
ReloadBegin ==
  /\ olddaemons' = daemons
  /\ daemons'    = {}
  /\ unread'     = Names

(* Wrong: a daemon which is reloaded is destroyed and loaded anew.           *)
WrongReloadDaemon(n, f) ==
  /\ olddaemons' = olddaemons \ {n}
  /\ daemons'    = IF f.valid THEN daemons \cup {n} ELSE daemons
  /\ start'      = [start EXCEPT ![n] = f.start]
  /\ IF f.valid /\ "load" \in f.start
     THEN DaemonSpawn(n, [state EXCEPT ![n] = "STOPPED"], spawns \ {n}, proc)
     ELSE /\ state'  = [state EXCEPT ![n] = "STOPPED"]
          /\ pid'    = [pid EXCEPT ![n] = NoPid]
          /\ spawns' = spawns \ {n}
          /\ UNCHANGED proc

(* configuration_reload_daemon: a daemon found in the old tree is moved to   *)
(* the new one with its new configuration, or with its old one if the file   *)
(* does not parse; it is started if the new configuration says so.           *)
ReloadDaemon(n, f) ==
  /\ olddaemons' = olddaemons \ {n}
  /\ daemons'    = daemons \cup {n}
  /\ IF f.valid
     THEN /\ start' = [start EXCEPT ![n] = f.start]
          /\ IF "reload" \in f.start
             THEN DaemonStart(n, state, spawns, proc)
             ELSE UNCHANGED <<state, pid, spawns, proc>>
     ELSE UNCHANGED <<daemonVars, proc>>

(* configuration_reload, one entry of the directory. *)
ReloadEntry(n, f) ==
  /\ n \in unread
  /\ unread' = unread \ {n}
  /\ IF n \in olddaemons
     THEN ReloadDaemon(n, f)
     ELSE LoadDaemon(n, f) /\ UNCHANGED olddaemons
  /\ UNCHANGED <<pending, queued>>

(* configuration_reload, after its scan: what is left in the old tree is     *)
(* destroyed.                                                                *)
ReloadEnd ==
  /\ DaemonDestroy(olddaemons)
  /\ olddaemons' = {}
  /\ unread'     = {}
  /\ UNCHANGED <<daemons, kernelVars>>

=============================================================================
