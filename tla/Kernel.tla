------------------------------- MODULE Kernel -------------------------------
(***************************************************************************)
(* What cyberd gets from the operating system it runs under: the table of  *)
(* its child processes (fork, kill, exit, waitid) and the set of signals   *)
(* pending for cyberd itself.  Nothing here is code of the repository; it  *)
(* is modelled from the way main.c, daemon.c and signals.c use it.         *)
(*                                                                         *)
(* Process identifiers are recycled: a pid is free again as soon as        *)
(* waitid(2) has collected the process, and the next fork(2) may take it.  *)
(***************************************************************************)
CONSTANTS
  Names,    \* names of daemons, that is of files in the configuration directory
  Rc,       \* the "run commands" pseudo daemon of rc()
  Orphan,   \* label of a process which cyberd inherited and never forked
  Pids,     \* process identifiers
  NoPid,    \* stands for a pid field which was never set
  Causes,   \* how processes end: si_code and si_status of waitid(2)
  Sigvals   \* values which SIGTERM comes with

Slots == Names \cup {Rc}

ASSUME SlotsAssumption == Rc \notin Names /\ Orphan \notin Slots
ASSUME PidsAssumption  == NoPid \notin Pids
ASSUME CausesAssumption ==
  Causes \subseteq {"exitsuccess", "exitfailure", "killed", "dumped"}

(* Reboot commands, what sigqueue(3) may carry, and PLAIN for a SIGTERM sent *)
(* by kill(2), without a value.                                              *)
Reboots == {"AUTOBOOT", "HALT", "POWEROFF"}
Howtos  == Reboots \cup {"SUSPEND"}
Terms   == Howtos \cup {"PLAIN"}

ASSUME SigvalsAssumption == Sigvals \subseteq Terms

VARIABLES
  proc,     \* process table: pid -> [status, prog, sigs]
  pending,  \* signals pending for cyberd
  queued    \* sigval of the pending SIGTERM, meaningful when it is pending

kernelVars == <<proc, pending, queued>>

(* A zombie's status is its cause.  A "forked" child still runs cyberd's own *)
(* code (daemon_child_setup), with cyberd's signal handlers installed.       *)
Statuses == {"free", "forked", "running"} \cup Causes
(* Signals cyberd sends: sigfinish, sigreload and SIGKILL. *)
Sent     == {"finish", "reload", "kill"}
Process  == [status : Statuses, prog : Slots \cup {Orphan}, sigs : SUBSET Sent]

Free      == [status |-> "free", prog |-> Orphan, sigs |-> {}]
Forked(d) == [status |-> "forked", prog |-> d, sigs |-> {}]

Unreaped(p) == proc[p].status # "free"
Alive(p)    == proc[p].status \in {"forked", "running"}
Zombie(p)   == proc[p].status \in Causes

-----------------------------------------------------------------------------

(* The effect of kill(2) on process q.  Between fork and execve the child    *)
(* still has cyberd's handlers for SIGTERM and SIGHUP: such a signal is      *)
(* blocked first, then consumed by the handler when                          *)
(* daemon_child_sigprocmask() unblocks it, and the program never sees it.    *)
Signalled(q, s) ==
  IF q.status = "running" \/ (q.status = "forked" /\ s = "kill")
  THEN [q EXCEPT !.sigs = @ \cup {s}]
  ELSE q

(* kill(-1, SIGKILL) by process 1: every process but the caller. *)
KillAll == proc' = [p \in Pids |-> Signalled(proc[p], "kill")]

(* A standard signal does not queue: a SIGTERM raised while one is pending   *)
(* is dropped together with its value.                                       *)
RaiseTerm(v) ==
  /\ pending' = pending \cup {"TERM"}
  /\ queued'  = IF "TERM" \in pending THEN queued ELSE v

-----------------------------------------------------------------------------
(* Steps of the environment. *)

(* execve() succeeds in a child. *)
Exec(p) ==
  /\ proc[p].status = "forked"
  /\ proc' = [proc EXCEPT ![p].status = "running"]
  /\ UNCHANGED <<pending, queued>>

(* A process ends.  A child which fails in daemon_child_setup() leaves by    *)
(* err(-1, ...), that is with a failure status; a signal may end it too.     *)
Exit(p, cause) ==
  /\ Alive(p)
  /\ proc[p].status = "forked" => cause # "exitsuccess"
  /\ proc' = [proc EXCEPT ![p].status = cause, ![p].sigs = {}]
  /\ pending' = pending \cup {"CHLD"}
  /\ UNCHANGED queued

(* SIGCHLD is also raised for a child which was stopped or continued.        *)
StopOrContinue(p) ==
  /\ proc[p].status = "running"
  /\ pending' = pending \cup {"CHLD"}
  /\ UNCHANGED <<proc, queued>>

(* The parent of a descendant of some process is gone: init inherits it.     *)
(* What is inherited from a process which was killed counts as inherited     *)
(* before, so that kill(-1, SIGKILL) reaches it too.                         *)
Adopt(p) ==
  /\ ~Unreaped(p)
  /\ \E q \in Pids : proc[q].status = "running" /\ "kill" \notin proc[q].sigs
  /\ proc' = [proc EXCEPT ![p] = [Free EXCEPT !.status = "running"]]
  /\ UNCHANGED <<pending, queued>>

(* The administrator signals init: reload, or terminate with some value. *)
SendHup  == pending' = pending \cup {"HUP"} /\ UNCHANGED <<proc, queued>>
SendTerm == (\E v \in Sigvals : RaiseTerm(v)) /\ UNCHANGED proc

=============================================================================
