------------------------------ MODULE Signals -------------------------------
(***************************************************************************)
(* signals.c: the handlers of cyberd and the flags they leave for the main *)
(* loop.  Every handler runs inside pselect(2) or sigsuspend(2), the only  *)
(* places where the signals are unblocked.                                 *)
(***************************************************************************)
EXTENDS Kernel

VARIABLES
  sigreboot,  \* the reboot(2) action to engage, "none" is the C value 0
  sigchld,    \* children may have to be reaped
  sighup,     \* the configuration has to be reloaded
  sigalrm,    \* the teardown timeout expired
  alarm       \* "off", "armed" by alarm(2), or "rung"

signalVars == <<sigreboot, sigchld, sighup, sigalrm, alarm>>

SignalsInit ==
  /\ sigreboot = "none"
  /\ sigchld = FALSE /\ sighup = FALSE /\ sigalrm = FALSE
  /\ alarm = "off"

(* Wrong: every value which was queued is taken for a reboot command.        *)
WrongSigtermHandler(v) == sigreboot' = IF v = "PLAIN" THEN "POWEROFF" ELSE v

(* sigterm_handler: a suspend, or a value which is no reboot command, is     *)
(* ignored; a SIGTERM that was not queued with a value means power off.      *)
SigtermHandler(v) ==
  sigreboot' = CASE v \in Reboots -> v
                 [] v = "PLAIN"   -> "POWEROFF"
                 [] OTHER         -> sigreboot

(* The handlers of the signals in S run while pselect(2) or sigsuspend(2)    *)
(* waits with only the signals of mask unblocked.  Linux runs one handler a  *)
(* wait, since a handler blocks all signals; POSIX allows several.           *)
Deliver(S, mask) ==
  /\ S # {} /\ S \subseteq pending \cap mask
  /\ pending' = pending \ S
  /\ IF "TERM" \in S THEN SigtermHandler(queued) ELSE UNCHANGED sigreboot
  /\ queued'  = IF "TERM" \in S THEN "PLAIN" ELSE queued
  /\ sigchld' = (sigchld \/ "CHLD" \in S)
  /\ sighup'  = (sighup  \/ "HUP"  \in S)
  /\ sigalrm' = (sigalrm \/ "ALRM" \in S)
  /\ UNCHANGED <<proc, alarm>>

(* signals_alarm() arms the teardown timeout. *)
SignalsAlarm == alarm' = "armed"

(* The timeout expires. *)
AlarmRings ==
  /\ alarm = "armed"
  /\ alarm' = "rung"
  /\ pending' = pending \cup {"ALRM"}
  /\ UNCHANGED <<proc, queued, sigreboot, sigchld, sighup, sigalrm>>

=============================================================================
