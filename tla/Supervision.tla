---------------------------- MODULE Supervision -----------------------------
(***************************************************************************)
(* What cyberd promises about each daemon, as README.md has it: it is      *)
(* started, told to stop, and started again after ends of some kinds; it   *)
(* has one process as long as it is not STOPPED, and is not started while  *)
(* it has one.  Nothing is said of pids, signals and files.                *)
(***************************************************************************)
CONSTANTS Slots, Causes

VARIABLES
  life,   \* "STOPPED", "STARTED" or "STOPPING"
  child,  \* the process of a daemon: "none", "alive", or the cause of its end
  again,  \* the ends after which a daemon is started again
  closed  \* the system is being stopped

vars == <<life, child, again, closed>>

Init ==
  /\ life  = [d \in Slots |-> "STOPPED"]
  /\ child = [d \in Slots |-> "none"]
  /\ again = [d \in Slots |-> {}]
  /\ closed = FALSE

Run(d) ==
  /\ life'  = [life EXCEPT ![d] = "STARTED"]
  /\ child' = [child EXCEPT ![d] = "alive"]

(* A daemon which is STOPPED is started: by a client, or as it is loaded.    *)
Start(d) ==
  /\ ~closed /\ life[d] = "STOPPED"
  /\ Run(d)
  /\ UNCHANGED <<again, closed>>

(* The file of a daemon is read; the daemon may have to be started by it.    *)
Configure(d) ==
  /\ ~closed
  /\ \E C \in SUBSET Causes : again' = [again EXCEPT ![d] = C]
  /\ \/ life[d] = "STOPPED" /\ Run(d)
     \/ UNCHANGED <<life, child>>
  /\ UNCHANGED closed

Stop(d) ==
  /\ ~closed /\ life[d] = "STARTED"
  /\ life' = [life EXCEPT ![d] = "STOPPING"]
  /\ UNCHANGED <<child, again, closed>>

(* The process of a daemon ends, whatever the reason.                        *)
End(d, cause) ==
  /\ child[d] = "alive"
  /\ child' = [child EXCEPT ![d] = cause]
  /\ UNCHANGED <<life, again, closed>>

(* The end of a daemon is noticed, and answered; fork may fail.              *)
Collect(d) ==
  /\ child[d] \in Causes
  /\ \/ /\ life'  = [life EXCEPT ![d] = "STOPPED"]
        /\ child' = [child EXCEPT ![d] = "none"]
     \/ child[d] \in again[d] /\ Run(d)
  /\ UNCHANGED <<again, closed>>

(* The files of some daemons are gone: cyberd knows them no more.            *)
Abandon(D) ==
  /\ ~closed
  /\ life'  = [d \in Slots |-> IF d \in D THEN "STOPPED" ELSE life[d]]
  /\ child' = [d \in Slots |-> IF d \in D THEN "none" ELSE child[d]]
  /\ again' = [d \in Slots |-> IF d \in D THEN {} ELSE again[d]]
  /\ UNCHANGED closed

(* All daemons are told to stop, and none is started any more.               *)
Close ==
  /\ ~closed /\ closed' = TRUE
  /\ life'  = [d \in Slots |-> IF life[d] = "STOPPED" THEN "STOPPED" ELSE "STOPPING"]
  /\ again' = [d \in Slots |-> IF life[d] = "STOPPED" THEN again[d] ELSE {}]
  /\ UNCHANGED child

Next ==
  \/ \E d \in Slots :
       \/ Start(d) \/ Configure(d) \/ Stop(d) \/ Collect(d)
       \/ \E cause \in Causes : End(d, cause)
  \/ \E D \in SUBSET Slots : Abandon(D)
  \/ Close

Spec == Init /\ [][Next]_vars

=============================================================================
