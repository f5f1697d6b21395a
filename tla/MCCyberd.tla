------------------------------ MODULE MCCyberd ------------------------------
(* Instances of Cyberd for TLC. *)
EXTENDS Cyberd, TLC

(* A daemon started at boot and again whenever it fails, and one started by  *)
(* a reload and again when it is killed.                                     *)
Respawning == {{}, {"load", "exitfailure"}, {"reload", "killed"}}

(* Two files, for the instances with several daemons.                        *)
LoadOrReload == {{"load", "reload", "exitfailure"}}

(* Names and pids are only compared for equality.                            *)
Symmetric == Permutations(Pids) \cup Permutations(Names)
=============================================================================
