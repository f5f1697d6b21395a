SPECIFICATION Spec
CONSTANTS
  Names = {a}
  Rc = rc
  Orphan = orphan
  Pids = {p1, p2}
  NoPid = nopid
  Commands = {"start", "stop", "reload", "end"}
  Causes = {"exitfailure", "killed"}
  Sigvals = {"PLAIN", "SUSPEND", "HALT"}
  StartSets <- Respawning
SYMMETRY Symmetric
INVARIANTS
  TypeOK
  NoLostChild
  StoppedForGood
  CleanOff
PROPERTIES
  Supervises
  NoSpawnInTeardown
  DecisionFinal
CHECK_DEADLOCK FALSE
