SPECIFICATION FairSpec
CONSTANTS
  Names = {a}
  Rc = rc
  Orphan = orphan
  Pids = {p1, p2}
  NoPid = nopid
  Commands = {"stop"}
  Causes = {"exitfailure"}
  Sigvals = {"PLAIN", "SUSPEND"}
  StartSets <- LoadOrReload
PROPERTIES
  ZombiesReaped
  BootCompletes
  ShutdownCompletes
CHECK_DEADLOCK FALSE
