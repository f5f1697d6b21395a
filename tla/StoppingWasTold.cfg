SPECIFICATION Spec
CONSTANTS
  Names = {a}
  Rc = rc
  Orphan = orphan
  Pids = {p1, p2}
  NoPid = nopid
  Commands = {"start", "stop"}
  Causes = {"exitfailure"}
  Sigvals = {"SUSPEND", "POWEROFF"}
  StartSets <- LoadOrReload
INVARIANT StoppingWasTold
CHECK_DEADLOCK FALSE
