\* Two files over two pids, each of which is used again and again.
SPECIFICATION Spec
CONSTANTS
  Names = {a, b}
  Rc = rc
  Orphan = orphan
  Pids = {p1, p2}
  NoPid = nopid
  Commands = {"start", "stop", "reload", "end"}
  Causes = {"exitfailure"}
  Sigvals = {"PLAIN"}
  StartSets <- LoadOrReload
SYMMETRY Symmetric
INVARIANTS
  SpawnsTracked
  PidsOwned
  NoDangling
  OneOwner
PROPERTIES
  SignalsOwn
  ReloadKeeps
CHECK_DEADLOCK FALSE
