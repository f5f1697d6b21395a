\* A daemon with a user, and a group or a priority.
SPECIFICATION Spec
CONSTANTS
  Letters <- AllLetters
  NUL = nul
  NULL = null
  Decimal <- Numbers
  Octal <- Octals
  Signo <- Signals
  NSIG = 65
  Users <- Uids
  Groups <- Gids
  MaxId = 65534
  Lists <- WordLists
  Files <- DaemonFiles
  Name <- TheName
  DevNull <- TheDevNull
  Root <- TheRoot
  Console <- TheConsole
  Socket <- TheSocket
  Source <- TheSource
  MaxUsed = 3
  SIGKILL = 9
INVARIANT CredentialsAreGot
CHECK_DEADLOCK FALSE
