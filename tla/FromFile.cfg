\* From a file to the program which it configures.
SPECIFICATION Spec
CONSTANTS
  Letters <- AllLetters
  NUL = nul
  NULL = null
  Decimal <- Numbers
  Octal <- Octals
  Signo <- Signals
  NSIG = 65
  Users <- Uids
  Groups <- Gids
  MaxId = 65534
  Lists <- WordLists
  Files <- AllFiles
  Name <- TheName
  DevNull <- TheDevNull
  Root <- TheRoot
  Console <- TheConsole
  Socket <- TheSocket
  Source <- TheSource
  MaxUsed = 3
  SIGKILL = 9
INVARIANTS
  TypeOK
  NeverOvertakes
  LineMeans
  FileMeans
  QuotedIsKept
  RunsAsConfigured
  StreamsAreThere
  InheritsNothingElse
PROPERTIES
  Expands
  IsKernels
CHECK_DEADLOCK FALSE
