SPECIFICATION CyberctlSpec
CONSTANTS
  Bytes = {0, 47, 129}
  NameMax = 3
  BufferSize = 5
  LittleEndian = FALSE
  Root <- RootName
  NoRequest = norequest
  Asks <- Typed
  CommandLines <- Lines
  Spelled <- Spelling
  Usage = usage
  MaxCount = 3
  MaxEndpoints = 2
INVARIANT OnlyAsked
CHECK_DEADLOCK FALSE
