SPECIFICATION Spec
CONSTANTS
  None = None
  p1 = p1  p2 = p2
  Process = {p1, p2}
  Threads <- TwoAndOne
  Object = {1, 2}
  Fd = {1, 2, 3, 4}
  MaxFormats = 1
  MaxSockets = 1
  Faults = {"crash", "disk"}
INVARIANTS
  TypeOK
  
  RpcUsesLiveJournal
  HttpUsesDeadOnlyIfFailed
  AckedIsInLog
