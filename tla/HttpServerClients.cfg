SPECIFICATION Spec
CONSTANTS
  None = None  Malformed = Malformed
  c1 = c1  c2 = c2
  Conn = {c1, c2}
  Clients = 2
  Request <- AllRequests
  Stream <- TwoClientStreams
  FirstFile <- OneBlock
  Fd = {1, 2}
  Inode = {1, 2}
  MaxFile = 1
  AcceptedLength = {1}
  MaxGeneration = 0
  MaxRequestSize = 2
  BlockSize = 1
  IdleTimeout = 0
INVARIANTS
  DescriptorsAreOwned
  NotFoundOnlyIfMoved
  StoppedMeansClosed
CHECK_DEADLOCK FALSE
