SPECIFICATION Spec
CONSTANTS
  None = None  Malformed = Malformed
  c1 = c1  c2 = c2
  Conn = {c1}
  Clients = 1
  Request <- AllRequests
  Stream <- OneClientStreams
  FirstFile <- OneBlock
  Fd = {1}
  Inode = {1, 2}
  MaxFile = 2
  AcceptedLength = {4}
  MaxGeneration = 1
  MaxRequestSize = 2
  BlockSize = 1
  IdleTimeout = 0
INVARIANTS
  TypeOK
  BufferedBlocksBounded
  ShortOnlyIfCut
  BodyOfOneContent
PROPERTIES
  EveryFileIsReleased
  SignalStopsServer
CHECK_DEADLOCK FALSE
