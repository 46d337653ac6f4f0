SPECIFICATION QSpec
CONSTANTS
  n1 = n1  n2 = n2  n3 = n3  ns1 = ns1
  NoFile = NoFile  Blank = Blank
  Node = {n1, n2, n3}
  Namespace = {ns1}
  Payload <- Payloads
  Records <- OneTxn
  Proposal <- NoProposal
  Committed <- AnyCommit
  MaxEpoch = 2  MaxSerial = 3  MaxTxid = 2
  MaxCrashes = 1
  CrashIn = {"replace"}
  Faults = {"crash"}
VIEW View
SYMMETRY NodeSymmetry
INVARIANTS
  AckedSegmentsAreSeen
CHECK_DEADLOCK FALSE
