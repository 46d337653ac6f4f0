SPECIFICATION QSpec
CONSTANTS
  n1 = n1  n2 = n2  n3 = n3  ns1 = ns1
  NoFile = NoFile  Blank = Blank
  Node = {n1, n2, n3}
  Namespace = {ns1}
  Payload <- Payloads
  Records <- OneTxn
  Proposal <- NoProposal
  Committed <- AnyCommit
  MaxEpoch = 3  MaxSerial = 3  MaxTxid = 2
  MaxCrashes = 0
  CrashIn = {}
  Faults = {}
VIEW View
SYMMETRY NodeSymmetry
INVARIANTS
  DecisionEndsWithLog
CHECK_DEADLOCK FALSE
