SPECIFICATION Spec
CONSTANTS
  n1 = n1  ns1 = ns1  ns2 = ns2  p = p
  NoFile = NoFile  Blank = Blank
  Node = {n1}
  Namespace = {ns1, ns2}
  Payload = {p}
  Records <- One
  Proposal <- RecoverSegmentOne
  Committed <- MayCommit
  MaxEpoch = 2  MaxSerial = 2  MaxTxid = 2
  Faults = {"crash", "download"}
SYMMETRY NamespaceSymmetry
VIEW ViewOfJournal
INVARIANTS
  NoDecisionOnSegmentBeingWritten
  EpochsBelowPromise
PROPERTIES
  LogOnlyLostToDecision
  DecisionOnlySuperseded
  CommittedSurvivesAccept
