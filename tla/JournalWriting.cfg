SPECIFICATION Spec
CONSTANTS
  n1 = n1  ns1 = ns1  p = p
  NoFile = NoFile  Blank = Blank
  Node = {n1}
  Namespace = {ns1}
  Payload = {p}
  Records <- OneOrTwo
  Proposal <- NoProposal
  Committed <- NotCommitted
  MaxEpoch = 2  MaxSerial = 3  MaxTxid = 3
  Faults = {"crash", "diskFull"}
INVARIANTS
  TypeOK
  NoTxidWithoutSegment
  SegmentBeingWrittenIsOnDisk
  
  
  OpenTailIsWhatWasWritten
PROPERTIES
  PromiseNeverRegresses
  FencedWriterNeverAppends
  LogOnlyLostToDecision
