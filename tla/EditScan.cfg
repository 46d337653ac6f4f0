SPECIFICATION Spec
CONSTANTS
  Record <- ThreeRecords
  MaxTxns = 3
  FirstTxid = 3
  Garbage = {0, 1, 4, 12, 255}
INVARIANTS
  TypeOK
  AckedIsReported
  ReportsLastTxid
  OverreadOnlyIfTorn
PROPERTIES
  ScanEnds
