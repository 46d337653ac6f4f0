SPECIFICATION LSpec
CONSTANTS
  MaxValue = 3
  Absent = Absent  Empty = Empty  None = None
  Faults = {"crash", "diskFull"}
INVARIANTS
  FilesTypeOK
  
PROPERTIES
  ImplementsRegister
