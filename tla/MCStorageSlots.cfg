CONSTANTS
  U16 = 2
  U24 = 3
  U32 = 4
  U64 = 6
  AddrSpace = 7
  Words = 16
  ChunkSize = 2
  Byte = {0, 1}
  MaxLen = 4
  ReadCost = 1
  WriteCost = 3
  WriteZeroCost = 2
  MaxGas = 15
  MaxCalls = 2

SPECIFICATION Spec

INVARIANTS
  TypeOK

PROPERTIES
  ImplementsTypedStore
  LeavesNoRest
