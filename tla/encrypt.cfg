CONSTANTS
  EncryptCalls = {e1}
  DecryptCalls = {}
  Files <- FileNames
  Byte <- Bits
  Xor <- XorBits
  MaxThreads = 3
  Requests <- EncryptRequests
  InitialDisks <- EncryptDisks
  Faults <- AllFaults
SPECIFICATION Spec
INVARIANTS
  TypeOK
  XoredOnce
  ClearOnlyIfInterrupted
  LeakOnlyOnPartialAlloc
PROPERTY OutputStable
