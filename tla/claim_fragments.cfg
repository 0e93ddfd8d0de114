CONSTANTS
  EncryptCalls = {e1}
  DecryptCalls = {}
  Files <- FileNames
  Byte <- Bits
  Xor <- XorBits
  MaxThreads = 2
  Requests <- ClaimRequests
  InitialDisks <- ClaimDisks
  Faults <- NoFaults
SPECIFICATION Spec
INVARIANT FragmentsProcessed
