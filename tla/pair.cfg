CONSTANTS
  d1 = d1
  d2 = d2
  EncryptCalls = {}
  DecryptCalls = {d1, d2}
  Files <- FileNames
  Byte <- Bits
  Xor <- XorBits
  MaxThreads = 2
  Requests <- ChainRequests
  InitialDisks <- ChainDisks
  Faults <- ChainFaults
  NoRequest = NoRequest
SPECIFICATION ChainSpec
INVARIANT MutualExclusion
PROPERTIES
  ImplementsService
  EveryCallReturns
  MutexReleased
