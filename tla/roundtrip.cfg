CONSTANTS
  EncryptCalls = {e1}
  DecryptCalls = {d1}
  Files <- FileNames
  Byte <- Bits
  Xor <- XorBits
  MaxThreads = 2
  Requests <- RoundTripRequests
  InitialDisks <- RoundTripDisks
  Faults <- RoundTripFaults
SPECIFICATION RoundTripSpec
INVARIANTS
  RoundTripRestores
  CorruptedOnlyBySpawnError
