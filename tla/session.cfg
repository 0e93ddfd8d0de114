CONSTANTS
  EncryptApps = {e}
  DecryptApps = {d}
  Fields <- FieldNames
  Atoi <- AtoiFields
  Inputs <- SessionInputs
  Garbage <- SessionGarbage
  NULL = NULL
  Byte <- Bits
  Xor <- XorBits
  InitialDisks <- SessionDisks
  MaxCalls = 2
SPECIFICATION SessionSpec
INVARIANT SuccessLeavesOutput
PROPERTY OnlyNamedFileChanges
