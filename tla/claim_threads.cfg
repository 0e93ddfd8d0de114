CONSTANTS
  EncryptApps = {e}
  DecryptApps = {}
  Fields <- FieldNames
  Atoi <- AtoiFields
  Inputs <- InputSet
  Garbage <- GarbageSet
  NULL = NULL
SPECIFICATION AppsSpec
INVARIANT ThreadsPositive
