CONSTANTS
  EncryptApps = {e}
  DecryptApps = {d}
  Fields <- FieldNames
  Atoi <- AtoiFields
  Inputs <- InputSet
  Garbage <- GarbageSet
  NULL = NULL
SPECIFICATION OneSpec
INVARIANTS
  AppsTypeOK
  CallIsOneCommand
  NoCallAfterEnd
  OptionsOnly
  ThreadsChecked
PROPERTY SalirEnds
