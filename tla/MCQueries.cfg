\* Crates that compile, in every order of the bodies, and crates that do not.
SPECIFICATION FairQuerySpec
CONSTANTS
  Crates <- AnyCrate
INVARIANTS
  QueryTypeOK
  NoStolenRead
  ActiveIsTheStack
  FailuresExplained
  UnsupportedCratesFail
  PatchedAfterAnalysis
PROPERTY
  CompilerEnds
