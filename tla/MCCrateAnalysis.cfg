\* Crates the analysis is meant to be exact for, and crates on which it loses
\* borrows, panics or overflows the stack.
SPECIFICATION FairCrateSpec
CONSTANTS
  Programs <- AnyProgram
  Supported <- WellBehaved
INVARIANTS
  UseTypeOK
  AllUsesFound
  OnlyRealUses
  OnlyRealBorrows
  CrashesExplained
  TracedAllocationIsKnown
  LocksAreTheNeededOnes
  WritersAreTheNeededOnes
PROPERTY
  QueryEnds
