\* Bodies with branches, loops, early returns and nested transactions, called
\* from inside a transaction or not.
SPECIFICATION FairMapSpec
CONSTANTS
  Bodies <- AnyBodies
  LeftAtTheEnd <- EndedBodies
  OuterLock = OuterLock
  OuterUnlock = OuterUnlock
  Seeds <- AnySeeds
  Inherited <- MCInherited
INVARIANTS
  MapTypeOK
  ReversePostorderIsTopological
  CallsMappedWhenLeftAtTheEnd
  NestedAndUnreleasedAreReported
PROPERTY
  MapEnds
