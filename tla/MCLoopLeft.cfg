\* A loop inside a transaction, left by a break in the middle.
SPECIFICATION MapSpec
CONSTANTS
  Bodies <- LeftInTheMiddle
  LeftAtTheEnd = {}
  OuterLock = OuterLock
  OuterUnlock = OuterUnlock
  Seeds <- AnySeeds
  Inherited <- MCInherited
INVARIANT
  CallsMappedToTheirTransaction
