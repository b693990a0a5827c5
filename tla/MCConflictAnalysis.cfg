\* Three objects; one AllocationSet lists at most two uses, so that longer
\* components only arise through chains of transactions.
SPECIFICATION FairSpec
CONSTANTS
  a = a
  b = b
  c = c
  Objects = {o1, o2, o3}
  Sites = {a, b, c}
  MaxUses = 2
  Inputs <- MCInputs
INVARIANTS
  TypeOK
  OneLockPerTransaction
  SharersShareALock
  SetsAreConnected
  EnteredObjectsAreVertices
  ActivationsAreDistinct
PROPERTY
  Terminates
