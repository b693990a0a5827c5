\* Three threads, both levels: atomicity with the accesses of the blocks.
SPECIFICATION FairRunSpec
CONSTANTS
  a = a
  b = b
  c = c
  d = d
  main = main
  cl = cl
  o1 = o1
  o2 = o2
  Objects = {o1, o2}
  Sites = {a, b, c}
  Bodies = {main, cl}
  Patchable = {main, cl}
  BodyOf <- MCBodyOf
  Levels = {1, 2}
  DefaultLock = 99
  DefinedItems <- EveryItem
  Inputs <- MCCrates
  Threads = {t1, t2, t3}
  Numbers = {0, 1, 2}
  Values = 3
  Nobody = Nobody
  EarlyExits = {}
  Nested = {}
  MaxDepth = 1
INVARIANTS
  RunTypeOK
  ConflictingBlocksExclude
  ViewsAreStable
PROPERTY
  ImplementsAtomicTransactions
