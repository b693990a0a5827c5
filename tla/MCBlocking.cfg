\* Blocks inside blocks, and a block with a path that leaves it early.  Every
\* thread may end up waiting for an abandoned lock or in a circle of locks, so
\* the program may stop.
SPECIFICATION FairRunSpec
CONSTANTS
  a = a
  b = b
  c = c
  d = d
  main = main
  cl = cl
  o1 = o1
  o2 = o2
  Objects = {o1, o2}
  Sites = {a, b, c, d}
  Bodies = {main, cl}
  Patchable = {main, cl}
  BodyOf <- MCBodyOf
  Levels = {1, 2}
  DefaultLock = 99
  DefinedItems <- EveryItem
  Inputs <- NestedCrates
  Threads = {t1, t2}
  Numbers = {0, 1, 2}
  Values = 3
  Nobody = Nobody
  EarlyExits = {b}
  Nested <- MCNested
  MaxDepth = 2
INVARIANTS
  ConflictingBlocksExclude
PROPERTY
  StuckOnlyBehindAbandonedOrCircularLocks
CHECK_DEADLOCK FALSE
