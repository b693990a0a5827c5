\* Blocks in a function and a closure; the method's block uses no shared object and
\* keeps the default lock, which has the number of a second conflict set as 99 has
\* that of a hundredth.  Crates, levels and libraries the pass
\* panics on are among them.
SPECIFICATION FairCompileSpec
CONSTANTS
  a = a
  b = b
  c = c
  m = m
  main = main
  cl = cl
  method = method
  o1 = o1
  o2 = o2
  o3 = o3
  Objects = {o1, o2, o3}
  Sites = {a, b, c, m}
  Bodies = {main, cl, method}
  Patchable = {main, cl}
  BodyOf <- MCBodyOf
  Levels = {0, 1, 2, 3}
  DefaultLock = 1
  DefinedItems <- SomeItems
  Inputs <- AnyCrate
INVARIANTS
  CompileTypeOK
  UnlockMatchesLock
  SharersTakeOneLock
  IndependentLocksDiffer
  PanicsExplained
PROPERTY
  CompilationEnds
