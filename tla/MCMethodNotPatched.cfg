\* A method and a function whose transactions use one object.
SPECIFICATION CompileSpec
CONSTANTS
  a = a
  b = b
  c = c
  m = m
  main = main
  cl = cl
  method = method
  o1 = o1
  o2 = o2
  o3 = o3
  Objects = {o1, o2, o3}
  Sites = {a, b, c, m}
  Bodies = {main, cl, method}
  Patchable = {main, cl}
  BodyOf <- MCBodyOf
  Levels = {2}
  DefaultLock = 99
  DefinedItems <- EveryItem
  Inputs <- MethodShares
INVARIANT
  SharersTakeOneLock
