----------------------- MODULE TransactionRuntimeProofs -----------------------
(***************************************************************************)
(* Proofs about TransactionRuntime for any crate, any number of threads,   *)
(* any nesting of blocks and any paths that leave blocks early.            *)
(*                                                                         *)
(* LockInv is the invariant of the lock library together with the calls    *)
(* the compiler put into the blocks: who holds a lock is past the lock     *)
(* call of a block that takes this lock in this mode, and a writer holds   *)
(* it alone.  With what MakePatchesProofs shows of these calls, it keeps   *)
(* conflicting blocks apart; ViewInv, what a block has seen is still so,   *)
(* follows, and with it the refinement of AtomicTransactions.              *)
(***************************************************************************)
EXTENDS TransactionRuntime, MakePatchesProofs

\* The library has a lock for every number in the compiled code.
LocksExist == \A s \in Sites : mir[<<s, "lock">>].arg \in Numbers

\* What the theorems below ask of a crate: no method uses a shared object in a
\* transaction, and the library has the locks.
CrateIsServed == SharersArePatchable /\ (CrateCompiled => LocksExist)

\* The activations of blocks, and for each one the block, the lock and the mode.
Live == {x \in Activations : x[2] <= Len(running[x[1]])}
BlockOf(x) == running[x[1]][x[2]]
Num(x) == mir[<<BlockOf(x), "lock">>].arg
Rd(x) == ReaderCall(mir[<<BlockOf(x), "lock">>])

RunShape ==
  /\ running \in [Threads -> Seq(Sites)]
  /\ \A th \in Threads : Len(running[th]) <= MaxDepth

LibShape ==
  /\ held \subseteq Live
  /\ readers \in [Numbers -> SUBSET (Activations \cup {Nobody})]
  /\ writer \in [Numbers -> SUBSET (Activations \cup {Nobody})]
  /\ queue \in [Numbers -> Seq(Activations)]
  /\ blocked \in [Numbers -> SUBSET Activations]

\* One lock: holders and waiters are activations that called it in that mode.
LockOK(n) ==
  /\ \A x \in readers[n] : x = Nobody \/ (x \in held /\ Num(x) = n /\ Rd(x))
  /\ \A x \in writer[n] : x = Nobody \/ (x \in held /\ Num(x) = n /\ ~Rd(x))
  /\ \A x, y \in writer[n] : x = y
  /\ writer[n] # {} => readers[n] = {}
  /\ \A i \in 1..Len(queue[n]) :
       queue[n][i] \in Live \ held /\ Num(queue[n][i]) = n /\ ~Rd(queue[n][i])
  /\ \A i, j \in 1..Len(queue[n]) : i # j => queue[n][i] # queue[n][j]
  /\ \A x \in blocked[n] : x \in Live \ held /\ Num(x) = n /\ Rd(x)

\* An activation past its lock call holds the lock.
HeldOK(x) ==
  /\ Num(x) \in Numbers
  /\ (Rd(x) /\ x \in readers[Num(x)]) \/ (~Rd(x) /\ x \in writer[Num(x)])

LockInv ==
  /\ LibShape
  /\ \A n \in Numbers : LockOK(n)
  /\ \A x \in held : HeldOK(x)

DataShape ==
  /\ mem \in [Objects -> 0..(Values - 1)]
  /\ DOMAIN seen = Activations
  /\ wrote \in [Activations -> SUBSET Objects]

\* Activations outside their block have seen nothing; inside, what was seen is
\* what the objects still hold.
ViewInv ==
  /\ DataShape
  /\ \A x \in Activations \ held : seen[x] = <<>> /\ wrote[x] = {}
  /\ \A x \in held : \A o \in DOMAIN seen[x] :
       o \in Objects /\ MayUse(BlockOf(x), o) /\ seen[x][o] = mem[o]
  /\ \A x \in held : \A o \in wrote[x] : o \in DOMAIN seen[x] /\ MayWrite(BlockOf(x), o)

\* Before the crate is compiled nothing runs.
Idle ==
  /\ running = [th \in Threads |-> <<>>]
  /\ held = {}
  /\ readers = [n \in Numbers |-> {}]
  /\ writer = [n \in Numbers |-> {}]
  /\ queue = [n \in Numbers |-> <<>>]
  /\ blocked = [n \in Numbers |-> {}]
  /\ mem = [o \in Objects |-> 0]
  /\ seen = [x \in Activations |-> <<>>]
  /\ wrote = [x \in Activations |-> {}]

RunInv ==
  /\ RunShape
  /\ ~CrateCompiled => Idle
  /\ CrateIsServed => LockInv /\ ViewInv

-----------------------------------------------------------------------------
(* The compiler inside the running system.                                  *)

\* The running program leaves what the compiler made of it as it is.
LEMMA ProgramIsCompiled == RunSpec => CompileSpec
<1>1. RunInit => CompileInit
  BY DEF RunInit
<1>2. [RunNext]_all_vars => [CompileNext]_compile_vars
  <2> SUFFICES ASSUME [RunNext]_all_vars PROVE [CompileNext]_compile_vars
    OBVIOUS
  <2>1. CASE Compile
    BY <2>1 DEF Compile, CompileNext
  <2>2. ASSUME NEW th \in Threads, LeaveBlock(th) \/ Access(th) \/ \E s \in Sites : Lock(th, s)
        PROVE  UNCHANGED compile_vars
    BY <2>2 DEF LeaveBlock, Access, Lock, Unlock, LeaveEarly, Read, Write
  <2>3. CASE UNCHANGED all_vars
    BY <2>3 DEF all_vars
  <2> QED BY <2>1, <2>2, <2>3 DEF RunNext
<1> QED BY <1>1, <1>2, PTL DEF RunSpec, CompileSpec

\* What was proved of compiled crates holds of the program that runs.
LEMMA ProgramInv == RunSpec => [](AnalysisInv /\ CompileInv /\ LocksAreLocks)
BY ProgramIsCompiled, AnalysisCorrect, CompileCorrect, LocksLock, PTL

\* The compiler leaves the code of a compiled crate alone.
LEMMA CompiledFixed ==
  ASSUME CompileInv, CrateCompiled, CompileStep
  PROVE  mir' = mir /\ compiled' = compiled /\ allocation_sets' = allocation_sets
<1>1. compiling = {} /\ Patchable \ compiled = {} /\ Bodies \ (Patchable \cup compiled) = {}
  BY BodiesAssumption DEF CompileInv, CompileTypeOK, CrateCompiled
<1>2. ConflictAnalysisQuery
  BY <1>1 DEF CompileStep, OptimizedMirUnpatched, MakePatchesFor, NextConflictSet,
              PatchTransaction, ApplyPatch
<1> QED BY <1>2, InputFixed DEF ConflictAnalysisQuery, patching

\* What the theorems ask of a crate depends on these variables only.
LEMMA ServedFixed ==
  ASSUME mir' = mir, compiled' = compiled, allocation_sets' = allocation_sets
  PROVE  /\ CrateCompiled' <=> CrateCompiled
         /\ CrateIsServed' <=> CrateIsServed
BY DEF CrateCompiled, CrateIsServed, SharersArePatchable, SiteUses, Uses, LocksExist

-----------------------------------------------------------------------------
(* The blocks a thread is in.                                               *)

\* A thread enters a block: one activation more, the others stay what they are.
LEMMA EnterBlock ==
  ASSUME RunShape, NEW th \in Threads, NEW s \in Sites, Len(running[th]) < MaxDepth,
         running' = [running EXCEPT ![th] = Append(@, s)], mir' = mir,
         NEW x, x = <<th, Len(running[th]) + 1>>
  PROVE  /\ RunShape'
         /\ x \in Activations \ Live
         /\ Live' = Live \cup {x}
         /\ BlockOf(x)' = s
         /\ \A z \in Live : BlockOf(z)' = BlockOf(z)
<1> DEFINE l == Len(running[th])
<1>1. running[th] \in Seq(Sites) /\ l \in Nat /\ MaxDepth \in Nat
  BY LenProperties, RuntimeAssumption DEF RunShape
<1>2. /\ Append(running[th], s) \in Seq(Sites)
      /\ Len(Append(running[th], s)) = l + 1
      /\ \A i \in 1..l : Append(running[th], s)[i] = running[th][i]
      /\ Append(running[th], s)[l + 1] = s
  BY <1>1, PushFacts
<1>3. running'[th] = Append(running[th], s) /\ \A c \in Threads \ {th} : running'[c] = running[c]
  BY DEF RunShape
<1>4. RunShape'
  <2>1. running' \in [Threads -> Seq(Sites)]
    BY <1>2 DEF RunShape
  <2>2. \A c \in Threads : Len(running'[c]) <= MaxDepth
    BY <1>1, <1>2, <1>3 DEF RunShape
  <2> QED BY <2>1, <2>2 DEF RunShape
<1>5. x \in Activations \ Live /\ x[1] = th /\ x[2] = l + 1
  BY <1>1 DEF Activations, Live
<1>6. Live' = Live \cup {x}
  <2>1. ASSUME NEW c \in Threads, NEW i \in 1..MaxDepth
        PROVE  <<c, i>> \in Live' <=> <<c, i>> \in Live \/ <<c, i>> = x
    <3>1. CASE c = th
      BY <1>1, <1>2, <1>3, <1>5, <3>1 DEF Live, Activations
    <3>2. CASE c # th
      BY <1>3, <1>5, <3>2 DEF Live, Activations
    <3> QED BY <3>1, <3>2
  <2> QED BY <1>5, <2>1 DEF Live, Activations
<1>7. BlockOf(x)' = s
  BY <1>2, <1>3, <1>5 DEF BlockOf
<1>8. ASSUME NEW z \in Live PROVE BlockOf(z)' = BlockOf(z)
  <2>1. z[1] \in Threads /\ z[2] \in 1..Len(running[z[1]])
    BY <1>1 DEF Live, Activations, RunShape
  <2> QED BY <1>2, <1>3, <2>1 DEF BlockOf
<1> QED BY <1>4, <1>5, <1>6, <1>7, <1>8

\* A thread leaves its innermost block.
LEMMA LeaveTop ==
  ASSUME RunShape, NEW th \in Threads, running[th] # <<>>,
         running' = [running EXCEPT ![th] = Front(@)], mir' = mir,
         NEW x, x = Here(th)
  PROVE  /\ RunShape'
         /\ x \in Live
         /\ Live' = Live \ {x}
         /\ BlockOf(x) = Last(running[th])
         /\ \A z \in Live \ {x} : BlockOf(z)' = BlockOf(z)
<1> DEFINE l == Len(running[th])
<1>1. /\ running[th] \in Seq(Sites) /\ l \in Nat \ {0} /\ MaxDepth \in Nat /\ l <= MaxDepth
      /\ Last(running[th]) = running[th][l]
      /\ Front(running[th]) \in Seq(Sites)
      /\ Len(Front(running[th])) = l - 1
      /\ \A i \in 1..(l - 1) : Front(running[th])[i] = running[th][i]
  BY FrontFacts, RuntimeAssumption DEF RunShape
<1>2. running'[th] = Front(running[th]) /\ \A c \in Threads \ {th} : running'[c] = running[c]
  BY DEF RunShape
<1>3. RunShape'
  <2>1. running' \in [Threads -> Seq(Sites)]
    BY <1>1 DEF RunShape
  <2>2. \A c \in Threads : Len(running'[c]) <= MaxDepth
    BY <1>1, <1>2 DEF RunShape
  <2> QED BY <2>1, <2>2 DEF RunShape
<1>4. x \in Live /\ x[1] = th /\ x[2] = l
  BY <1>1 DEF Activations, Live, Here
<1>5. Live' = Live \ {x}
  <2>1. ASSUME NEW c \in Threads, NEW i \in 1..MaxDepth
        PROVE  <<c, i>> \in Live' <=> <<c, i>> \in Live /\ <<c, i>> # x
    <3>1. CASE c = th
      BY <1>1, <1>2, <1>4, <3>1 DEF Live, Activations, Here
    <3>2. CASE c # th
      BY <1>2, <1>4, <3>2 DEF Live, Activations
    <3> QED BY <3>1, <3>2
  <2> QED BY <1>4, <2>1 DEF Live, Activations
<1>6. BlockOf(x) = Last(running[th])
  BY <1>1, <1>4 DEF BlockOf
<1>7. ASSUME NEW z \in Live \ {x} PROVE BlockOf(z)' = BlockOf(z)
  <2>1. z[1] \in Threads /\ z[2] \in 1..Len(running[z[1]]) /\ z = <<z[1], z[2]>>
    BY DEF Live, Activations, RunShape
  <2>2. CASE z[1] = th
    <3>1. z[2] # l
      BY <2>1, <2>2 DEF Here
    <3>2. z[2] \in 1..(l - 1)
      BY <1>1, <2>1, <2>2, <3>1
    <3> QED BY <1>1, <1>2, <2>2, <3>2 DEF BlockOf
  <2>3. CASE z[1] # th
    BY <1>2, <2>1, <2>3 DEF BlockOf
  <2> QED BY <2>2, <2>3
<1> QED BY <1>3, <1>4, <1>5, <1>6, <1>7

-----------------------------------------------------------------------------
(* The locks.                                                               *)

\* A lock call or an unlock call leaves the other locks alone.
LEMMA OtherLock ==
  ASSUME NEW m, LockOK(m), held \subseteq Live,
         readers'[m] = readers[m], writer'[m] = writer[m],
         queue'[m] = queue[m], blocked'[m] = blocked[m],
         \A z \in Live : Num(z) = m =>
           /\ z \in Live' /\ Num(z)' = Num(z) /\ (Rd(z)' <=> Rd(z))
           /\ z \in held' <=> z \in held
  PROVE  LockOK(m)'
<1>1. /\ \A z \in readers[m] : z = Nobody \/ (z \in held' /\ Num(z)' = m /\ Rd(z)')
      /\ \A z \in writer[m] : z = Nobody \/ (z \in held' /\ Num(z)' = m /\ ~Rd(z)')
      /\ \A z \in blocked[m] : z \in Live' \ held' /\ Num(z)' = m /\ Rd(z)'
  BY DEF LockOK
<1>2. \A i \in 1..Len(queue[m]) :
        queue[m][i] \in Live' \ held' /\ Num(queue[m][i]) = m /\ ~Rd(queue[m][i])
  BY DEF LockOK
<1>3. ASSUME NEW i \in 1..Len(queue[m]), NEW z, z = queue[m][i]
      PROVE  z \in Live' \ held' /\ Num(z)' = m /\ ~Rd(z)'
  <2>1. z \in Live
    BY <1>3 DEF LockOK
  <2> QED BY <1>2, <1>3, <2>1
<1> QED BY <1>1, <1>3 DEF LockOK

\* A lock call: the caller gets the lock or waits for it.
LEMMA AcquireKeeps ==
  ASSUME LockInv, NEW n \in Numbers, NEW x \in Activations \ Live, Live' = Live \cup {x},
         \A z \in Live : Num(z)' = Num(z) /\ (Rd(z)' <=> Rd(z)),
         Num(x)' = n, Acquire(x, n, Rd(x)')
  PROVE  LockInv'
<1>1. x # Nobody /\ x \notin held /\ held \subseteq held' /\ held' \subseteq held \cup {x}
  BY RuntimeAssumption DEF LockInv, LibShape, Activations, Acquire
<1>2. /\ \A z \in Live : z \in Live' /\ Num(z)' = Num(z) /\ (Rd(z)' <=> Rd(z))
      /\ \A z \in Live : z \in held' <=> z \in held
      /\ held \subseteq Live
  BY <1>1 DEF LockInv, LibShape
<1>3. ASSUME NEW m \in Numbers, m # n PROVE LockOK(m)'
  <2>1. readers'[m] = readers[m] /\ writer'[m] = writer[m] /\ queue'[m] = queue[m]
        /\ blocked'[m] = blocked[m]
    BY <1>3 DEF Acquire, LockInv, LibShape
  <2>2. LockOK(m)
    BY DEF LockInv
  <2> QED BY <1>2, <2>1, <2>2, OtherLock
<1>4. LockOK(n) /\ LibShape /\ \A z \in held : HeldOK(z) /\ z # x /\ z \in Live
  BY <1>1 DEF LockInv, LibShape
<1> USE <1>1, <1>2, <1>4
<1>5. CASE Rd(x)' /\ ~Present(n)
  <2>1. /\ readers' = [readers EXCEPT ![n] = @ \cup {x}] /\ held' = held \cup {x}
        /\ writer' = writer /\ queue' = queue /\ blocked' = blocked
    BY <1>5 DEF Acquire
  <2>2. LibShape'
    BY <2>1 DEF LibShape
  <2>3. LockOK(n)'
    <3>1. writer[n] = {} /\ Len(queue[n]) = 0 /\ readers'[n] = readers[n] \cup {x}
      BY <1>5, <2>1, EmptySeq DEF Present, LibShape
    <3> QED BY <1>5, <2>1, <3>1 DEF LockOK
  <2>4. \A z \in held' : HeldOK(z)'
    BY <1>5, <2>1 DEF HeldOK, LibShape
  <2> QED BY <1>3, <2>2, <2>3, <2>4 DEF LockInv
<1>6. CASE Rd(x)' /\ Present(n)
  <2>1. /\ blocked' = [blocked EXCEPT ![n] = @ \cup {x}] /\ held' = held
        /\ writer' = writer /\ queue' = queue /\ readers' = readers
    BY <1>6 DEF Acquire
  <2>2. LibShape'
    BY <2>1 DEF LibShape
  <2>3. LockOK(n)'
    <3>1. blocked'[n] = blocked[n] \cup {x}
      BY <2>1 DEF LibShape
    <3> QED BY <1>6, <2>1, <3>1 DEF LockOK
  <2>4. \A z \in held' : HeldOK(z)'
    BY <2>1 DEF HeldOK, LibShape
  <2> QED BY <1>3, <2>2, <2>3, <2>4 DEF LockInv
<1>7. CASE ~Rd(x)' /\ ~Present(n) /\ readers[n] = {}
  <2>1. /\ writer' = [writer EXCEPT ![n] = {x}] /\ held' = held \cup {x}
        /\ readers' = readers /\ queue' = queue /\ blocked' = blocked
    BY <1>7 DEF Acquire
  <2>2. LibShape'
    BY <2>1 DEF LibShape
  <2>3. LockOK(n)'
    <3>1. writer'[n] = {x} /\ Len(queue[n]) = 0
      BY <1>7, <2>1, EmptySeq DEF Present, LibShape
    <3> QED BY <1>7, <2>1, <3>1 DEF LockOK
  <2>4. \A z \in held' : HeldOK(z)'
    <3>1. writer[n] = {}
      BY <1>7 DEF Present
    <3> QED BY <1>7, <2>1, <3>1 DEF HeldOK, LibShape
  <2> QED BY <1>3, <2>2, <2>3, <2>4 DEF LockInv
<1>8. CASE ~Rd(x)' /\ (Present(n) \/ readers[n] # {})
  <2>1. /\ queue' = [queue EXCEPT ![n] = Append(@, x)] /\ held' = held
        /\ readers' = readers /\ writer' = writer /\ blocked' = blocked
    BY <1>8 DEF Acquire
  <2>2. /\ queue'[n] \in Seq(Activations)
        /\ queue'[n] = Append(queue[n], x)
        /\ Len(queue[n]) \in Nat /\ Len(queue'[n]) = Len(queue[n]) + 1
        /\ \A i \in 1..Len(queue[n]) : queue'[n][i] = queue[n][i]
        /\ queue'[n][Len(queue[n]) + 1] = x
    BY <2>1, PushFacts DEF LibShape
  <2>3. LibShape'
    BY <2>1, <2>2 DEF LibShape
  <2>4. LockOK(n)'
    <3>1. ASSUME NEW i \in 1..Len(queue'[n]), NEW z, z = queue'[n][i]
          PROVE  z \in Live' \ held' /\ Num(z)' = n /\ ~Rd(z)' /\ (z = x <=> i = Len(queue'[n]))
      <4>1. CASE i = Len(queue'[n])
        BY <1>8, <2>1, <2>2, <3>1, <4>1
      <4>2. CASE i # Len(queue'[n])
        <5>1. i \in 1..Len(queue[n])
          BY <2>2, <4>2
        <5>2. z \in Live \ held /\ Num(z) = n /\ ~Rd(z)
          BY <2>2, <3>1, <5>1 DEF LockOK
        <5> QED BY <2>1, <4>2, <5>2
      <4> QED BY <4>1, <4>2
    <3>2. ASSUME NEW i \in 1..Len(queue'[n]), NEW j \in 1..Len(queue'[n]), i # j
          PROVE  queue'[n][i] # queue'[n][j]
      <4>1. CASE i = Len(queue'[n]) \/ j = Len(queue'[n])
        BY <3>1, <3>2, <4>1
      <4>2. CASE i # Len(queue'[n]) /\ j # Len(queue'[n])
        <5>1. i \in 1..Len(queue[n]) /\ j \in 1..Len(queue[n])
          BY <2>2, <4>2
        <5> QED BY <2>2, <3>2, <5>1 DEF LockOK
      <4> QED BY <4>1, <4>2
    <3> QED BY <2>1, <3>1, <3>2 DEF LockOK
  <2>5. \A z \in held' : HeldOK(z)'
    BY <2>1 DEF HeldOK, LibShape
  <2> QED BY <1>3, <2>3, <2>4, <2>5 DEF LockInv
<1> QED BY <1>5, <1>6, <1>7, <1>8

\* Activation x, which holds lock n, leaves its block.
Leaves(x, n) ==
  /\ x \in held /\ n \in Numbers /\ Num(x) = n
  /\ Live' = Live \ {x}
  /\ \A z \in Live \ {x} : Num(z)' = Num(z) /\ (Rd(z)' <=> Rd(z))

\* When x leaves lock n and only waiters of n get a lock, the other locks and
\* those who hold them are not concerned.
LEMMA LeavesOthers ==
  ASSUME LockInv, NEW n, NEW x, Leaves(x, n),
         \A z \in Live : Num(z) # n => (z \in held' <=> z \in held),
         \A m \in Numbers \ {n} :
           /\ readers'[m] = readers[m] /\ writer'[m] = writer[m]
           /\ queue'[m] = queue[m] /\ blocked'[m] = blocked[m]
  PROVE  /\ \A m \in Numbers \ {n} : LockOK(m)'
         /\ \A z \in held' \cap Live : Num(z) # n => HeldOK(z)'
<1>1. held \subseteq Live /\ x \in Live /\ Num(x) = n /\ Live' = Live \ {x}
      /\ \A z \in Live \ {x} : Num(z)' = Num(z) /\ (Rd(z)' <=> Rd(z))
  BY DEF LockInv, LibShape, Leaves
<1>2. ASSUME NEW m \in Numbers \ {n} PROVE LockOK(m)'
  <2>1. LockOK(m)
    BY DEF LockInv
  <2>2. \A z \in Live : Num(z) = m =>
           /\ z \in Live' /\ Num(z)' = Num(z) /\ (Rd(z)' <=> Rd(z))
           /\ z \in held' <=> z \in held
    BY <1>1
  <2> QED BY <1>1, <2>1, <2>2, OtherLock
<1>3. ASSUME NEW z \in held' \cap Live, Num(z) # n PROVE HeldOK(z)'
  <2>1. z \in held /\ z \in Live \ {x} /\ HeldOK(z)
    BY <1>1, <1>3 DEF LockInv
  <2>2. Num(z)' = Num(z) /\ (Rd(z)' <=> Rd(z)) /\ Num(z) \in Numbers \ {n}
    BY <1>1, <1>3, <2>1 DEF HeldOK
  <2> QED BY <2>1, <2>2 DEF HeldOK
<1> QED BY <1>2, <1>3

\* The only holder of a lock leaves: the lock is free, or the first waiting
\* writer has it.
LEMMA NextWriterKeeps ==
  ASSUME LockInv, NEW n, NEW x, Leaves(x, n),
         readers[n] \cup writer[n] = {x},
         readers' \in [Numbers -> SUBSET (Activations \cup {Nobody})], readers'[n] = {},
         \A m \in Numbers \ {n} : readers'[m] = readers[m],
         NextWriter(n, x), blocked' = blocked
  PROVE  LockInv'
<1>1. /\ held \subseteq Live /\ x \in held /\ n \in Numbers /\ Num(x) = n /\ Live' = Live \ {x}
      /\ \A z \in Live \ {x} : Num(z)' = Num(z) /\ (Rd(z)' <=> Rd(z))
      /\ LockOK(n) /\ LibShape /\ \A z \in held : HeldOK(z)
  BY DEF LockInv, LibShape, Leaves
<1>2. \A z \in held : Num(z) = n => z = x
  BY <1>1 DEF HeldOK
<1>3. CASE queue[n] = <<>>
  <2>1. writer' = [writer EXCEPT ![n] = {}] /\ held' = held \ {x} /\ queue' = queue
    BY <1>3 DEF NextWriter
  <2>2. LibShape'
    BY <1>1, <2>1 DEF LibShape
  <2>3. LockOK(n)'
    <3>1. writer'[n] = {} /\ Len(queue[n]) = 0
      BY <1>1, <1>3, <2>1, EmptySeq DEF LibShape
    <3> QED BY <1>1, <2>1, <3>1 DEF LockOK
  <2>4. \A m \in Numbers \ {n} :
           /\ readers'[m] = readers[m] /\ writer'[m] = writer[m]
           /\ queue'[m] = queue[m] /\ blocked'[m] = blocked[m]
    BY <1>1, <2>1 DEF LibShape
  <2>5. \A z \in Live : Num(z) # n => (z \in held' <=> z \in held)
    BY <1>1, <2>1
  <2>6. /\ \A m \in Numbers \ {n} : LockOK(m)'
        /\ \A z \in held' \cap Live : Num(z) # n => HeldOK(z)'
    BY <2>4, <2>5, LeavesOthers
  <2>7. \A z \in held' : z \in Live /\ Num(z) # n
    BY <1>1, <1>2, <2>1
  <2> QED BY <2>2, <2>3, <2>6, <2>7 DEF LockInv
<1>4. CASE queue[n] # <<>>
  <2>0. PICK w : w = Head(queue[n])
    OBVIOUS
  <2>1. /\ writer' = [writer EXCEPT ![n] = {w}] /\ held' = (held \ {x}) \cup {w}
        /\ queue' = [queue EXCEPT ![n] = Tail(@)]
    BY <1>4, <2>0 DEF NextWriter
  <2>2. /\ queue[n] \in Seq(Activations) /\ Len(queue[n]) \in Nat \ {0}
        /\ w = queue[n][1] /\ w \in Activations
        /\ queue'[n] = Tail(queue[n]) /\ queue'[n] \in Seq(Activations)
        /\ Len(queue'[n]) = Len(queue[n]) - 1
        /\ \A i \in 1..Len(queue'[n]) : i + 1 \in 1..Len(queue[n]) /\ queue'[n][i] = queue[n][i + 1]
    BY <1>1, <1>4, <2>0, <2>1, TailFacts DEF LibShape
  <2>3. w \in Live \ held /\ Num(w) = n /\ ~Rd(w) /\ 1 \in 1..Len(queue[n])
    BY <1>1, <2>2 DEF LockOK
  <2>4. w # x /\ w \in Live' /\ Num(w)' = n /\ ~Rd(w)'
    BY <1>1, <2>3
  <2>5. LibShape'
    BY <1>1, <2>1, <2>2, <2>4 DEF LibShape
  <2>6. LockOK(n)'
    <3>1. writer'[n] = {w} /\ blocked'[n] = blocked[n]
      BY <1>1, <2>1 DEF LibShape
    <3>2. ASSUME NEW i \in 1..Len(queue'[n]), NEW z, z = queue'[n][i]
          PROVE  z \in Live' \ held' /\ Num(z)' = n /\ ~Rd(z)'
      <4>1. z = queue[n][i + 1] /\ i + 1 \in 1..Len(queue[n]) /\ i + 1 # 1
        BY <2>2, <3>2
      <4>2. z \in Live \ held /\ Num(z) = n /\ ~Rd(z) /\ z # w
        BY <1>1, <2>2, <2>3, <4>1 DEF LockOK
      <4> QED BY <1>1, <2>1, <4>2
    <3>3. ASSUME NEW i \in 1..Len(queue'[n]), NEW j \in 1..Len(queue'[n]), i # j
          PROVE  queue'[n][i] # queue'[n][j]
      <4>1. /\ i + 1 \in 1..Len(queue[n]) /\ j + 1 \in 1..Len(queue[n]) /\ i + 1 # j + 1
            /\ queue'[n][i] = queue[n][i + 1] /\ queue'[n][j] = queue[n][j + 1]
        BY <2>2, <3>3
      <4> QED BY <1>1, <4>1 DEF LockOK
    <3>4. \A z \in blocked[n] : z \in Live' \ held' /\ Num(z)' = n /\ Rd(z)'
      BY <1>1, <2>1, <2>3 DEF LockOK
    <3> QED BY <2>1, <2>4, <3>1, <3>2, <3>3, <3>4 DEF LockOK
  <2>7. \A m \in Numbers \ {n} :
           /\ readers'[m] = readers[m] /\ writer'[m] = writer[m]
           /\ queue'[m] = queue[m] /\ blocked'[m] = blocked[m]
    BY <1>1, <2>1 DEF LibShape
  <2>8. \A z \in Live : Num(z) # n => (z \in held' <=> z \in held)
    BY <1>1, <2>1, <2>3
  <2>9. /\ \A m \in Numbers \ {n} : LockOK(m)'
        /\ \A z \in held' \cap Live : Num(z) # n => HeldOK(z)'
    BY <2>7, <2>8, LeavesOthers
  <2>10. HeldOK(w)'
    BY <1>1, <2>1, <2>4 DEF HeldOK, LibShape
  <2>11. \A z \in held' : z = w \/ (z \in Live /\ Num(z) # n)
    BY <1>1, <1>2, <2>1
  <2> QED BY <2>5, <2>6, <2>9, <2>10, <2>11 DEF LockInv
<1> QED BY <1>3, <1>4

\* transaction_read_unlock by a reader.
LEMMA ReadUnlockKeeps ==
  ASSUME LockInv, NEW n, NEW x, Leaves(x, n), Rd(x), ReadUnlock(x, n)
  PROVE  LockInv'
<1>1. /\ held \subseteq Live /\ x \in held /\ n \in Numbers /\ Num(x) = n /\ Live' = Live \ {x}
      /\ \A z \in Live \ {x} : Num(z)' = Num(z) /\ (Rd(z)' <=> Rd(z))
      /\ LockOK(n) /\ LibShape /\ \A z \in held : HeldOK(z)
  BY DEF LockInv, LibShape, Leaves
<1>2. x \in readers[n] /\ writer[n] = {}
  BY <1>1 DEF HeldOK, LockOK
<1>3. /\ readers' = [readers EXCEPT ![n] = @ \ {x}] /\ readers'[n] = readers[n] \ {x}
      /\ blocked' = blocked
      /\ readers' \in [Numbers -> SUBSET (Activations \cup {Nobody})]
      /\ \A m \in Numbers \ {n} : readers'[m] = readers[m]
  BY <1>1 DEF ReadUnlock, LibShape
<1>4. CASE readers[n] = {x}
  <2>1. NextWriter(n, x) /\ readers'[n] = {} /\ readers[n] \cup writer[n] = {x}
    BY <1>2, <1>3, <1>4 DEF ReadUnlock
  <2> QED BY <1>3, <2>1, NextWriterKeeps
<1>5. CASE readers[n] # {x}
  <2>1. held' = held \ {x} /\ writer' = writer /\ queue' = queue
    BY <1>5 DEF ReadUnlock
  <2>2. LibShape'
    BY <1>1, <1>3, <2>1 DEF LibShape
  <2>3. LockOK(n)'
    BY <1>1, <1>2, <1>3, <2>1 DEF LockOK
  <2>4. \A z \in Live : Num(z) # n => (z \in held' <=> z \in held)
    BY <1>1, <2>1
  <2>5. /\ \A m \in Numbers \ {n} : LockOK(m)'
        /\ \A z \in held' \cap Live : Num(z) # n => HeldOK(z)'
    BY <1>3, <2>1, <2>4, LeavesOthers
  <2>6. \A z \in held' : z \in Live /\ (Num(z) = n => HeldOK(z)')
    BY <1>1, <1>2, <1>3, <2>1 DEF HeldOK
  <2> QED BY <2>2, <2>3, <2>5, <2>6 DEF LockInv
<1> QED BY <1>4, <1>5

\* transaction_unlock or transaction_write_unlock by the writer.
LEMMA WriteUnlockKeeps ==
  ASSUME LockInv, NEW n, NEW x, Leaves(x, n), ~Rd(x), WriteUnlock(x, n)
  PROVE  LockInv'
<1>1. /\ held \subseteq Live /\ x \in held /\ n \in Numbers /\ Num(x) = n /\ Live' = Live \ {x}
      /\ \A z \in Live \ {x} : Num(z)' = Num(z) /\ (Rd(z)' <=> Rd(z))
      /\ LockOK(n) /\ LibShape /\ \A z \in held : HeldOK(z)
  BY DEF LockInv, LibShape, Leaves
<1>2. writer[n] = {x} /\ readers[n] = {}
  BY <1>1 DEF HeldOK, LockOK
<1>3. CASE blocked[n] # {}
  <2>1. /\ readers' = [readers EXCEPT ![n] = blocked[n]]
        /\ blocked' = [blocked EXCEPT ![n] = {}]
        /\ writer' = [writer EXCEPT ![n] = {}]
        /\ held' = (held \ {x}) \cup blocked[n]
        /\ queue' = queue
    BY <1>3 DEF WriteUnlock
  <2>2. /\ readers'[n] = blocked[n] /\ blocked'[n] = {} /\ writer'[n] = {}
        /\ \A m \in Numbers \ {n} :
             readers'[m] = readers[m] /\ blocked'[m] = blocked[m] /\ writer'[m] = writer[m]
    BY <1>1, <2>1 DEF LibShape
  <2>3. \A z \in blocked[n] : z \in Live \ held /\ Num(z) = n /\ Rd(z) /\ z # x
                              /\ z \in Live' /\ Num(z)' = n /\ Rd(z)'
    BY <1>1 DEF LockOK
  <2>4. LibShape'
    <3>1. held' \subseteq Live' /\ blocked[n] \subseteq Activations
      BY <1>1, <2>1, <2>3 DEF LibShape
    <3> QED BY <1>1, <2>1, <3>1 DEF LibShape
  <2>5. LockOK(n)'
    <3>1. \A i \in 1..Len(queue[n]) : queue[n][i] \in Live \ held /\ Num(queue[n][i]) = n
                                      /\ ~Rd(queue[n][i])
      BY <1>1 DEF LockOK
    <3>2. ASSUME NEW i \in 1..Len(queue[n]), NEW z, z = queue[n][i]
          PROVE  z \in Live' \ held' /\ Num(z)' = n /\ ~Rd(z)'
      BY <1>1, <2>1, <2>3, <3>1, <3>2
    <3>3. \A i, j \in 1..Len(queue[n]) : i # j => queue[n][i] # queue[n][j]
      BY <1>1 DEF LockOK
    <3> QED BY <2>1, <2>2, <2>3, <3>2, <3>3 DEF LockOK
  <2>6. \A z \in Live : Num(z) # n => (z \in held' <=> z \in held)
    BY <1>1, <2>1, <2>3
  <2>7. /\ \A m \in Numbers \ {n} : LockOK(m)'
        /\ \A z \in held' \cap Live : Num(z) # n => HeldOK(z)'
    BY <2>1, <2>2, <2>6, LeavesOthers
  <2>8. \A z \in held' : z \in Live /\ (Num(z) = n => HeldOK(z)')
    BY <1>1, <1>2, <2>1, <2>2, <2>3 DEF HeldOK
  <2> QED BY <2>4, <2>5, <2>7, <2>8 DEF LockInv
<1>4. CASE blocked[n] = {}
  <2>1. NextWriter(n, x) /\ readers' = readers /\ blocked' = blocked
    BY <1>4 DEF WriteUnlock
  <2> QED BY <1>1, <1>2, <2>1, NextWriterKeeps DEF LibShape
<1> QED BY <1>3, <1>4

\* The block is left without a call: the lock passes to Nobody.
LEMMA AbandonKeeps ==
  ASSUME LockInv, NEW n, NEW x, Leaves(x, n),
         readers' = [readers EXCEPT ![n] = IF x \in @ THEN (@ \ {x}) \cup {Nobody} ELSE @],
         writer' = [writer EXCEPT ![n] = IF x \in @ THEN (@ \ {x}) \cup {Nobody} ELSE @],
         held' = held \ {x}, queue' = queue, blocked' = blocked
  PROVE  LockInv'
<1>1. /\ held \subseteq Live /\ x \in held /\ n \in Numbers /\ Num(x) = n /\ Live' = Live \ {x}
      /\ \A z \in Live \ {x} : Num(z)' = Num(z) /\ (Rd(z)' <=> Rd(z))
      /\ LockOK(n) /\ LibShape /\ \A z \in held : HeldOK(z)
  BY DEF LockInv, LibShape, Leaves
<1>2. /\ readers'[n] = IF x \in readers[n] THEN (readers[n] \ {x}) \cup {Nobody} ELSE readers[n]
      /\ writer'[n] = IF x \in writer[n] THEN (writer[n] \ {x}) \cup {Nobody} ELSE writer[n]
      /\ \A m \in Numbers \ {n} : readers'[m] = readers[m] /\ writer'[m] = writer[m]
  BY <1>1 DEF LibShape
<1>3. LibShape'
  BY <1>1 DEF LibShape
<1>4. LockOK(n)'
  <2>1. /\ \A z \in readers'[n] : z = Nobody \/ (z \in held' /\ Num(z)' = n /\ Rd(z)')
        /\ \A z \in writer'[n] : z = Nobody \/ (z \in held' /\ Num(z)' = n /\ ~Rd(z)')
    BY <1>1, <1>2 DEF LockOK
  <2>2. (\A z, y \in writer'[n] : z = y) /\ (writer'[n] # {} => readers'[n] = {})
    BY <1>1, <1>2 DEF LockOK
  <2>3. \A i \in 1..Len(queue[n]) : queue[n][i] \in Live \ held /\ Num(queue[n][i]) = n
                                    /\ ~Rd(queue[n][i])
    BY <1>1 DEF LockOK
  <2>4. ASSUME NEW i \in 1..Len(queue[n]), NEW z, z = queue[n][i]
        PROVE  z \in Live' \ held' /\ Num(z)' = n /\ ~Rd(z)'
    BY <1>1, <2>3, <2>4
  <2>5. \A z \in blocked[n] : z \in Live' \ held' /\ Num(z)' = n /\ Rd(z)'
    BY <1>1 DEF LockOK
  <2>6. \A i, j \in 1..Len(queue[n]) : i # j => queue[n][i] # queue[n][j]
    BY <1>1 DEF LockOK
  <2> QED BY <2>1, <2>2, <2>4, <2>5, <2>6 DEF LockOK
<1>5. \A z \in Live : Num(z) # n => (z \in held' <=> z \in held)
  BY <1>1
<1>6. /\ \A m \in Numbers \ {n} : LockOK(m)'
      /\ \A z \in held' \cap Live : Num(z) # n => HeldOK(z)'
  BY <1>2, <1>5, LeavesOthers
<1>7. \A z \in held' : z \in Live /\ (Num(z) = n => HeldOK(z)')
  BY <1>1, <1>2 DEF HeldOK
<1> QED BY <1>3, <1>4, <1>6, <1>7 DEF LockInv

-----------------------------------------------------------------------------
(* The blocks the locks keep apart.                                         *)

\* An access of a block is one that the use-def analysis reported for it.
LEMMA AccessFacts ==
  ASSUME AnalysisInv, NEW s, NEW o
  PROVE  /\ MayWrite(s, o) => MayUse(s, o)
         /\ MayUse(s, o) => o \in Objects /\ \E t \in Transaction : t.site = s /\ Uses(t, o)
         /\ MayWrite(s, o) =>
              \E t \in Transaction : t.site = s /\ t.is_write = TRUE /\ Uses(t, o)
<1>1. \A j \in DOMAIN allocation_sets : allocation_sets[j] \in AllocationSet
  BY ElementOfSeq, LenProperties DEF AnalysisInv, TypeOK
<1>2. ASSUME NEW u \in Accesses(s), u.shared_object = o
      PROVE  \E t \in Transaction : t.site = s /\ Uses(t, o) /\ (u.is_write = TRUE => t.is_write = TRUE)
  <2>1. PICK j \in DOMAIN allocation_sets : allocation_sets[j].site = s
                                            /\ u \in allocation_sets[j].allocations
    BY <1>2 DEF Accesses
  <2> DEFINE t == TransactionOf(allocation_sets[j])
  <2>2. t \in Transaction
    BY <1>1, TransactionOfType
  <2>3. o \in ObjectsOf(allocation_sets[j])
    BY <1>2, <2>1 DEF ObjectsOf
  <2>4. Uses(t, o)
    BY <2>3 DEF Uses
  <2>5. t.site = s
    BY <2>1 DEF TransactionOf
  <2>6. ASSUME u.is_write = TRUE PROVE t.is_write = TRUE
    <3>1. IsWrite(allocation_sets[j])
      BY <2>1, <2>6 DEF IsWrite
    <3>2. t.is_write = IsWrite(allocation_sets[j])
      BY DEF TransactionOf
    <3>3. IsWrite(allocation_sets[j]) = TRUE
      BY <3>1
    <3> QED BY <3>2, <3>3
  <2> HIDE DEF t
  <2> QED BY <2>2, <2>4, <2>5, <2>6
<1>3. ASSUME NEW u \in Accesses(s), u.shared_object = o PROVE o \in Objects
  BY <1>1, <1>3 DEF Accesses, AllocationSet, TransactionUse
<1>4. MayWrite(s, o) => \E u \in Accesses(s) : u.shared_object = o /\ u.is_write = TRUE
  BY DEF MayWrite
<1>5. MayUse(s, o) <=> \E u \in Accesses(s) : u.shared_object = o
  BY DEF MayUse
<1> QED BY <1>2, <1>3, <1>4, <1>5

\* A lock whose writer is past its lock call has no other holder.
LEMMA WriterAlone ==
  ASSUME LockInv, NEW x \in held, NEW y \in held, Num(x) = Num(y), ~Rd(x)
  PROVE  x = y
<1>1. HeldOK(x) /\ HeldOK(y) /\ Num(x) \in Numbers
  BY DEF LockInv, HeldOK
<1>2. LockOK(Num(x))
  BY <1>1 DEF LockInv
<1> QED BY <1>1, <1>2 DEF HeldOK, LockOK

\* Two activations are never past the lock calls of conflicting blocks.
LEMMA Exclusion ==
  ASSUME AnalysisInv, CompileInv, CrateCompiled, CrateIsServed, RunShape, LockInv,
         NEW x \in held, NEW y \in held, x # y, NEW o
  PROVE  ~(MayWrite(BlockOf(x), o) /\ MayUse(BlockOf(y), o))
<1> SUFFICES ASSUME MayWrite(BlockOf(x), o), MayUse(BlockOf(y), o) PROVE FALSE
  OBVIOUS
<1> DEFINE s == BlockOf(x)
           r == BlockOf(y)
<1>1. s \in Sites /\ r \in Sites
  <2>1. \A z \in held : z[1] \in Threads /\ z[2] \in 1..Len(running[z[1]])
    BY DEF LockInv, LibShape, Live, Activations, RunShape
  <2> QED BY <2>1, ElementOfSeq DEF BlockOf, RunShape
<1>2. PICK t \in Transaction : t.site = s /\ t.is_write = TRUE /\ Uses(t, o)
  BY AccessFacts
<1>3. o \in Objects
  BY AccessFacts
<1>4. PICK u \in Transaction : u.site = r /\ Uses(u, o)
  BY AccessFacts
<1>5. /\ BodyOf[s] \in compiled \cap Patchable
      /\ BodyOf[r] \in compiled \cap Patchable
  <2>1. BodyOf[s] \in Patchable /\ BodyOf[r] \in Patchable
    BY <1>1, <1>2, <1>3, <1>4 DEF CrateIsServed, SharersArePatchable, SiteUses
  <2> QED BY <2>1, BodiesAssumption DEF CrateCompiled
<1>6. pc = "done"
  BY <1>5 DEF CompileInv, PatchLoopInv
<1>7. PICK i \in Sets : t \in conflict_sets[i] /\ u \in conflict_sets[i]
  BY <1>2, <1>3, <1>4, <1>6, ResultFacts
<1>8. mir[<<s, "lock">>] = LockCall(i, t) /\ mir[<<r, "lock">>] = LockCall(i, u)
  BY <1>2, <1>4, <1>5, <1>7 DEF CompileInv, MirInv
<1>9. Num(x) = Num(y)
  BY <1>8 DEF Num, LockCall
<1>10. LevelSupported
  BY <1>1, <1>2, <1>3, <1>5, SiteCalls
<1>11. ~Rd(x)
  <2> DEFINE f == TransactionCall(TRUE, t.is_write)
  <2>1. f # "transaction_read_lock"
    BY <1>2, <1>10 DEF TransactionCall, LevelSupported
  <2>2. LockCall(i, t) = [func |-> f, arg |-> i - 1]
    BY DEF LockCall
  <2> HIDE DEF f
  <2> QED BY <1>8, <2>1, <2>2 DEF Rd, ReaderCall
<1> QED BY <1>9, <1>11, WriterAlone

-----------------------------------------------------------------------------
(* The steps of the program.                                                *)

\* Where nothing has run the invariants hold.
LEMMA IdleInv == Idle => RunShape /\ LockInv /\ ViewInv
<1> SUFFICES ASSUME Idle PROVE RunShape /\ LockInv /\ ViewInv
  OBVIOUS
<1>1. Len(<<>>) = 0 /\ <<>> \in Seq(Sites) /\ <<>> \in Seq(Activations) /\ DOMAIN <<>> = {}
  BY EmptySeq
<1>2. RunShape
  BY <1>1, RuntimeAssumption DEF Idle, RunShape
<1>3. LockInv
  BY <1>1 DEF Idle, LockInv, LibShape, LockOK
<1>4. ViewInv
  BY <1>1, RuntimeAssumption DEF Idle, ViewInv, DataShape
<1> QED BY <1>2, <1>3, <1>4

\* The locks depend on these variables only.
LEMMA LocksFixed ==
  ASSUME LockInv, running' = running, UNCHANGED lib_vars, mir' = mir
  PROVE  LockInv'
<1>1. /\ held' = held /\ readers' = readers /\ writer' = writer
      /\ queue' = queue /\ blocked' = blocked
  BY DEF lib_vars
<1>2. Live' = Live /\ \A z : Num(z)' = Num(z) /\ (Rd(z)' <=> Rd(z))
  BY DEF Live, Num, Rd, BlockOf, ReaderCall
<1>3. ASSUME NEW m \in Numbers PROVE LockOK(m)'
  <2>1. LockOK(m) /\ held \subseteq Live
    BY DEF LockInv, LibShape
  <2> QED BY <1>1, <1>2, <2>1, OtherLock
<1>4. ASSUME NEW z \in held' PROVE HeldOK(z)'
  <2>1. HeldOK(z)
    BY <1>1 DEF LockInv
  <2> QED BY <1>1, <1>2, <2>1 DEF HeldOK
<1>5. LibShape'
  BY <1>1, <1>2 DEF LockInv, LibShape
<1> QED BY <1>3, <1>4, <1>5 DEF LockInv

\* A step that writes no object keeps the views: every activation keeps its
\* block and what it has seen, or has seen nothing.
LEMMA ViewKeeps ==
  ASSUME ViewInv, mem' = mem, allocation_sets' = allocation_sets, DataShape',
         held' \subseteq Activations,
         \A z \in Activations :
           \/ /\ z \in held /\ z \in held' /\ BlockOf(z)' = BlockOf(z)
              /\ seen'[z] = seen[z] /\ wrote'[z] = wrote[z]
           \/ seen'[z] = <<>> /\ wrote'[z] = {}
  PROVE  ViewInv'
<1>1. DOMAIN <<>> = {}
  OBVIOUS
<1>3. ASSUME NEW z \in held', NEW o \in DOMAIN seen'[z]
      PROVE  o \in Objects /\ MayUse(BlockOf(z), o)' /\ seen'[z][o] = mem'[o]
  <2>1. z \in held /\ BlockOf(z)' = BlockOf(z) /\ seen'[z] = seen[z]
    BY <1>1, <1>3
  <2>2. o \in Objects /\ MayUse(BlockOf(z), o) /\ seen[z][o] = mem[o]
    BY <2>1 DEF ViewInv
  <2>3. MayUse(BlockOf(z), o)'
    BY <2>1, <2>2 DEF MayUse, Accesses
  <2> QED BY <2>1, <2>2, <2>3
<1>4. ASSUME NEW z \in held', NEW o \in wrote'[z]
      PROVE  o \in DOMAIN seen'[z] /\ MayWrite(BlockOf(z), o)'
  <2>1. z \in held /\ BlockOf(z)' = BlockOf(z) /\ seen'[z] = seen[z] /\ wrote'[z] = wrote[z]
    BY <1>1, <1>4
  <2>2. o \in DOMAIN seen[z] /\ MayWrite(BlockOf(z), o)
    BY <2>1 DEF ViewInv
  <2>3. MayWrite(BlockOf(z), o)'
    BY <2>1, <2>2 DEF MayWrite, Accesses
  <2> QED BY <2>1, <2>2, <2>3
<1> QED BY <1>3, <1>4 DEF ViewInv

\* The block a thread is in.
LEMMA InBlockFacts ==
  ASSUME RunShape, LockInv, NEW th \in Threads, NEW s, InBlock(th, s), NEW x, x = Here(th)
  PROVE  /\ running[th] # <<>> /\ x \in held /\ x \in Live /\ x \in Activations
         /\ x[1] = th /\ BlockOf(x) = s /\ s \in Sites
<1>1. running[th] \in Seq(Sites) /\ running[th] # <<>> /\ x \in held /\ Last(running[th]) = s
  BY DEF InBlock, RunShape
<1>2. Last(running[th]) = running[th][Len(running[th])] /\ Last(running[th]) \in Sites
  BY <1>1, FrontFacts
<1> QED BY <1>1, <1>2 DEF Here, BlockOf, LockInv, LibShape, Live

\* A lock function returns: the block is entered.
LEMMA LockStep ==
  ASSUME RunShape, LocksExist, LockInv, ViewInv, NEW th \in Threads, NEW s \in Sites, Lock(th, s)
  PROVE  LockInv' /\ ViewInv'
<1>1. PICK x : x = <<th, Len(running[th]) + 1>>
  OBVIOUS
<1> DEFINE n == mir[<<s, "lock">>].arg
<1>2. /\ Len(running[th]) < MaxDepth
      /\ running' = [running EXCEPT ![th] = Append(@, s)]
      /\ Acquire(x, n, ReaderCall(mir[<<s, "lock">>]))
      /\ mir' = mir /\ allocation_sets' = allocation_sets
      /\ mem' = mem /\ seen' = seen /\ wrote' = wrote
  BY <1>1 DEF Lock, compile_vars, patching, vars, data_vars, graph
<1>3. /\ x \in Activations \ Live
      /\ Live' = Live \cup {x}
      /\ BlockOf(x)' = s
      /\ \A z \in Live : BlockOf(z)' = BlockOf(z)
  BY <1>1, <1>2, EnterBlock
<1>4. /\ \A z \in Live : Num(z)' = Num(z) /\ (Rd(z)' <=> Rd(z))
      /\ Num(x)' = n /\ (Rd(x)' <=> ReaderCall(mir[<<s, "lock">>]))
  BY <1>2, <1>3 DEF Num, Rd, ReaderCall
<1>5. n \in Numbers
  BY DEF LocksExist
<1>6. PICK k \in Numbers : k = n
  BY <1>5
<1>7. Acquire(x, k, Rd(x)')
  BY <1>2, <1>4, <1>6 DEF Acquire
<1>8. LockInv'
  BY <1>3, <1>4, <1>6, <1>7, AcquireKeeps
<1>9. held \subseteq held' /\ held' \subseteq Activations /\ held \subseteq Live
  BY <1>3, <1>7 DEF Acquire, LockInv, LibShape, Live
<1>10. ViewInv'
  <2>1. DataShape'
    BY <1>2 DEF ViewInv, DataShape
  <2>2. ASSUME NEW z \in Activations
        PROVE  \/ /\ z \in held /\ z \in held' /\ BlockOf(z)' = BlockOf(z)
                  /\ seen'[z] = seen[z] /\ wrote'[z] = wrote[z]
               \/ seen'[z] = <<>> /\ wrote'[z] = {}
    BY <1>2, <1>3, <1>9 DEF ViewInv
  <2> QED BY <1>2, <1>9, <2>1, <2>2, ViewKeeps
<1> QED BY <1>8, <1>10

\* What the end of a block does, whatever way it ends.
LEMMA EndFacts ==
  ASSUME RunShape, LockInv, ViewInv, NEW th \in Threads, NEW s, InBlock(th, s), EndOfBlock(th),
         mir' = mir, allocation_sets' = allocation_sets, mem' = mem,
         NEW x, x = Here(th)
  PROVE  /\ RunShape' /\ x \in held /\ BlockOf(x) = s /\ s \in Sites
         /\ Leaves(x, Num(x))
         /\ LockInv' /\ x \notin held' /\ held \ {x} \subseteq held' => ViewInv'
<1>1. running[th] # <<>> /\ x \in held /\ x \in Live /\ x \in Activations /\ BlockOf(x) = s /\ s \in Sites
  BY InBlockFacts
<1>2. /\ running' = [running EXCEPT ![th] = Front(@)]
      /\ seen' = [seen EXCEPT ![x] = <<>>] /\ wrote' = [wrote EXCEPT ![x] = {}]
  BY DEF EndOfBlock
<1>3. /\ RunShape' /\ Live' = Live \ {x}
      /\ \A z \in Live \ {x} : BlockOf(z)' = BlockOf(z)
  BY <1>1, <1>2, LeaveTop
<1>4. \A z \in Live \ {x} : Num(z)' = Num(z) /\ (Rd(z)' <=> Rd(z))
  BY <1>3 DEF Num, Rd, ReaderCall
<1>5. Num(x) \in Numbers
  BY <1>1 DEF LockInv, HeldOK
<1>6. Leaves(x, Num(x))
  BY <1>1, <1>3, <1>4, <1>5 DEF Leaves
<1>7. ASSUME LockInv', x \notin held', held \ {x} \subseteq held' PROVE ViewInv'
  <2>1. DataShape'
    BY <1>2 DEF ViewInv, DataShape
  <2>2. held' \subseteq Activations /\ held' \subseteq Live' /\ held \subseteq Live
    BY <1>7 DEF LockInv, LibShape, Live
  <2>3. ASSUME NEW z \in Activations
        PROVE  \/ /\ z \in held /\ z \in held' /\ BlockOf(z)' = BlockOf(z)
                  /\ seen'[z] = seen[z] /\ wrote'[z] = wrote[z]
               \/ seen'[z] = <<>> /\ wrote'[z] = {}
    <3>1. CASE z = x
      BY <1>1, <1>2, <3>1 DEF ViewInv, DataShape
    <3>2. CASE z # x /\ z \in held
      BY <1>2, <1>3, <1>7, <2>2, <3>2 DEF ViewInv, DataShape
    <3>3. CASE z # x /\ z \notin held
      BY <1>2, <3>3 DEF ViewInv, DataShape
    <3> QED BY <3>1, <3>2, <3>3
  <2> QED BY <2>1, <2>2, <2>3, ViewKeeps
<1> QED BY <1>1, <1>3, <1>6, <1>7

\* An unlock function is called at the end of a block.
LEMMA UnlockStep ==
  ASSUME CompileInv, LocksAreLocks, RunShape, LockInv, ViewInv,
         NEW th \in Threads, NEW s \in Sites, Unlock(th, s)
  PROVE  RunShape' /\ LockInv' /\ ViewInv'
<1>1. PICK x : x = Here(th)
  OBVIOUS
<1> DEFINE lock == mir[<<s, "lock">>]
           unlock == mir[<<s, "unlock">>]
<1>2. /\ InBlock(th, s) /\ EndOfBlock(th)
      /\ \/ unlock.func = "transaction_read_unlock" /\ ReadUnlock(x, unlock.arg)
         \/ unlock.func # "transaction_read_unlock" /\ WriteUnlock(x, unlock.arg)
      /\ mir' = mir /\ allocation_sets' = allocation_sets /\ mem' = mem
  BY <1>1 DEF Unlock, compile_vars, patching, vars, graph
<1>3. /\ RunShape' /\ x \in held /\ BlockOf(x) = s
      /\ Leaves(x, Num(x))
      /\ LockInv' /\ x \notin held' /\ held \ {x} \subseteq held' => ViewInv'
  BY <1>1, <1>2, EndFacts
<1>4. unlock.arg = Num(x) /\ (unlock.func = "transaction_read_unlock" <=> Rd(x))
  <2>1. lock.arg = unlock.arg /\ unlock.func = UnlockOf[lock.func]
    BY DEF CompileInv, UnlockMatchesLock
  <2>2. lock.func \in DOMAIN UnlockOf
    BY DEF LocksAreLocks
  <2>3. UnlockOf[lock.func] = "transaction_read_unlock" <=> lock.func = "transaction_read_lock"
    BY <2>2 DEF UnlockOf
  <2> QED BY <1>3, <2>1, <2>3 DEF Num, Rd, ReaderCall
<1>5. PICK n : n = Num(x)
  OBVIOUS
<1>6. Leaves(x, n) /\ ((Rd(x) /\ ReadUnlock(x, n)) \/ (~Rd(x) /\ WriteUnlock(x, n)))
  <2>1. unlock.arg = n
    BY <1>4, <1>5
  <2> QED BY <1>2, <1>3, <1>4, <1>5, <2>1
<1>7. LockInv'
  BY <1>6, ReadUnlockKeeps, WriteUnlockKeeps
<1>8. LockOK(n) /\ n \in Numbers
  BY <1>6 DEF LockInv, Leaves
<1>9. x \notin held' /\ held \ {x} \subseteq held'
  <2>1. CASE Rd(x) /\ ReadUnlock(x, n)
    <3>1. queue[n] # <<>> => Head(queue[n]) \notin held
      <4>1. ASSUME queue[n] # <<>> PROVE Head(queue[n]) = queue[n][1] /\ 1 \in 1..Len(queue[n])
        BY <1>8, <4>1, TailFacts DEF LockInv, LibShape
      <4> QED BY <1>8, <4>1 DEF LockOK
    <3> QED BY <1>3, <2>1, <3>1 DEF ReadUnlock, NextWriter
  <2>2. CASE ~Rd(x) /\ WriteUnlock(x, n)
    <3>1. queue[n] # <<>> => Head(queue[n]) \notin held
      <4>1. ASSUME queue[n] # <<>> PROVE Head(queue[n]) = queue[n][1] /\ 1 \in 1..Len(queue[n])
        BY <1>8, <4>1, TailFacts DEF LockInv, LibShape
      <4> QED BY <1>8, <4>1 DEF LockOK
    <3>2. x \notin blocked[n]
      BY <1>3, <1>8 DEF LockOK
    <3> QED BY <1>3, <2>2, <3>1, <3>2 DEF WriteUnlock, NextWriter
  <2> QED BY <1>6, <2>1, <2>2
<1> QED BY <1>3, <1>7, <1>9

\* A block is left by return, break or a panic.
LEMMA LeaveEarlyStep ==
  ASSUME RunShape, LockInv, ViewInv, NEW th \in Threads, NEW s \in Sites, LeaveEarly(th, s)
  PROVE  RunShape' /\ LockInv' /\ ViewInv'
<1>1. PICK x : x = Here(th)
  OBVIOUS
<1>2. /\ InBlock(th, s) /\ EndOfBlock(th) /\ held' = held \ {x}
      /\ mir' = mir /\ allocation_sets' = allocation_sets /\ mem' = mem
      /\ queue' = queue /\ blocked' = blocked
  BY <1>1 DEF LeaveEarly, compile_vars, patching, vars, graph
<1>3. /\ RunShape' /\ x \in held /\ BlockOf(x) = s
      /\ Leaves(x, Num(x))
      /\ LockInv' /\ x \notin held' /\ held \ {x} \subseteq held' => ViewInv'
  BY <1>1, <1>2, EndFacts
<1>4. PICK n : n = Num(x)
  OBVIOUS
<1>5. n = mir[<<s, "lock">>].arg
  BY <1>3, <1>4 DEF Num
<1>6. /\ readers' = [readers EXCEPT ![n] = IF x \in @ THEN (@ \ {x}) \cup {Nobody} ELSE @]
      /\ writer' = [writer EXCEPT ![n] = IF x \in @ THEN (@ \ {x}) \cup {Nobody} ELSE @]
  BY <1>1, <1>5, Zenon DEF LeaveEarly
<1>7. LockInv'
  BY <1>2, <1>3, <1>4, <1>6, AbandonKeeps
<1> QED BY <1>2, <1>3, <1>7

\* A block reads an object it uses.
LEMMA ReadStep ==
  ASSUME RunShape, LockInv, ViewInv, NEW th \in Threads, NEW s \in Sites, NEW o \in Objects,
         Read(th, s, o)
  PROVE  ViewInv'
<1>1. PICK x : x = Here(th)
  OBVIOUS
<1>2. /\ InBlock(th, s) /\ MayUse(s, o)
      /\ Saw(x, o, mem[o])
      /\ allocation_sets' = allocation_sets /\ running' = running /\ held' = held
      /\ mem' = mem /\ wrote' = wrote
  BY <1>1 DEF Read, compile_vars, patching, vars, graph, lib_vars
<1>3. x \in held /\ x \in Activations /\ BlockOf(x) = s /\ held \subseteq Activations
  BY <1>1, <1>2, InBlockFacts DEF LockInv, LibShape, Live
<1>4. /\ seen'[x] = [y \in DOMAIN seen[x] \cup {o} |-> IF y = o THEN mem[o] ELSE seen[x][y]]
      /\ \A z \in Activations \ {x} : seen'[z] = seen[z]
      /\ DOMAIN seen' = Activations
  BY <1>2, <1>3 DEF Saw, ViewInv, DataShape
<1>5. \A z \in Activations : BlockOf(z)' = BlockOf(z)
  BY <1>2 DEF BlockOf
<1>6. ASSUME NEW z \in held', NEW p \in DOMAIN seen'[z]
      PROVE  p \in Objects /\ MayUse(BlockOf(z), p)' /\ seen'[z][p] = mem'[p]
  <2>1. p \in Objects /\ MayUse(BlockOf(z), p) /\ seen'[z][p] = mem[p]
    <3>1. CASE z = x
      BY <1>2, <1>3, <1>4, <1>6, <3>1 DEF ViewInv
    <3>2. CASE z # x
      BY <1>2, <1>3, <1>4, <1>6, <3>2 DEF ViewInv
    <3> QED BY <3>1, <3>2
  <2>2. MayUse(BlockOf(z), p)'
    BY <1>2, <1>3, <1>5, <1>6, <2>1 DEF MayUse, Accesses
  <2> QED BY <1>2, <2>1, <2>2
<1>7. ASSUME NEW z \in held', NEW p \in wrote'[z]
      PROVE  p \in DOMAIN seen'[z] /\ MayWrite(BlockOf(z), p)'
  <2>1. p \in DOMAIN seen[z] /\ MayWrite(BlockOf(z), p)
    BY <1>2, <1>7 DEF ViewInv
  <2>2. MayWrite(BlockOf(z), p)'
    BY <1>2, <1>3, <1>5, <1>7, <2>1 DEF MayWrite, Accesses
  <2>3. DOMAIN seen[z] \subseteq DOMAIN seen'[z]
    BY <1>2, <1>3, <1>4, <1>7
  <2> QED BY <2>1, <2>2, <2>3
<1>8. DataShape' /\ \A z \in Activations \ held' : seen'[z] = <<>> /\ wrote'[z] = {}
  BY <1>2, <1>3, <1>4 DEF ViewInv, DataShape
<1> QED BY <1>6, <1>7, <1>8 DEF ViewInv

\* A block writes an object it writes.
LEMMA WriteStep ==
  ASSUME AnalysisInv, CompileInv, CrateCompiled, CrateIsServed, RunShape, LockInv, ViewInv,
         NEW th \in Threads, NEW s \in Sites, NEW o \in Objects, Write(th, s, o)
  PROVE  ViewInv'
<1>1. PICK x : x = Here(th)
  OBVIOUS
<1>2. PICK v : v = (seen[x][o] + 1) % Values
  OBVIOUS
<1>3. /\ InBlock(th, s) /\ MayWrite(s, o) /\ o \in DOMAIN seen[x]
      /\ mem' = [mem EXCEPT ![o] = v] /\ Saw(x, o, v)
      /\ wrote' = [wrote EXCEPT ![x] = @ \cup {o}]
      /\ allocation_sets' = allocation_sets /\ running' = running /\ held' = held
  BY <1>1, <1>2 DEF Write, compile_vars, patching, vars, graph, lib_vars
<1>4. x \in held /\ x \in Activations /\ BlockOf(x) = s /\ held \subseteq Activations
  BY <1>1, <1>3, InBlockFacts DEF LockInv, LibShape, Live
<1>5. /\ DOMAIN seen'[x] = DOMAIN seen[x] /\ seen'[x][o] = v
      /\ \A p \in DOMAIN seen[x] \ {o} : seen'[x][p] = seen[x][p]
      /\ \A z \in Activations \ {x} : seen'[z] = seen[z] /\ wrote'[z] = wrote[z]
      /\ DOMAIN seen' = Activations
      /\ wrote'[x] = wrote[x] \cup {o}
      /\ mem'[o] = v /\ \A p \in Objects \ {o} : mem'[p] = mem[p]
  BY <1>3, <1>4 DEF Saw, ViewInv, DataShape
<1>6. v \in 0..(Values - 1)
  <2>1. seen[x][o] \in Nat
    BY <1>3, <1>4, RuntimeAssumption DEF ViewInv, DataShape
  <2> QED BY <1>2, <2>1, RuntimeAssumption
<1>7. \A z \in held : z # x => o \notin DOMAIN seen[z]
  <2> SUFFICES ASSUME NEW z \in held, z # x, o \in DOMAIN seen[z] PROVE FALSE
    OBVIOUS
  <2>1. MayUse(BlockOf(z), o)
    BY DEF ViewInv
  <2>2. MayWrite(BlockOf(x), o)
    BY <1>3, <1>4
  <2> QED BY <1>4, <2>1, <2>2, Exclusion
<1>8. \A z \in Activations : BlockOf(z)' = BlockOf(z)
  BY <1>3 DEF BlockOf
<1>9. ASSUME NEW z \in held', NEW p \in DOMAIN seen'[z]
      PROVE  p \in Objects /\ MayUse(BlockOf(z), p)' /\ seen'[z][p] = mem'[p]
  <2>1. p \in Objects /\ MayUse(BlockOf(z), p) /\ seen'[z][p] = mem'[p]
    <3>1. CASE z = x
      BY <1>3, <1>4, <1>5, <1>9, <3>1 DEF ViewInv
    <3>2. CASE z # x
      BY <1>3, <1>4, <1>5, <1>7, <1>9, <3>2 DEF ViewInv
    <3> QED BY <3>1, <3>2
  <2>2. MayUse(BlockOf(z), p)'
    BY <1>3, <1>4, <1>8, <1>9, <2>1 DEF MayUse, Accesses
  <2> QED BY <2>1, <2>2
<1>10. ASSUME NEW z \in held', NEW p \in wrote'[z]
       PROVE  p \in DOMAIN seen'[z] /\ MayWrite(BlockOf(z), p)'
  <2>1. p \in DOMAIN seen'[z] /\ MayWrite(BlockOf(z), p)
    <3>1. CASE z = x
      BY <1>3, <1>4, <1>5, <1>10, <3>1 DEF ViewInv
    <3>2. CASE z # x
      BY <1>3, <1>4, <1>5, <1>10, <3>2 DEF ViewInv
    <3> QED BY <3>1, <3>2
  <2>2. MayWrite(BlockOf(z), p)'
    BY <1>3, <1>4, <1>8, <1>10, <2>1 DEF MayWrite, Accesses
  <2> QED BY <2>1, <2>2
<1>11. DataShape' /\ \A z \in Activations \ held' : seen'[z] = <<>> /\ wrote'[z] = {}
  BY <1>3, <1>4, <1>5, <1>6 DEF ViewInv, DataShape
<1> QED BY <1>9, <1>10, <1>11 DEF ViewInv

-----------------------------------------------------------------------------
(* The running program.                                                     *)

\* Before the crate is compiled nothing has run; afterwards the locks keep
\* conflicting blocks apart and what a block has seen stays so.
THEOREM RunCorrect == RunSpec => []RunInv
<1>1. RunInit => RunInv
  <2> SUFFICES ASSUME RunInit PROVE RunInv
    OBVIOUS
  <2>1. Idle
    BY DEF RunInit, Idle
  <2> QED BY <2>1, IdleInv DEF RunInv
<1>2. AnalysisInv /\ CompileInv /\ LocksAreLocks /\ RunInv /\ [RunNext]_all_vars => RunInv'
  <2> SUFFICES ASSUME AnalysisInv, CompileInv, LocksAreLocks, RunInv, [RunNext]_all_vars
               PROVE  RunInv'
    OBVIOUS
  <2>1. CASE Compile \/ UNCHANGED all_vars
    <3>1. UNCHANGED run_vars
      BY <2>1 DEF Compile, all_vars
    <3>2. CASE ~CrateCompiled
      <4>1. Idle'
        BY <3>1, <3>2 DEF RunInv, Idle, run_vars, lib_vars, data_vars
      <4>2. RunShape' /\ LockInv' /\ ViewInv'
        BY <4>1, IdleInv, PTL
      <4> QED BY <4>1, <4>2 DEF RunInv
    <3>3. CASE CrateCompiled
      <4>1. mir' = mir /\ compiled' = compiled /\ allocation_sets' = allocation_sets
        BY <2>1, <3>3, CompiledFixed DEF Compile, all_vars, compile_vars, patching, vars, graph
      <4>2. (CrateCompiled' <=> CrateCompiled) /\ (CrateIsServed' <=> CrateIsServed)
        BY <4>1, ServedFixed
      <4>3. RunShape'
        BY <3>1 DEF RunInv, RunShape, run_vars
      <4>4. LockInv => LockInv'
        BY <3>1, <4>1, LocksFixed DEF run_vars, lib_vars
      <4>5. ViewInv => ViewInv'
        BY <3>1, <4>1 DEF ViewInv, DataShape, MayUse, MayWrite, Accesses, BlockOf,
                          run_vars, lib_vars, data_vars
      <4> QED BY <3>3, <4>2, <4>3, <4>4, <4>5 DEF RunInv
    <3> QED BY <3>2, <3>3
  <2>2. ASSUME NEW th \in Threads, LeaveBlock(th) \/ Access(th) \/ \E s \in Sites : Lock(th, s)
        PROVE  RunInv'
    <3>1. mir' = mir /\ compiled' = compiled /\ allocation_sets' = allocation_sets
      BY <2>2 DEF LeaveBlock, Access, Lock, Unlock, LeaveEarly, Read, Write, compile_vars, patching,
                  vars, graph
    <3>2. (CrateCompiled' <=> CrateCompiled) /\ (CrateIsServed' <=> CrateIsServed)
      BY <3>1, ServedFixed
    <3>3. CrateCompiled
      <4>1. CASE \E s \in Sites : Lock(th, s)
        BY <4>1 DEF Lock
      <4>2. CASE LeaveBlock(th) \/ Access(th)
        <5>1. running[th] # <<>>
          BY <4>2 DEF LeaveBlock, Access, Unlock, LeaveEarly, Read, Write, InBlock
        <5> QED BY <5>1 DEF RunInv, Idle
      <4> QED BY <2>2, <4>1, <4>2
    <3>4. RunShape'
      <4>1. CASE \E s \in Sites : Lock(th, s)
        <5>1. PICK s \in Sites : Lock(th, s)
          BY <4>1
        <5>2. Len(running[th]) < MaxDepth /\ running' = [running EXCEPT ![th] = Append(@, s)]
          BY <5>1 DEF Lock
        <5> QED BY <3>1, <5>2, EnterBlock DEF RunInv
      <4>2. CASE LeaveBlock(th)
        <5>1. running[th] # <<>> /\ running' = [running EXCEPT ![th] = Front(@)]
          BY <4>2 DEF LeaveBlock, Unlock, LeaveEarly, EndOfBlock, InBlock
        <5> QED BY <3>1, <5>1, LeaveTop DEF RunInv
      <4>3. CASE Access(th)
        BY <4>3 DEF Access, Read, Write, RunInv, RunShape
      <4> QED BY <2>2, <4>1, <4>2, <4>3
    <3>5. ASSUME CrateIsServed PROVE LockInv' /\ ViewInv'
      <4>1. RunShape /\ LockInv /\ ViewInv /\ LocksExist
        BY <3>3, <3>5 DEF RunInv, CrateIsServed
      <4>2. CASE \E s \in Sites : Lock(th, s)
        BY <4>1, <4>2, LockStep
      <4>3. CASE LeaveBlock(th)
        BY <4>1, <4>3, UnlockStep, LeaveEarlyStep DEF LeaveBlock
      <4>4. CASE Access(th)
        <5>1. ViewInv'
          BY <3>3, <3>5, <4>1, <4>4, ReadStep, WriteStep DEF Access
        <5>2. running' = running /\ UNCHANGED lib_vars
          BY <4>4 DEF Access, Read, Write
        <5>3. LockInv'
          BY <3>1, <4>1, <5>2, LocksFixed
        <5> QED BY <5>1, <5>3
      <4> QED BY <2>2, <4>2, <4>3, <4>4
    <3> QED BY <3>2, <3>3, <3>4, <3>5 DEF RunInv
  <2> QED BY <2>1, <2>2 DEF RunNext
<1> QED BY <1>1, <1>2, ProgramInv, PTL DEF RunSpec

(* The lock library and the blocks keep the shape of the state, whatever    *)
(* blocks are nested or left early: waiting and holding activations are     *)
(* activations of blocks their threads are in.                              *)
THEOREM RunTypes == RunSpec => [](CrateIsServed => RunTypeOK)
<1>1. CompileInv /\ RunInv => (CrateIsServed => RunTypeOK)
  <2> SUFFICES ASSUME CompileInv, RunInv, CrateIsServed PROVE RunTypeOK
    OBVIOUS
  <2>1. CompileTypeOK /\ running \in [Threads -> Seq(Sites)] /\ LibShape /\ ViewInv
    BY DEF CompileInv, RunInv, RunShape, LockInv
  <2>2. \A th \in Threads : DOMAIN running[th] = 1..Len(running[th]) /\ Len(running[th]) \in Nat
    BY <2>1, LenProperties
  <2>3. held \subseteq {x \in Activations : x[2] \in DOMAIN running[x[1]]}
    BY <2>1, <2>2, RuntimeAssumption DEF LibShape, Live, Activations
  <2>4. \A x \in Activations : DOMAIN seen[x] \subseteq Objects
    <3>1. DOMAIN <<>> = {}
      OBVIOUS
    <3> QED BY <2>1, <3>1 DEF ViewInv
  <2> QED BY <2>1, <2>3, <2>4 DEF RunTypeOK, LibShape, ViewInv, DataShape
<1> QED BY <1>1, ProgramInv, RunCorrect, PTL

(* Threads are never inside blocks one of which may write an object that    *)
(* the other may use: the locks conflict analysis chose, as make_patches    *)
(* wrote them into the bodies and the library serves them, are enough for   *)
(* any crate, any number of threads and any nesting of blocks.              *)
THEOREM ConflictsExclude == RunSpec => [](CrateIsServed => ConflictingBlocksExclude)
<1>1. AnalysisInv /\ CompileInv /\ RunInv => (CrateIsServed => ConflictingBlocksExclude)
  <2> SUFFICES ASSUME AnalysisInv, CompileInv, RunInv, CrateIsServed,
                      NEW x \in held, NEW y \in held, x[1] # y[1], NEW o \in Objects
               PROVE  ~(MayWrite(BlockOf(x), o) /\ MayUse(BlockOf(y), o))
    BY DEF ConflictingBlocksExclude, BlockOf
  <2>1. RunShape /\ LockInv /\ CrateCompiled /\ x # y
    BY DEF RunInv, Idle
  <2> QED BY <2>1, Exclusion
<1> QED BY <1>1, ProgramInv, RunCorrect, PTL

(* What a transaction has read or written stays as it is until its end:     *)
(* no other block, of this or of another thread, writes it meanwhile.       *)
THEOREM StableViews == RunSpec => [](CrateIsServed => ViewsAreStable)
<1>1. RunInv => (CrateIsServed => ViewsAreStable)
  BY DEF RunInv, ViewInv, ViewsAreStable
<1> QED BY <1>1, RunCorrect, PTL

-----------------------------------------------------------------------------
(* The refinement of AtomicTransactions.                                    *)

\* Without nesting a thread is in one block at most.
Flat == \A th \in Threads : Len(running[th]) <= 1

\* Where no block is executed inside another one, a thread is in one block
\* at most.
LEMMA NoNesting == ASSUME Nested = {} PROVE RunSpec => []Flat
<1>1. RunInit => Flat
  BY EmptySeq DEF RunInit, Flat
<1>2. RunInv /\ Flat /\ [RunNext]_all_vars => Flat'
  <2> SUFFICES ASSUME RunInv, Flat, [RunNext]_all_vars, NEW c \in Threads
               PROVE  Len(running'[c]) <= 1
    BY DEF Flat
  <2>0. running \in [Threads -> Seq(Sites)] /\ Len(running[c]) <= 1
    BY DEF RunInv, RunShape, Flat
  <2>1. ASSUME NEW th \in Threads, NEW s \in Sites, Lock(th, s) PROVE Len(running'[c]) <= 1
    <3>1. running[th] = <<>> /\ running' = [running EXCEPT ![th] = Append(@, s)]
      BY <2>1 DEF Lock
    <3>2. Len(Append(<<>>, s)) = 1
      BY PushFacts, EmptySeq
    <3> QED BY <2>0, <3>1, <3>2
  <2>2. ASSUME NEW th \in Threads, LeaveBlock(th) PROVE Len(running'[c]) <= 1
    <3>1. running[th] # <<>> /\ running' = [running EXCEPT ![th] = Front(@)]
      BY <2>2 DEF LeaveBlock, Unlock, LeaveEarly, EndOfBlock, InBlock
    <3>2. CASE c = th
      <4>1. Len(Front(running[c])) = Len(running[c]) - 1 /\ Len(running[c]) \in Nat
        BY <2>0, <3>1, <3>2, FrontFacts
      <4> QED BY <2>0, <3>1, <3>2, <4>1
    <3>3. CASE c # th
      BY <2>0, <3>1, <3>3
    <3> QED BY <3>2, <3>3
  <2>3. CASE UNCHANGED running
    BY <2>0, <2>3
  <2> QED BY <2>1, <2>2, <2>3 DEF RunNext, Compile, Access, Read, Write, all_vars, run_vars
<1> QED BY <1>1, <1>2, RunCorrect, PTL DEF RunSpec

\* A counter modulo Values that is advanced and set back is where it was.
LEMMA Successor ==
  ASSUME NEW v \in 0..(Values - 1)
  PROVE  /\ (((v + 1) % Values) + Values - 1) % Values = v
         /\ (((v + Values - 1) % Values) + 1) % Values = v
BY RuntimeAssumption

\* No two activations have written the same object.
LEMMA OneWriter ==
  ASSUME AnalysisInv, CompileInv, CrateCompiled, CrateIsServed, RunShape, LockInv, ViewInv,
         NEW x \in Activations, NEW y \in Activations, NEW o \in wrote[x], x # y
  PROVE  o \notin DOMAIN seen[y] /\ o \notin wrote[y]
<1>1. x \in held /\ MayWrite(BlockOf(x), o)
  BY DEF ViewInv
<1>2. CASE y \in held
  <2>1. ~MayUse(BlockOf(y), o)
    BY <1>1, <1>2, Exclusion
  <2>2. o \notin DOMAIN seen[y]
    BY <1>2, <2>1 DEF ViewInv
  <2> QED BY <1>2, <2>2 DEF ViewInv
<1>3. CASE y \notin held
  <2>1. DOMAIN <<>> = {}
    OBVIOUS
  <2> QED BY <1>3, <2>1 DEF ViewInv
<1> QED BY <1>2, <1>3

\* The update of an object by a block that has not ended does not show.
LEMMA WriteIsHidden ==
  ASSUME AnalysisInv, CompileInv, CrateCompiled, CrateIsServed, RunShape, LockInv, ViewInv,
         NEW th \in Threads, NEW s \in Sites, NEW o \in Objects, Write(th, s, o)
  PROVE  Committed' = Committed
<1>1. PICK x : x = Here(th)
  OBVIOUS
<1>2. PICK v : v = seen[x][o]
  OBVIOUS
<1>3. /\ InBlock(th, s) /\ MayWrite(s, o) /\ o \in DOMAIN seen[x] /\ o \notin wrote[x]
      /\ mem' = [mem EXCEPT ![o] = (v + 1) % Values]
      /\ wrote' = [wrote EXCEPT ![x] = @ \cup {o}]
  BY <1>1, <1>2 DEF Write
<1>4. x \in held /\ x \in Activations
  BY <1>1, <1>3, InBlockFacts
<1>5. v = mem[o] /\ v \in 0..(Values - 1)
  BY <1>2, <1>3, <1>4 DEF ViewInv, DataShape
<1>6. ~\E z \in Activations : o \in wrote[z]
  BY <1>3, <1>4, OneWriter
<1>7. /\ mem'[o] = (v + 1) % Values /\ \A p \in Objects \ {o} : mem'[p] = mem[p]
      /\ o \in wrote'[x]
      /\ \A z \in Activations : \A p \in Objects \ {o} : p \in wrote'[z] <=> p \in wrote[z]
  BY <1>3, <1>4 DEF ViewInv, DataShape
<1>8. Committed[o] = v
  BY <1>5, <1>6 DEF Committed
<1>9. Committed'[o] = (((v + 1) % Values) + Values - 1) % Values
  BY <1>4, <1>7 DEF Committed
<1>10. Committed'[o] = Committed[o]
  BY <1>5, <1>8, <1>9, Successor
<1>11. \A p \in Objects \ {o} : Committed'[p] = Committed[p]
  BY <1>7 DEF Committed
<1>12. \A p \in Objects : Committed'[p] = Committed[p]
  BY <1>10, <1>11
<1> QED BY <1>12 DEF Committed

\* At the end of a block its updates take effect, all of them and no others.
LEMMA EndCommits ==
  ASSUME AnalysisInv, CompileInv, CrateCompiled, CrateIsServed, RunShape, LockInv, ViewInv,
         NEW x \in Activations, mem' = mem, wrote' = [wrote EXCEPT ![x] = {}]
  PROVE  Committed' = [o \in Objects |-> IF o \in wrote[x] THEN (Committed[o] + 1) % Values
                                                           ELSE Committed[o]]
<1>1. wrote'[x] = {} /\ \A z \in Activations \ {x} : wrote'[z] = wrote[z]
  BY DEF ViewInv, DataShape
<1>2. ASSUME NEW o \in wrote[x], o \in Objects PROVE Committed'[o] = (Committed[o] + 1) % Values
  <2>1. mem[o] \in 0..(Values - 1)
    BY <1>2 DEF ViewInv, DataShape
  <2>2. Committed[o] = (mem[o] + Values - 1) % Values
    BY <1>2 DEF Committed
  <2>3. \A z \in Activations : o \notin wrote'[z]
    BY <1>1, OneWriter
  <2>4. Committed'[o] = mem[o]
    BY <1>2, <2>3 DEF Committed
  <2> QED BY <2>1, <2>2, <2>4, Successor
<1>3. ASSUME NEW o \in Objects \ wrote[x] PROVE Committed'[o] = Committed[o]
  <2>1. (\E z \in Activations : o \in wrote'[z]) <=> (\E z \in Activations : o \in wrote[z])
    BY <1>1
  <2> QED BY <2>1 DEF Committed
<1>4. \A o \in Objects : Committed'[o] = IF o \in wrote[x] THEN (Committed[o] + 1) % Values
                                                           ELSE Committed[o]
  BY <1>2, <1>3
<1>5. Committed' = [o \in Objects |-> Committed'[o]]
  BY DEF Committed
<1> QED BY <1>4, <1>5

Pending == [th \in Threads |-> ToSet(running[th])]

\* A block that ends, in whatever way, is a commit.
LEMMA EndIsCommit ==
  ASSUME AnalysisInv, CompileInv, CrateCompiled, CrateIsServed, RunShape, LockInv, ViewInv, Flat,
         NEW th \in Threads, LeaveBlock(th)
  PROVE  Atomic!Commit(th)
<1>1. PICK s \in Sites : Unlock(th, s) \/ LeaveEarly(th, s)
  BY DEF LeaveBlock
<1>2. PICK x : x = Here(th)
  OBVIOUS
<1>3. /\ InBlock(th, s) /\ mem' = mem /\ wrote' = [wrote EXCEPT ![x] = {}]
      /\ running' = [running EXCEPT ![th] = Front(@)]
      /\ allocation_sets' = allocation_sets
  BY <1>1, <1>2 DEF Unlock, LeaveEarly, EndOfBlock, compile_vars, vars, graph
<1>4. x \in held /\ x \in Activations /\ BlockOf(x) = s
  BY <1>2, <1>3, InBlockFacts
<1>5. Committed' = [o \in Objects |-> IF o \in wrote[x] THEN (Committed[o] + 1) % Values
                                                        ELSE Committed[o]]
  BY <1>3, <1>4, EndCommits
<1>6. wrote[x] \in SUBSET WritableBy[s]
  BY <1>4 DEF ViewInv, DataShape, WritableBy
<1>7. WritableBy' = WritableBy
  BY <1>3 DEF WritableBy, MayWrite, Accesses
<1>8. /\ running \in [Threads -> Seq(Sites)] /\ running[th] # <<>>
      /\ Len(running[th]) \in Nat \ {0} /\ Len(running[th]) <= 1
      /\ Last(running[th]) = s
      /\ Front(running[th]) \in Seq(Sites) /\ Len(Front(running[th])) = Len(running[th]) - 1
  BY <1>3, FrontFacts DEF InBlock, RunShape, Flat
<1>9. /\ Len(running[th]) = 1 /\ running[th][1] = s /\ DOMAIN running[th] = {1}
      /\ Front(running[th]) = <<>>
  <2>1. Len(running[th]) = 1
    BY <1>8
  <2>2. running[th][1] = s
    BY <1>8, <2>1 DEF Last
  <2>3. DOMAIN running[th] = 1..1
    BY <1>8, <2>1, LenProperties
  <2>4. Front(running[th]) = <<>>
    BY <1>8, <2>1, EmptySeq
  <2> QED BY <2>1, <2>2, <2>3, <2>4
<1>10. s \in Pending[th]
  BY <1>9 DEF Pending, ToSet
<1>11. Pending' = [Pending EXCEPT ![th] = {}]
  <2>1. ToSet(<<>>) = {}
    BY DEF ToSet
  <2> QED BY <1>3, <1>8, <1>9, <2>1 DEF Pending
<1> QED BY <1>5, <1>6, <1>7, <1>10, <1>11 DEF Atomic!Commit, Pending

\* The lock call of a block is a request.
LEMMA LockIsRequest ==
  ASSUME Nested = {}, RunShape, NEW th \in Threads, NEW s \in Sites, Lock(th, s)
  PROVE  Atomic!Request(th, s)
<1>1. /\ running[th] = <<>> /\ running' = [running EXCEPT ![th] = Append(@, s)]
      /\ allocation_sets' = allocation_sets /\ mem' = mem /\ wrote' = wrote
  BY DEF Lock, compile_vars, vars, graph, data_vars
<1>2. WritableBy' = WritableBy /\ Committed' = Committed
  BY <1>1 DEF WritableBy, MayWrite, Accesses, Committed
<1>3. ToSet(<<>>) = {} /\ ToSet(Append(<<>>, s)) = {s}
  <2>1. Len(Append(<<>>, s)) = 1 /\ Append(<<>>, s)[1] = s /\ Append(<<>>, s) \in Seq(Sites)
    BY PushFacts, EmptySeq
  <2>2. DOMAIN Append(<<>>, s) = 1..1
    BY <2>1, LenProperties
  <2> QED BY <2>1, <2>2 DEF ToSet
<1>4. Pending[th] = {} /\ Pending' = [Pending EXCEPT ![th] = {s}]
  BY <1>1, <1>3 DEF Pending, RunShape
<1> QED BY <1>2, <1>4 DEF Atomic!Request, Pending

\* The steps of the compiler and the accesses of a block leave the abstract
\* state alone.
LEMMA Unseen ==
  ASSUME WritableBy' = WritableBy, Committed' = Committed, running' = running
  PROVE  UNCHANGED Atomic!atomic_vars
BY DEF Atomic!atomic_vars

(* Where no block is executed inside another one, every step of the running *)
(* program is a step of AtomicTransactions or invisible there: the updates  *)
(* of a transaction take effect together when its block ends (a block that  *)
(* is left early included), none is lost and nothing else changes an        *)
(* object.  That every transaction commits is a matter of fairness.         *)
THEOREM Atomicity ==
  ASSUME Nested = {}
  PROVE  RunSpec /\ []CrateIsServed => Atomic!AtomicSafety
<1>1. RunInit => Atomic!AtomicInit
  <2> SUFFICES ASSUME RunInit PROVE Atomic!AtomicInit
    OBVIOUS
  <2>1. WritableBy \in [Sites -> SUBSET Objects]
    BY DEF WritableBy
  <2>2. Committed = [o \in Objects |-> 0]
    BY DEF RunInit, Committed
  <2>3. Pending = [th \in Threads |-> {}]
    <3>1. ToSet(<<>>) = {}
      BY DEF ToSet
    <3> QED BY <3>1 DEF RunInit, Pending
  <2> QED BY <2>1, <2>2, <2>3 DEF Atomic!AtomicInit, Pending
<1>2. AnalysisInv /\ CompileInv /\ RunInv /\ Flat /\ CrateIsServed /\ [RunNext]_all_vars
        => [Atomic!AtomicNext]_(Atomic!atomic_vars)
  <2> SUFFICES ASSUME AnalysisInv, CompileInv, RunInv, Flat, CrateIsServed, [RunNext]_all_vars
               PROVE  [Atomic!AtomicNext]_(Atomic!atomic_vars)
    OBVIOUS
  <2>1. RunShape /\ LockInv /\ ViewInv
    BY DEF RunInv
  <2>2. CASE Compile \/ UNCHANGED all_vars
    <3>1. mem' = mem /\ wrote' = wrote /\ running' = running
      BY <2>2 DEF Compile, all_vars, run_vars, data_vars
    <3>2. allocation_sets' = allocation_sets
      <4>1. CompileStep => [Next]_vars
        BY DEF CompileStep, ConflictAnalysisQuery, OptimizedMirUnpatched, MakePatchesFor,
               NextConflictSet, PatchTransaction, ApplyPatch
      <4> QED BY <2>2, <4>1, InputFixed DEF Compile, all_vars, compile_vars
    <3>3. WritableBy' = WritableBy /\ Committed' = Committed
      BY <3>1, <3>2 DEF WritableBy, MayWrite, Accesses, Committed
    <3> QED BY <3>1, <3>3, Unseen
  <2>3. ASSUME NEW th \in Threads, NEW s \in Sites, Lock(th, s) PROVE Atomic!AtomicNext
    BY <2>1, <2>3, LockIsRequest DEF Atomic!AtomicNext
  <2>4. ASSUME NEW th \in Threads, running[th] # <<>> PROVE CrateCompiled
    BY <2>4 DEF RunInv, Idle
  <2>5. ASSUME NEW th \in Threads, LeaveBlock(th) PROVE Atomic!AtomicNext
    <3>1. running[th] # <<>>
      BY <2>5 DEF LeaveBlock, Unlock, LeaveEarly, InBlock
    <3> QED BY <2>1, <2>4, <2>5, <3>1, EndIsCommit DEF Atomic!AtomicNext
  <2>6. ASSUME NEW th \in Threads, Access(th) PROVE UNCHANGED Atomic!atomic_vars
    <3>1. PICK s \in Sites, o \in Objects : Read(th, s, o) \/ Write(th, s, o)
      BY <2>6 DEF Access
    <3>2. running' = running /\ allocation_sets' = allocation_sets /\ running[th] # <<>>
      BY <3>1 DEF Read, Write, compile_vars, vars, graph, InBlock
    <3>3. WritableBy' = WritableBy
      BY <3>2 DEF WritableBy, MayWrite, Accesses
    <3>4. Committed' = Committed
      <4>1. CASE Read(th, s, o)
        BY <4>1 DEF Read, Committed
      <4>2. CASE Write(th, s, o)
        BY <2>1, <2>4, <3>2, <4>2, WriteIsHidden
      <4> QED BY <3>1, <4>1, <4>2
    <3> QED BY <3>2, <3>3, <3>4, Unseen
  <2> QED BY <2>2, <2>3, <2>5, <2>6 DEF RunNext
<1> QED BY <1>1, <1>2, ProgramInv, RunCorrect, NoNesting, PTL DEF RunSpec, Atomic!AtomicSafety
=============================================================================
