-------------------------- MODULE TransactionRuntime --------------------------
(***************************************************************************)
(* A crate compiled by MakePatches, running.                               *)
(*                                                                         *)
(* A transaction block is lowered to a lock call, the statements of the    *)
(* block and an unlock call (lower_transaction_block in                    *)
(* librustc/hir/lowering.rs); the calls are the ones optimized_mir left in *)
(* the body.  Threads execute blocks in any order and any number of times. *)
(* A function that is called inside a block may have a block of its own:   *)
(* the thread then takes a second lock while it holds the first.  Nothing  *)
(* releases the lock when the block is left by return, break, `?` or a     *)
(* panic: its lock stays taken, and Nobody is left to release it.          *)
(*                                                                         *)
(* The lock library is not part of the repository.  From the names of its  *)
(* lang items and the README ("Currently, a phase-fair reader-writer lock  *)
(* is used") it is modelled as one phase-fair lock per number:             *)
(* transaction_lock and transaction_write_lock exclude everybody,          *)
(* transaction_read_lock excludes writers; writers are served in order; a  *)
(* reader that meets a present writer waits for one writer at most, and a  *)
(* writer for one phase of readers between two writers.                    *)
(***************************************************************************)
EXTENDS MakePatches, SequencesExt

CONSTANTS
  Threads,   \* threads of the running program
  Numbers,   \* lock numbers the library has locks for
  EarlyExits,\* blocks with a path that leaves without reaching the end
  Nested,    \* pairs <<s, t>>: what is called in block s executes block t
  MaxDepth,  \* blocks a thread is in at most: the longest chain of Nested
  Nobody,    \* the holder of a lock that will never be released
  Values     \* an object's value is a counter modulo Values

ASSUME RuntimeAssumption ==
  /\ Numbers \subseteq Nat
  /\ EarlyExits \subseteq Sites
  /\ Nested \subseteq Sites \X Sites
  /\ MaxDepth \in Nat \ {0}
  /\ Nobody \notin Threads \X (1 .. MaxDepth)
  /\ Values \in Nat \ {0, 1}

\* <<thread, i>>: the i-th of the blocks a thread is in, outermost first.
Activations == Threads \X (1 .. MaxDepth)

VARIABLES
  running,  \* thread -> the blocks it is in, from lock call to unlock call
  held,     \* activations whose lock call has returned
  readers,  \* lock -> activations holding it as readers
  writer,   \* lock -> the activation holding it as the writer, at most one
  queue,    \* lock -> activations waiting to be the writer, in order of arrival
  blocked,  \* lock -> readers waiting for the present writer
  mem,      \* object -> value
  seen,     \* activation -> what it has read or written
  wrote     \* activation -> objects it has written

lib_vars == <<held, readers, writer, queue, blocked>>
data_vars == <<mem, seen, wrote>>
run_vars == <<running, lib_vars, data_vars>>
all_vars == <<compile_vars, run_vars>>

-----------------------------------------------------------------------------
(* The library.                                                             *)

ReaderCall(call) == call.func = "transaction_read_lock"
Present(n) == writer[n] # {} \/ queue[n] # <<>>

\* A lock call that returns at once, or queues the caller.
Acquire(x, n, is_read) ==
  \/ /\ is_read /\ ~Present(n)
     /\ readers' = [readers EXCEPT ![n] = @ \cup {x}]
     /\ held' = held \cup {x}
     /\ UNCHANGED <<writer, queue, blocked>>
  \/ /\ is_read /\ Present(n)
     /\ blocked' = [blocked EXCEPT ![n] = @ \cup {x}]
     /\ UNCHANGED <<held, readers, writer, queue>>
  \/ /\ ~is_read /\ ~Present(n) /\ readers[n] = {}
     /\ writer' = [writer EXCEPT ![n] = {x}]
     /\ held' = held \cup {x}
     /\ UNCHANGED <<readers, queue, blocked>>
  \/ /\ ~is_read /\ (Present(n) \/ readers[n] # {})
     /\ queue' = [queue EXCEPT ![n] = Append(@, x)]
     /\ UNCHANGED <<held, readers, writer, blocked>>

\* The first waiting writer, if any, gets the lock.
NextWriter(n, leaving) ==
  IF queue[n] = <<>>
    THEN /\ writer' = [writer EXCEPT ![n] = {}]
         /\ held' = held \ {leaving}
         /\ UNCHANGED queue
    ELSE /\ writer' = [writer EXCEPT ![n] = {Head(queue[n])}]
         /\ held' = (held \ {leaving}) \cup {Head(queue[n])}
         /\ queue' = [queue EXCEPT ![n] = Tail(@)]

\* Mutant: the library forgets that the reader is gone.
ReaderStays(x, n) ==
  /\ readers' = [readers EXCEPT ![n] = @ \ {x}]
  /\ UNCHANGED <<held, writer, queue, blocked>>

ReadUnlock(x, n) ==
  /\ readers' = [readers EXCEPT ![n] = @ \ {x}]
  /\ \/ /\ readers[n] = {x}
        /\ NextWriter(n, x)
     \/ /\ readers[n] # {x}
        /\ held' = held \ {x}
        /\ UNCHANGED <<writer, queue>>
  /\ UNCHANGED blocked

\* Mutant: the next writer goes first even when readers are waiting.
WritersFirst(x, n) ==
  \/ /\ blocked[n] # {} /\ queue[n] = <<>>
     /\ readers' = [readers EXCEPT ![n] = blocked[n]]
     /\ blocked' = [blocked EXCEPT ![n] = {}]
     /\ writer' = [writer EXCEPT ![n] = {}]
     /\ held' = (held \ {x}) \cup blocked[n]
     /\ UNCHANGED queue
  \/ /\ blocked[n] = {} \/ queue[n] # <<>>
     /\ NextWriter(n, x)
     /\ UNCHANGED <<readers, blocked>>

\* The waiting readers go first, all of them.
WriteUnlock(x, n) ==
  \/ /\ blocked[n] # {}
     /\ readers' = [readers EXCEPT ![n] = blocked[n]]
     /\ blocked' = [blocked EXCEPT ![n] = {}]
     /\ writer' = [writer EXCEPT ![n] = {}]
     /\ held' = (held \ {x}) \cup blocked[n]
     /\ UNCHANGED queue
  \/ /\ blocked[n] = {}
     /\ NextWriter(n, x)
     /\ UNCHANGED <<readers, blocked>>

-----------------------------------------------------------------------------
(* The program.                                                             *)

\* What the statements of a block may do to shared objects.
Accesses(s) == UNION {allocation_sets[i].allocations :
                        i \in {j \in DOMAIN allocation_sets : allocation_sets[j].site = s}}

MayUse(s, o) == \E u \in Accesses(s) : u.shared_object = o
MayWrite(s, o) == [shared_object |-> o, is_write |-> TRUE] \in Accesses(s)

RunInit ==
  /\ CompileInit
  /\ running = [th \in Threads |-> <<>>]
  /\ held = {}
  /\ readers = [n \in Numbers |-> {}]
  /\ writer = [n \in Numbers |-> {}]
  /\ queue = [n \in Numbers |-> <<>>]
  /\ blocked = [n \in Numbers |-> {}]
  /\ mem = [o \in Objects |-> 0]
  /\ seen = [x \in Activations |-> <<>>]
  /\ wrote = [x \in Activations |-> {}]

(* The program exists once every body of the crate is compiled.             *)
Compile == CompileStep /\ UNCHANGED run_vars

\* The innermost block a thread is in, and whether it is past its lock call.
Here(th) == <<th, Len(running[th])>>
InBlock(th, s) == running[th] # <<>> /\ Last(running[th]) = s /\ Here(th) \in held

(* A thread reaches a transaction block, inside another one or not, and     *)
(* calls its lock function.                                                 *)
Lock(th, s) ==
  /\ CrateCompiled /\ Len(running[th]) < MaxDepth
  /\ \/ running[th] = <<>>
     \/ \E outer \in Sites : InBlock(th, outer) /\ <<outer, s>> \in Nested
  /\ running' = [running EXCEPT ![th] = Append(@, s)]
  /\ LET call == mir[<<s, "lock">>]
     IN Acquire(<<th, Len(running[th]) + 1>>, call.arg, ReaderCall(call))
  /\ UNCHANGED <<compile_vars, data_vars>>

Saw(x, o, v) ==
  seen' = [seen EXCEPT ![x] =
             [y \in DOMAIN @ \cup {o} |-> IF y = o THEN v ELSE @[y]]]

(* borrow, or the first half of an update.                                  *)
Read(th, s, o) ==
  /\ InBlock(th, s) /\ MayUse(s, o) /\ o \notin DOMAIN seen[Here(th)]
  /\ Saw(Here(th), o, mem[o])
  /\ UNCHANGED <<compile_vars, running, lib_vars, mem, wrote>>

(* borrow_mut: the value that was read is replaced by its successor.        *)
Write(th, s, o) ==
  /\ InBlock(th, s) /\ MayWrite(s, o)
  /\ o \in DOMAIN seen[Here(th)] \ wrote[Here(th)]
  /\ LET v == (seen[Here(th)][o] + 1) % Values
     IN mem' = [mem EXCEPT ![o] = v] /\ Saw(Here(th), o, v)
  /\ wrote' = [wrote EXCEPT ![Here(th)] = @ \cup {o}]
  /\ UNCHANGED <<compile_vars, running, lib_vars>>

EndOfBlock(th) ==
  /\ running' = [running EXCEPT ![th] = Front(@)]
  /\ seen' = [seen EXCEPT ![Here(th)] = <<>>]
  /\ wrote' = [wrote EXCEPT ![Here(th)] = {}]

(* The end of the block: the unlock call.                                   *)
Unlock(th, s) ==
  /\ InBlock(th, s)
  /\ LET call == mir[<<s, "unlock">>]
     IN \/ call.func = "transaction_read_unlock" /\ ReadUnlock(Here(th), call.arg)
        \/ call.func # "transaction_read_unlock" /\ WriteUnlock(Here(th), call.arg)
  /\ EndOfBlock(th)
  /\ UNCHANGED <<compile_vars, mem>>

\* Mutant: leaving the block releases the lock, its waiters are not told.
LeaveUnlocked(th, s) ==
  /\ InBlock(th, s) /\ s \in EarlyExits
  /\ LET n == mir[<<s, "lock">>].arg
     IN /\ readers' = [readers EXCEPT ![n] = @ \ {Here(th)}]
        /\ writer' = [writer EXCEPT ![n] = @ \ {Here(th)}]
  /\ held' = held \ {Here(th)}
  /\ EndOfBlock(th)
  /\ UNCHANGED <<compile_vars, mem, queue, blocked>>

(* return, break, `?` or a panic inside the block: no call is made.  A      *)
(* panic leaves the blocks a thread is in one after the other.              *)
LeaveEarly(th, s) ==
  /\ InBlock(th, s) /\ s \in EarlyExits
  /\ LET n == mir[<<s, "lock">>].arg
         Abandon(holders) ==
           IF Here(th) \in holders THEN (holders \ {Here(th)}) \cup {Nobody} ELSE holders
     IN /\ readers' = [readers EXCEPT ![n] = Abandon(@)]
        /\ writer' = [writer EXCEPT ![n] = Abandon(@)]
  /\ held' = held \ {Here(th)}
  /\ EndOfBlock(th)
  /\ UNCHANGED <<compile_vars, mem, queue, blocked>>

LeaveBlock(th) == \E s \in Sites : Unlock(th, s) \/ LeaveEarly(th, s)
Access(th) == \E s \in Sites, o \in Objects : Read(th, s, o) \/ Write(th, s, o)

RunNext ==
  \/ Compile
  \/ \E th \in Threads : LeaveBlock(th) \/ Access(th) \/ \E s \in Sites : Lock(th, s)

RunSpec == RunInit /\ [][RunNext]_all_vars

(* The compiler runs to its end.  A thread past a lock call is scheduled    *)
(* and, as a transaction is bounded, comes to the end of that block,        *)
(* whatever blocks it executes inside; no thread has to enter a block.      *)
FairRunSpec ==
  /\ RunSpec
  /\ WF_all_vars(Compile)
  /\ \A x \in Activations : SF_all_vars(Here(x[1]) = x /\ LeaveBlock(x[1]))

-----------------------------------------------------------------------------
RunTypeOK ==
  /\ CompileTypeOK
  /\ running \in [Threads -> Seq(Sites)]
  /\ held \subseteq {x \in Activations : x[2] \in DOMAIN running[x[1]]}
  /\ readers \in [Numbers -> SUBSET (Activations \cup {Nobody})]
  /\ writer \in [Numbers -> SUBSET (Activations \cup {Nobody})]
  /\ queue \in [Numbers -> Seq(Activations)]
  /\ blocked \in [Numbers -> SUBSET Activations]
  /\ mem \in [Objects -> 0 .. (Values - 1)]
  /\ \A x \in Activations : DOMAIN seen[x] \subseteq Objects
  /\ wrote \in [Activations -> SUBSET Objects]

(* Two threads are never inside blocks one of which may write an object the *)
(* other may use, whatever other blocks they are in: the locks that         *)
(* conflict analysis chose are enough.                                      *)
ConflictingBlocksExclude ==
  \A x, y \in held : x[1] # y[1] =>
    \A o \in Objects : ~(MayWrite(running[x[1]][x[2]], o) /\ MayUse(running[y[1]][y[2]], o))

(* What a transaction has read or written stays as it is until its end.     *)
ViewsAreStable ==
  \A x \in held : \A o \in DOMAIN seen[x] : mem[o] = seen[x][o]

Abandoned(n) == Nobody \in readers[n] \cup writer[n]

\* The locks that are taken inside blocks of the locks ns.
LockOf(s) == mir[<<s, "lock">>].arg
Inner(ns) == {LockOf(p[2]) : p \in {q \in Nested : LockOf(q[1]) \in ns}}
InnerClosure(ns) ==
  LET round[i \in Nat] ==
        IF i = 0 THEN ns ELSE UNION {{n} \cup Inner({n}) : n \in round[i - 1]}
  IN round[Cardinality(Nested)]

\* The i-th block of th is over, or is one that may have to wait for ever.
OverOrStuck(th, i) ==
  i <= Len(running[th]) =>
    \E n \in InnerClosure({LockOf(running[th][i])}) :
      Abandoned(n) \/ n \in InnerClosure(Inner({n}))

(* A thread that calls a lock function gets into its block and out of it,   *)
(* unless the lock, or one that is taken inside its blocks, was abandoned   *)
(* by a block that was left early, or locks are nested in a circle: nothing *)
(* else makes a thread wait for ever.                                       *)
StuckOnlyBehindAbandonedOrCircularLocks ==
  \A th \in Threads, i \in 1 .. MaxDepth :
    i <= Len(running[th]) ~> OverOrStuck(th, i)

\* The committed value of an object: an update of an unfinished transaction
\* does not count.
Committed ==
  [o \in Objects |-> IF \E x \in Activations : o \in wrote[x]
                       THEN (mem[o] + Values - 1) % Values
                       ELSE mem[o]]

WritableBy == [s \in Sites |-> {o \in Objects : MayWrite(s, o)}]

Atomic == INSTANCE AtomicTransactions
            WITH store <- Committed,
                 pending <- [th \in Threads |-> ToSet(running[th])],
                 writable <- WritableBy

(* When no block is executed inside another one, the running program        *)
(* implements AtomicTransactions: the updates of a transaction take effect  *)
(* in one step, none is lost, and every transaction a thread begins         *)
(* commits, whatever the other threads do.                                  *)
ImplementsAtomicTransactions == Atomic!AtomicSpec
=============================================================================
