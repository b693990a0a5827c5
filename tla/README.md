# TLA+ models of the TORTIS transaction pass

TORTIS is a fork of the Rust compiler. It adds the keyword `transaction` and a
compiler pass that decides which lock every transaction block takes, "real-time
software transactional memory without retries". This directory holds TLA+
modules of that pass and of the program it produces, TLC configurations for
small instances, and TLAPS proofs.

Paths below are relative to the repository's `src/` directory (the compiler);
`transaction/` stands for `librustc_mir/transform/transaction/`.

## The system

| Part | Code | State it keeps | Operations | What makes it correct |
|---|---|---|---|---|
| Front end | `libsyntax` (parser), `librustc/hir/lowering.rs` (`lower_transaction_block`), `librustc_mir/hair/cx/expr.rs` (`create_lock_call`) | syntax trees | turns `transaction { B }` into `transaction_lock(99); B; transaction_unlock(99);`, and the control flow around it into a graph | a lock call, then the block, then an unlock call, on every path that reaches the end |
| Transaction map | `transaction/transaction_map.rs`, `librustc/mir/traversal.rs` | `terminator_to_lock`, `lock_to_unlock`, `terminator_to_tx`, `transaction_id` | visits the calls of a body in reverse postorder | a call is mapped to the transaction that executions reach it in |
| Use-def analysis | `transaction/use_def_analysis.rs` (with `util/def_use.rs`) | `edges`, `vertices`, `is_write`, `allocation_set`, `current_allocation` | follows every allocation of a shared object through locals, closures and calls to its borrows | every borrow in a transaction, and no other, is in an allocation set of it; no unwrap fails; it ends |
| Conflict analysis | `transaction/conflict_analysis.rs` | `vertices`, `edges`, `visited`, `conflict_sets` | connected components of the objects | transactions that touch a common object are in one conflict set, each in one only |
| Queries | `transform/mod.rs` (`mir_const` ... `optimized_mir`, `get_shared_objects`, `conflict_analysis`), `librustc/ty/query/plumbing.rs`, `librustc/ty/steal.rs` | answers, active jobs, poisoned jobs, one `Steal` per intermediate MIR | providers ask for other queries, borrow or steal the MIR of a body | no MIR is used after it was stolen, no query needs itself |
| Patching | `transaction/mod.rs` (`make_patches`), `util/patch.rs` | the memoised conflict sets, one `MirPatch` per body | replaces callee and argument of the lock and unlock calls | all bodies agree on lock numbers and modes; an unlock matches its lock |
| Lock library and the running program | not in the repository | phase-fair reader-writer locks, shared objects | lock, unlock, borrow, borrow_mut | transactions are atomic and all commit |

The parts are called in a chain. `optimized_mir(d)` calls `make_patches(d)`,
which asks for the query `conflict_analysis` of the crate (memoised); that one
asks for `get_shared_objects` of every body, which runs the use-def visitor; the
visitor builds one transaction map per function it enters. What makes this hard:

* hash maps are iterated in an unspecified order and lock numbers come from it;
* a body is numbered in a call of `make_patches` of its own, and must agree with
  all others;
* the transaction map follows one order of the blocks, not the paths;
* `conflict_analysis` makes every body depend on the MIR of all others, in a query
  engine built for bodies that are compiled one by one, and whose intermediate
  results are stolen by the next stage;
* the use-def analysis is recursive over functions, shares its maps between
  callers and traces nothing twice: what the first caller left behind is used for
  the second;
* the program that comes out is concurrent, its locks are not released when a
  block is left early, and a block executed inside another takes a second lock.

The code line of each of these hazards, and the properties aimed at it, are in
`PROJECT.json`.

## Modules

| Module | Models |
|---|---|
| `ConflictAnalysis` | `ConflictAnalysis::new` and `perform`, one action per loop iteration; `dfs_util` is a stack of activations `[vertex, next]`; every hash-map loop takes its next element with `\E` |
| `MakePatches` (EXTENDS `ConflictAnalysis`) | the query, `make_patches` loop by loop, `patch_terminator`'s assertion, `transaction_call`'s panics, `MirPatch::apply`; bodies are compiled in any order |
| `TransactionRuntime` (EXTENDS `MakePatches`) | threads executing the blocks of the compiled crate with a phase-fair lock per number; blocks inside blocks; blocks left early |
| `AtomicTransactions` | the abstract specification: request, then commit in one step, every request commits |
| `TransactionMap` | `Postorder`, `ReversePostorder` and `TransactionMap::perform` on a control-flow graph |
| `Lowering` | `lower_transaction_block`, `if`, `while`, `loop`, `break`, `return`: from statements to the graphs `TransactionMap` takes |
| `UseDef` | the loop of `conflict_analysis` over `get_shared_objects`; the visitors and activations of `trace` on one stack, with their maps |
| `UseDefReference` (EXTENDS `UseDef`) | what an execution of the crate does, recursively: the reference for `UseDef` |
| `CrateAnalysis` (EXTENDS `UseDefReference`, INSTANCE `ConflictAnalysis`) | the whole query: use-def analysis of every function, then conflict analysis of what they reported |
| `Queries` | the query engine with the providers from type checking to `optimized_mir`, and the `Steal`s |
| `ConflictAnalysisProofs`, `MakePatchesProofs`, `TransactionRuntimeProofs`, `TransactionMapProofs`, `UseDefProofs`, `QueriesProofs` | the theorems about these modules; each of the first three builds on the one before |
| `QueryCycleProofs` (EXTENDS `QueriesProofs`) | the order of the queries, and the proof that a crate outside the named cases has no cycle |
| `SequenceFacts` | lemmas on pushing, popping and replacing the last element of a sequence, for the stacks and queues of the proofs |
| `MC*` | instances for TLC |

Operators preceded by a comment that begins with "Mutant:" are wrong variants of
the definition that follows them. No specification uses them; replacing the
definition by the variant must break the property `PROJECT.json` names, which
shows that the property depends on the code.

### ConflictAnalysis

An `AllocationSet` is `[site, allocations]`, `site` being the (lock, unlock) pair
of a block. The input is any sequence of them. The same block may occur several
times, because each function whose analysis meets it reports it, and then as a
reader and as a writer: those are two `Transaction`s. An entry of a Rust map that
is absent is an empty set here, which is exact because entries are created with
an element.

### MakePatches

`mir` holds the two calls of every block, `transaction_lock(99)` and
`transaction_unlock(99)` at first. `MakePatchesFor`, `NextConflictSet`,
`PatchTransaction` and `ApplyPatch` are the steps of `make_patches` and of
`optimized_mir`; `OptimizedMirUnpatched` is the case of a body that is neither an
`ItemKind::Fn` nor a closure. A panic ends the compiler (`panicked`).

`lang_items` are the lock functions that the crate and what it links with define.
`transaction_map.rs` recognises no transaction unless `transaction_lock` and
`transaction_unlock` are among them (`Recognised`), so the `expect()`s of
`transaction_call` can fail at level 2 only, for the mode whose functions are
missing. `PanicsExplained` names all panics and the crates on which no function is
compiled: blocks reported in two modes, missing functions, and, with any conflict
set, a level other than 1 and 2. The option's help offers levels 0 to 3
(`librustc/session/config.rs`), and the comment in `transaction_call` takes level 0
not to get there; both are a finding.

### TransactionRuntime and AtomicTransactions

The program starts when all bodies are compiled. `Lock`, `Read`, `Write`,
`Unlock` are steps of a thread. `running[th]` is the sequence of blocks a thread is
in: a block may execute another one (the constant `Nested`) through a call, and
the thread then holds or waits for a second lock. An activation `<<th, i>>` is the
i-th of them. `LeaveEarly` is `return`, `break`, `?` or a panic in a block:
`lower_transaction_block` puts the unlock call after the block and nothing else
releases the lock, which then belongs to `Nobody`. A block may do what its
allocation sets say (the use-def analysis is taken to be right here;
`CrateAnalysis` asks when it is). `Write` replaces what was read by its successor,
so a lost update is visible. The refinement mapping of
`ImplementsAtomicTransactions` takes back the updates of unfinished transactions;
it is checked for programs that do not nest blocks, since the abstract
specification has one request per thread.

The lock library is external. The model is built on the lang items
(`transaction_{read,write}_{lock,unlock}`), on the number argument and on the
README's "Currently, a phase-fair reader-writer lock is used".

### TransactionMap and Lowering

A block of the graph is its terminator: a lock call, an unlock call, another
call, or something else. `Contexts` is the reference: all pairs (block, lock
held) that executions reach. A path from one block to another is stated as: no set
of blocks that is closed under the edges keeps them apart (`Leads`). The outcome depends on the order of the successors
and on which blocks are joined, so the graphs are not arbitrary: `Lowering` builds
them from statements as AST lowering and MIR construction do (`while` is a `loop`
with a `match` and a `break`; the else arm is the first target of a switch; a then
arm has a false edge to the else arm), and `BodyFor` is the body of a function.
Cleanup blocks are left out: they contain no call and lead to no other block.

`NestedAndUnreleasedAreReported` says when `perform` warns of a double unlock or
panics for want of an unlock: only if transactions nest, or one is left by an
unconditional return or never left (`NeverReleased`), so that no unlock call of it
can be reached. The latter always panics once a call is made in it, the former is
always reported if the transactions are left at their ends and are in one body. A
conditional `return` or `break` out of a transaction is not reported, and neither is
a callee's transaction inside one of its caller.

### UseDef and CrateAnalysis

A body is a sequence of instructions (assign, copy, closure, new, wrap, read, write,
call, spawn, diverge, lock, unlock). `GetSharedObjects(f)` starts the visitor of a function,
for all functions of the crate in any order (`todo`); `ExtendShared` adds its
answer to `allocation_sets`. A child visitor gets copies of its parent's maps and
is merged back; since the parent does nothing in between, the maps are shared in
the model, and only `current_allocation` belongs to a visitor. `status` becomes
"panic" at an unwrap of `None` and "overflow" when `use_set` recurses along a
cycle. What is abstracted: names (the outcome of the text match is the
instruction's `op`), control flow (straight-line code; branching is
`TransactionMap`'s subject), and `&mut` borrows of a pointer, which `trace`
filters out.

The activations of `trace` keep the set of positions at which their local is still to
be looked at (`UsesOf`) and take the least first (`Use`). `TracedAllocationIsKnown`
is stated for all crates without a function that copies an argument after an
allocation of its own (`ForgetsAllocation`): there `visit_terminator` has reset
`current_allocation`, and a borrow inside a transaction meets `None`.

`CrashesExplained` names every reason for which the analysis crashes, in terms of
where pointers go by the text of the crate (`Flow`, `Pointers`): `use_set` overflows
the stack where a pointer goes round, in a circle of moves or through a recursive
function (`PointerGoesRound`); an unwrap fails where a copy of a pointer is never
borrowed (`PointerIsIdle`: a path of edges ends in no borrow), where a function forgets
the allocation, and where a pointer is handed to a function that does not return, whose
call has no destination (`PointerIsLost`). A reference that a closure has captured and
copies is not followed (`LeadsTo`); a crate with this form (`FieldCopied`) and one for
every reason to crash are in the run.

`CrateAnalysis` then runs the actions of `ConflictAnalysis` on `allocation_sets`.
The constant `Supported` is the set of crates the analysis is meant to be exact
for; the properties about results are stated for those, the others for all
`Programs`.

### Queries

A provider is the sequence of its steps: `get` other queries, `borrow` a `Steal`
until the provider returns, `read` it for one step, `steal` it. `stack` holds the
running providers: the query, the number of the step it is at, what that step is
still to be applied to (`todo`), and the `Steal`s it borrows. `JobCompleted`,
`NotYetStarted` and `Cycle` are the outcomes of `JobOwner::try_get`, `Complete` is
`complete`, `Unwind` is the destructor of `JobOwner` (it poisons the job), and
`NextStep` goes on to the provider's next step. A step that goes through a hash set
takes its elements in any order. A crate is given by the kinds of its bodies and by
what type checking, MIR construction, constant evaluation and the passes ask for on
account of them (`lengths`, `built`, `mentions`, `calls`, `traces`, `txs`); what they
compute is left out. `built` are the constants that building a body's MIR evaluates
(`LowerPath`): those its patterns name, the counts of its repeat expressions, and the
discriminants of enums it matches on. The driver's checks of items and matches evaluate
them as well.
`CratesAssumption` says what makes such a record a crate: only constants are
mentioned or are lengths, a closure's owner is no closure, constructors and
functions without body need nothing. `Reachable` is the least set that is closed
under a relation; it is used where the code follows calls (the interpreter, which
also evaluates the constants mentioned by the functions it executes; `trace`).
`TxBodies` are the bodies with a transaction in the conflict sets, which
`make_patches` reads: those the analysis has looked at. `optimized_mir` no longer
steals `mir_validated` (the code says "used to be body.steal()"): the operator
`StealValidated` is the upstream form, and with it `NoStolenRead` fails.

`FailuresExplained` and `UnsupportedCratesFail` together say which crates are not
compiled. Failing: the MIR of an analysed body cannot be built without evaluating a
const fn, which a length in its types or a constant of its patterns, repeat counts or
discriminants depends on, through constants and calls (`MirNeedsConstFn`); a
shared object is passed to a function without a body (`TracesBodyless`); a constant
involves itself, which is not allowed in Rust and fails upstream as well
(`ConstantInvolvesItself`). The converse holds for crates with a function or a
closure: `make_patches` asks for `conflict_analysis` for these only, and a crate of
methods is compiled as upstream (`MethodsOnly` in `MCQueries`).

## Runs

| Run | Shows | Bounds |
|---|---|---|
| `conflict_analysis` | for every input and order: conflict sets are disjoint (`OneLockPerTransaction`), contain all users of an object (`SharersShareALock`) and cannot be split (`SetsAreConnected`); `dfs_util` enters only vertices, none twice; `Terminates` | 3 objects, 3 blocks; all pairs of AllocationSets of two blocks, and all triples of readers, with at most 2 uses each: long components come from chains, which is where a search can go wrong |
| `crate_analysis` | use-def analysis reports exactly the borrows of executions (`AllUsesFound`, `OnlyRealUses`) without a crash, and the conflict sets and modes made from its answers are exactly the ones executions need (`LocksAreTheNeededOnes`, `WritersAreTheNeededOnes`); on other crates, cyclic and recursive ones included, it ends (`QueryEnds`), invents no borrow (`OnlyRealBorrows`) and crashes for four reasons only (`CrashesExplained`) | two objects with two pointers, functions, closures, wrapping, call depth 2, blocks that are reported by several functions; pointers moved in circles, handed on by recursive functions, never borrowed, or handed to a function that does not return; functions taken in every order |
| `make_patches` | bodies compiled in any order agree on the lock of a shared object, independent sets differ, an unlock matches its lock in number and mode; panics happen exactly for levels 0 and 3, for blocks reported in two modes and for lock functions that are not defined; compilation ends | 4 blocks in a function (2), a closure and a method; levels 0 to 3; all lock functions defined, the two of level 1, all but one of level 2, none; 67 crates with up to 3 conflict sets; the default lock has number 1, so that it collides with a second conflict set as 99 does with a hundredth |
| `queries` | no `Steal` is used after it was stolen or stolen while in use (`NoStolenRead`); a query that meets itself is found on the stack and nothing stays active after a failure (`ActiveIsTheStack`); compilation fails only on the crates `FailuresExplained` describes, and on all of them with a function or a closure (`UnsupportedCratesFail`); no body is patched before the crate was analysed; `CompilerEnds` | up to 5 bodies: function, closure, method, constants, const fns, constructor, required method of a trait; with and without inlining; lengths computed by a const fn, by a const method, and by a const method that needs a const fn in turn; patterns that name constants, computed by a const fn or not; a const fn built with another one; constants that mention each other; a crate of methods only; every order of every hash set |
| `runtime` | conflicting blocks exclude each other, what a transaction has read stays, and the program implements `AtomicTransactions` | 3 threads (a writer, a second writer and a reader can wait at once), 3 crates: readers and a writer, a block that reads one object and writes another, two conflict sets; levels 1 and 2; values modulo 3 |
| `blocking` | exclusion also with blocks inside blocks and blocks left early; a thread waits for ever only for a lock that was abandoned, or behind locks that are nested in a circle (`StuckOnlyBehindAbandonedOrCircularLocks`) | 2 threads, 4 blocks, 2 conflict sets, depth 2. The program may stop, so deadlock is not checked |
| `transaction_map` | the order is a reverse postorder (topological but for back edges); calls are mapped as executions reach them (`CallsMappedWhenLeftAtTheEnd`); nested transactions and those that are never released cause the warning or the panic, and nothing else does (`NestedAndUnreleasedAreReported`) | all bodies made of one or two transactions in sequence, in arms of an `if`, in loops, with a compound statement inside; loops left by `break`, early returns, transactions left by return only or never, nested blocks, in arms and loops too; called from inside a transaction or not, with or without an inherited map |

Five runs exhibit a disagreement between the code and what the repository says of
it; each is a finding in `PROJECT.json`, and so is the disagreement on levels 0 and 3,
which `make_patches` shows as a panic explained:

* `query_cycle`: a function with an array whose length a const fn of the crate
  computes. Type checking needs `optimized_mir` of the const fn, that needs
  `conflict_analysis`, and that needs the MIR of the function being type-checked.
  A run-pass test of the repository has this form; no transaction is needed.
* `patched_twice`: a function that allocates one object and has a block that reads
  it, and whose caller passes it an object the block writes, is reported in both
  modes; `patch_terminator` asserts that no block is patched twice. That use-def
  analysis reports a block so is seen in `crate_analysis` (`OwnAndArgument` in
  `MCCrateAnalysis`).
* `method_not_patched`: transactions in methods keep lock 99.
* `loop_left`: in `transaction { loop { if c { break; } g(); } }` the call of `g`
  comes after the unlock in reverse postorder and is taken to be outside.
* `two_transactions`: a function that passes its argument on to another, called in
  two transactions with two objects: the use of one object is attributed to the
  other transaction.

## Fairness

The compiler's part is one thread that runs to its end: weak fairness of its next
step (`FairSpec`, `FairCompileSpec`, `FairMapSpec`, `FairCrateSpec`,
`FairQuerySpec`). In `TransactionRuntime`, a thread past a lock call leaves that
block again if it is not kept from it: strong fairness of `LeaveBlock` for each
activation. Strong, because a thread may enter and leave inner blocks meanwhile,
each of which disables the end of the outer one for a while; a transaction is
bounded (real-time tasks have a worst-case execution time) and executes finitely
many of them. No fairness is assumed of `Lock`: no thread has to enter a block.
That a waiting thread gets the lock follows from the lock's queues and is not
assumed, and a thread that waits for an inner lock is not helped by the
assumption, since its outer block cannot be left then.

## Proofs

The theorems hold for every value of the constants that satisfies the named
assumptions (`InputsAssumption`, `BodiesAssumption`, `RuntimeAssumption`,
`ProgramsAssumption`, `CratesAssumption`), which TLC evaluates on the runs' instances. Those only give
the constants their types, but for `CratesAssumption`, described above.

**ConflictAnalysisProofs**, for every set of objects and of blocks, every input and
every hash order: `TypeCorrect`, `OneLock`, `SharersLock`, `EnteredAreVertices`,
`ActiveOnce`, `Connected`. Only the first is inductive. `GraphInv` says that
`vertices`, `tx_to_objects` and `edges` describe the part of the input read so far:
an object has a transaction exactly if the transaction uses it, and two objects of
a transaction whose edges are made are adjacent. `SearchInv` is
the invariant of depth-first search: for an activation on the stack, its neighbours
are entered or still in `next`; an entered object without activation has all its
neighbours entered (`LeftIsClosed`); the transactions of an entered object are in
the component being collected or in a finished one; a transaction in a finished set
has all its objects entered, so it cannot be met again. When a component is pushed
the stack is empty, so `LeftIsClosed` closes the set of entered objects under
`edges`, and the objects of every collected transaction with it: that is the step in
which `SetsInv` could fail. `ComponentInv` adds, for `Connected`, that
adjacent objects have a transaction in common and that what was collected since the
search began cannot be split into two unrelated parts; it is kept because an object
is entered from a neighbour that was entered before.

**MakePatchesProofs**, for every crate, level and order of compilation:
`CompileTypes`, `UnlocksMatch`, `LocksDiffer`, `PanicsAreExplained`, and
`SharersOneLock`: `CompileSpec => [](SharersArePatchable => SharersTakeOneLock)`.
The hypothesis is needed, the run `method_not_patched` shows what happens without
it: it says that no method uses a shared object in a transaction. `CompileInv` says
what `patch_map` holds while the loops run (`PatchMapInv`: exactly the calls of the
transactions handled so far, each for one set, with functions that are defined), and that the compiled bodies make
the calls of their conflict set (`MirInv`); that two calls of `make_patches` agree
rests on the conflict sets not changing once they are there, and on `OneLock` and
`SharersLock`, which are carried over because the compiler's steps are steps of
`ConflictAnalysis` or leave its variables alone (`CompilerRunsAnalysis`).

**TransactionRuntimeProofs**, for any number of threads, any nesting and any early
exits: `RunTypes`, `ConflictsExclude`, `StableViews`, under `CrateIsServed` (no
method uses a shared object in a transaction, and the library has a lock for every
number in the code, which is a matter of the library), and `Atomicity`: without
nested blocks (`Nested = {}`), `RunSpec /\ []CrateIsServed => Atomic!AtomicSafety`.
The crates of the runs `runtime` and `blocking` satisfy `CrateIsServed`, and
`RunTypeOK` and the exclusion are checked there without it.
`LockInv` is the invariant of the phase-fair lock: a lock with a writer has no
other holder, holders and waiters called it in their mode, and no waiter is a
holder; and it connects the lock to the threads: who is inside a block (`held`) holds the lock of
the number and in the mode of the block's compiled call. Together with
`SharersOneLock` and `UnlocksMatch` this excludes conflicting blocks, whence
`ViewInv`: what an activation has seen is what the objects hold. For `Atomicity` the
refinement mapping takes back the updates of unfinished transactions; exclusion
makes the writers of an object unique, so that each step of the program is a commit
(the end of a block, early or not), a request, or invisible. The theorems are end to
end: from the reported AllocationSets through conflict analysis and patching to the
executions.

**TransactionMapProofs**, for every control-flow graph: `MapTypes` and
`TopologicalOrder`. `PostorderInv` is the invariant of a depth-first search with an
explicit stack: visited blocks are on the stack or yielded, each once; the
successors of a yielded block are visited, those of a block on the stack are visited
or still in its list; the stack is a path; an edge from a yielded block to one on
the stack closes a loop. When the stack is empty the yielded blocks are closed under
edges. `CallsFollowTheOrder` says what the maps are, given that order: a call belongs
to the lock call last visited before it if no unlock call was visited in between, to
the caller's transaction before the first of them, and is paired with an unlock call
visited under that lock. `OrderInv` states this for the part of the order visited so
far; it is the operator `MapOf`, on which `UseDef` relies for straight-line code, for
an arbitrary body. What the maps are worth then depends only on how the order agrees
with executions, that is on the shape of the body (`loop_left`), and is checked on the
bodies `Lowering` builds.

**UseDefProofs**, for every crate and every order of its functions: `UseTypes` and
`AllocationsKnown`. Neither is inductive: a step reads `current_allocation` of the
visitor the innermost trace belongs to, somewhere down the stack (`Self`), which has to
exist first. `StackOK` says how the stack is built: the first frame is a visitor of the
function asked for; a trace that resets the allocation lies on the visitor that set it,
which has passed an allocation in its body; a visitor under a trace has an allocation.
The last holds because a visitor entered for an argument starts with the allocation its
caller traces and loses it only after an allocation of its own (`KnowsAllocation`);
without `ForgetsAllocation` it does not meet the argument again after that. That the
least use left is one of those left (`LeastElement`) is the well-foundedness of
inclusion, applied to the intervals `1 .. n`.

**QueriesProofs**, for every crate and every order of bodies and hash sets:
`QueryTypes`, `NeverStolen`, `ActiveStack`, `PatchedLate`, `UnsupportedFail`.
`EngineInv` relates the stack to the answers: what a running provider has asked
for is answered, or it is the next one on the stack (`AskedInv`); what an answered
query depends on is answered (`AnsweredInv`). Every `Steal` has one query that
takes it (`Thief`) and, `mir_validated` apart, one that borrows it (`Reader`), and
the thief asks for the reader first. So `StealInv`: what was stolen has its reader
answered, and its thief is answered or running, hence not started again. Nothing
steals `mir_validated`. `UnsupportedFail` rests on `AnsweredInv` and the set of
answers being closed: with `conflict_analysis` about to be answered, the `mir_built`
of a body that needs a const fn is answered, which needs `conflict_analysis` to have
been answered before itself (`ConflictInv`).

**QueryCycleProofs**, for every crate and every order: `OnlyExplainedFailures`, the
converse. A cycle is a query that asks for one on the stack, so `StackInv` gives the
queries an order (`Above`) and says that the stack goes down in it; the order is
irreflexive, and what the top asks for is below the top (`GoesDown`, provider by
provider). Layers come first: the driver, then the queries about bodies, then
`conflict_analysis`, `get_shared_objects`, and below that everything that is asked for
on behalf of the analysis (`Early`): the stages up to `mir_borrowck` of the analysed
bodies, and all stages of what their types and their construction need evaluated. These
ask for nothing above because, by the hypothesis that no const fn is needed to build
them, nothing evaluated for them is patched. Within a layer the bodies are ordered by what takes part in compiling them
(`Cone`, strictly decreasing since no constant involves itself), a body's queries by
stage, and `optimized_mir` of inlined callees by node id. Both hypotheses are needed:
where a const fn is needed there is a cycle, as in the run `query_cycle`.

Proving changed the model in four places. An earlier form of `MirNeedsConstFn`
looked at the lengths and calls of a body itself only; the attempt to prove
`FailuresExplained` from it led to a crate in which a length needs a const method
whose own types need a const fn, on which TLC refuted it
(`ConstMethodNeedsConstFn`, now in the run). The interpreter evaluates the constants
mentioned by what it executes, which had been left to the optimization passes. And
`make_patches` reads the MIR of bodies in the conflict sets only (`TxBodies`), not of
const fns nobody passes an object to. `TracedAllocationIsKnown` was stated for the
crates in `Supported`; the invariant its proof needs names what it depends on, and it is
now stated for every crate without `ForgetsAllocation`.

Only model-checked:

* all liveness (`Terminates`, `CompilationEnds`, `CompilerEnds`, `MapEnds`,
  `QueryEnds`, the commitment in `ImplementsAtomicTransactions`) and
  `StuckOnlyBehindAbandonedOrCircularLocks`: fairness is out of the prover's reach;
* `CallsMappedWhenLeftAtTheEnd` and `NestedAndUnreleasedAreReported` of
  `TransactionMap`, which hold for the bodies that lowering builds and not for arbitrary graphs;
* what `UseDef` and `CrateAnalysis` compute (`AllUsesFound`, `OnlyRealUses`,
  `OnlyRealBorrows`, `CrashesExplained`, `LocksAreTheNeededOnes`,
  `WritersAreTheNeededOnes`): the reference is a recursive definition, and no
  induction over it is available. `UseDefReference`, `Lowering` and `MCTransactionMap` declare RECURSIVE operators
  and are kept out of proofs.

## Not modelled

* Parser and lang items: tree construction and declarations; their result is the
  starting point of `Lowering`.
* The regular expressions that recognise callees by their printed names.
* Control flow inside the use-def analysis: its visitor takes a body's blocks in
  order, and `TransactionMap` is checked on branching bodies by itself. Shared
  pointers returned from functions or stored in structures, which `trace` does not
  follow.
* In the query engine: the parallel compiler's waiting for a running job, the
  dependency graph and incremental compilation, and the queries that no provider
  of `transform/mod.rs` reaches.
* In `MirPatch`: new blocks, temporaries and statements, which the transaction pass
  does not use.
* Transactions of several crates; lock numbers are per crate.
* The rest of the Rust compiler and its standard library, which is upstream code
  (and nearly all of the repository's lines).

## Plan

1. Done: `ConflictAnalysis`, `MakePatches`, `TransactionRuntime` with nested blocks
   and its refinement, `Lowering` and `TransactionMap`, `UseDef` for all functions of
   a crate, its composition with `ConflictAnalysis`, `Queries`; proofs of all safety
   properties of `ConflictAnalysis`, `MakePatches`, `TransactionRuntime` and `Queries`,
   of the traversal of `TransactionMap` and what its maps are in terms of the order, and
   of the stack of `UseDef`.
2. Open: that the order of `TransactionMap` agrees with executions for every body
   lowering can build (an induction over statements), and that `UseDef` finds the
   borrows of every execution of a supported crate.
