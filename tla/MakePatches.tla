----------------------------- MODULE MakePatches -----------------------------
(***************************************************************************)
(* How the conflict sets reach the code that is generated                  *)
(* (librustc_mir/transform/transaction/mod.rs, the query optimized_mir of  *)
(* librustc_mir/transform/mod.rs, and MirPatch of util/patch.rs).          *)
(*                                                                         *)
(* Every transaction block is first built with the calls                   *)
(* transaction_lock(99) and transaction_unlock(99).  When optimized_mir is *)
(* asked for a body, make_patches goes through all the conflict sets of    *)
(* the crate, collects one MirPatch per body they mention, and the patch   *)
(* of this body alone is applied.  Each body is therefore numbered by a    *)
(* call of make_patches of its own, and the bodies must agree.             *)
(*                                                                         *)
(* The module runs ConflictAnalysis as the query conflict_analysis: its    *)
(* result is memoised, so that every make_patches sees the same sets.      *)
(* A body is what optimized_mir is asked for; of its MIR only the two call *)
(* terminators of every transaction block matter.                          *)
(***************************************************************************)
EXTENDS ConflictAnalysis

CONSTANTS
  Bodies,     \* DefIds that have MIR
  BodyOf,     \* the body that contains a transaction block
  Patchable,  \* bodies whose HIR node is an ItemKind::Fn or a closure
  Levels,     \* the values of -Z transaction_level considered
  DefaultLock,\* the argument of the calls as create_lock_call builds them
              \* (99, a "random constant for debugging")
  DefinedItems\* the sets of lock functions that the crate and the crates it
              \* links with may define

(* The functions with a #[lang] attribute that lock and unlock.             *)
LangItems == {"transaction_lock", "transaction_unlock",
              "transaction_read_lock", "transaction_read_unlock",
              "transaction_write_lock", "transaction_write_unlock"}

ASSUME BodiesAssumption ==
  /\ BodyOf \in [Sites -> Bodies]
  /\ Patchable \subseteq Bodies
  /\ Levels \subseteq Nat
  /\ DefaultLock \in Nat
  /\ DefinedItems \subseteq SUBSET LangItems

VARIABLES
  level,      \* -Z transaction_level; never changes
  lang_items, \* the lock functions that are defined; never changes
  mir,        \* the lock and unlock calls, as code generation will see them
  compiled,   \* bodies whose optimized_mir has returned
  compiling,  \* the body make_patches is working for: a set of at most one
  set_index,  \* i + 1: the conflict set of the outer loop
  patch_todo, \* transactions of it the inner loop has not seen
  patch_map,  \* the terminators that have a patch: a partial function
  panicked    \* "no", or which panic ended the compiler

patching == <<level, lang_items, mir, compiled, compiling, set_index, patch_todo, patch_map, panicked>>
compile_vars == <<vars, patching>>

Terminators == Sites \X {"lock", "unlock"}
Call == [func : LangItems, arg : Nat]

-----------------------------------------------------------------------------
\* Mutant: every unlock at level 2 is the writer's.
WriterUnlocks(is_lock, is_write) ==
  CASE level = 1 -> IF is_lock THEN "transaction_lock" ELSE "transaction_unlock"
    [] level # 1 /\ is_lock /\ is_write -> "transaction_write_lock"
    [] level # 1 /\ is_lock /\ ~is_write -> "transaction_read_lock"
    [] level # 1 /\ ~is_lock -> "transaction_write_unlock"

\* Mutant: the arms for readers and writers are interchanged.
SwappedModes(is_lock, is_write) ==
  CASE level = 1 -> IF is_lock THEN "transaction_lock" ELSE "transaction_unlock"
    [] level # 1 /\ is_lock /\ ~is_write -> "transaction_write_lock"
    [] level # 1 /\ is_lock /\ is_write -> "transaction_read_lock"
    [] level # 1 /\ ~is_lock /\ ~is_write -> "transaction_write_unlock"
    [] level # 1 /\ ~is_lock /\ is_write -> "transaction_read_unlock"

(* The lang item to call; defined for the supported levels only.            *)
TransactionCall(is_lock, is_write) ==
  CASE level = 1 -> IF is_lock THEN "transaction_lock" ELSE "transaction_unlock"
    [] level # 1 /\ is_lock /\ is_write -> "transaction_write_lock"
    [] level # 1 /\ is_lock /\ ~is_write -> "transaction_read_lock"
    [] level # 1 /\ ~is_lock /\ is_write -> "transaction_write_unlock"
    [] level # 1 /\ ~is_lock /\ ~is_write -> "transaction_read_unlock"

\* transaction_call panics at level 0 and above 2.
LevelSupported == level \in {1, 2}

(* The two functions that a block of this mode calls, and the expect() of   *)
(* transaction_call on each of them.                                        *)
LockFunctions(is_write) == {TransactionCall(is_lock, is_write) : is_lock \in BOOLEAN}
FunctionsDefined(t) == LockFunctions(t.is_write) \subseteq lang_items

\* Mutant: only the sets with a transaction of this body are counted.
CountedPerBody ==
  Cardinality({j \in 1 .. (set_index - 1) :
                 \E t \in conflict_sets[j] : BodyOf[t.site] \in compiling})

\* The index `i` of `conflict_sets.iter().enumerate()`.
LockNumber == set_index - 1

(* patch_call: both the callee and its only argument are replaced.          *)
PatchCall(is_lock, t) ==
  [func |-> TransactionCall(is_lock, t.is_write), arg |-> LockNumber]

\* The two patch_terminator calls for one transaction.
NewPatches(t) == [x \in {<<t.site, "lock">>, <<t.site, "unlock">>} |->
                    PatchCall(x[2] = "lock", t)]

Merge(f, g) == [x \in DOMAIN f \cup DOMAIN g |-> IF x \in DOMAIN f THEN f[x] ELSE g[x]]

-----------------------------------------------------------------------------
(* TransactionMap::perform looks at no body unless both functions are there *)
(* by which it knows a transaction, so that none is reported.               *)
Recognised == {"transaction_lock", "transaction_unlock"} \subseteq lang_items

CompileInit ==
  /\ Init
  /\ level \in Levels
  /\ lang_items \in DefinedItems
  /\ allocation_sets # <<>> => Recognised
  /\ mir = [x \in Terminators |->
              [func |-> IF x[2] = "lock" THEN "transaction_lock" ELSE "transaction_unlock",
               arg |-> DefaultLock]]
  /\ compiled = {}
  /\ compiling = {}
  /\ set_index = 0
  /\ patch_todo = {}
  /\ patch_map = <<>>
  /\ panicked = "no"

(* The query conflict_analysis, computed once and memoised.                 *)
ConflictAnalysisQuery == pc # "done" /\ Next /\ UNCHANGED patching

(* optimized_mir of a body that make_patches passes over: nothing to apply. *)
OptimizedMirUnpatched(d) ==
  /\ panicked = "no" /\ compiling = {}
  /\ d \in Bodies \ (Patchable \cup compiled)
  /\ compiled' = compiled \cup {d}
  /\ UNCHANGED <<vars, level, lang_items, mir, compiling, set_index, patch_todo, patch_map, panicked>>

(* optimized_mir of a function or a closure enters make_patches, once the   *)
(* conflict sets are there.                                                 *)
MakePatchesFor(d) ==
  /\ panicked = "no" /\ compiling = {} /\ pc = "done"
  /\ d \in Patchable \ compiled
  /\ compiling' = {d}
  /\ set_index' = 0
  /\ patch_todo' = {}
  /\ patch_map' = <<>>
  /\ UNCHANGED <<vars, level, lang_items, mir, compiled, panicked>>

NextConflictSet ==
  /\ compiling # {} /\ panicked = "no"
  /\ patch_todo = {} /\ set_index < Len(conflict_sets)
  /\ set_index' = set_index + 1
  /\ patch_todo' = conflict_sets[set_index + 1]
  /\ UNCHANGED <<vars, level, lang_items, mir, compiled, compiling, patch_map, panicked>>

\* Mutant: the last patch of a terminator wins.
Overwrite(t) ==
  /\ compiling # {} /\ panicked = "no"
  /\ t \in patch_todo
  /\ patch_todo' = patch_todo \ {t}
  /\ \/ /\ ~LevelSupported
        /\ panicked' = "level"
        /\ patch_map' = patch_map
     \/ /\ LevelSupported /\ ~FunctionsDefined(t)
        /\ panicked' = "not defined"
        /\ patch_map' = patch_map
     \/ /\ LevelSupported /\ FunctionsDefined(t)
        /\ panicked' = "no"
        /\ patch_map' = Merge(NewPatches(t), patch_map)
  /\ UNCHANGED <<vars, level, lang_items, mir, compiled, compiling, set_index>>

(* The body of the inner loop: both calls are made, which is where          *)
(* transaction_call may panic, before either is handed to patch_terminator, *)
(* which asserts that the block has no patch yet.                           *)
PatchTransaction(t) ==
  /\ compiling # {} /\ panicked = "no"
  /\ t \in patch_todo
  /\ patch_todo' = patch_todo \ {t}
  /\ \/ /\ ~LevelSupported
        /\ panicked' = "level"
        /\ patch_map' = patch_map
     \/ /\ LevelSupported /\ ~FunctionsDefined(t)
        /\ panicked' = "not defined"
        /\ patch_map' = patch_map
     \/ /\ LevelSupported /\ FunctionsDefined(t)
        /\ <<t.site, "lock">> \in DOMAIN patch_map
        /\ panicked' = "patched twice"
        /\ patch_map' = patch_map
     \/ /\ LevelSupported /\ FunctionsDefined(t)
        /\ <<t.site, "lock">> \notin DOMAIN patch_map
        /\ panicked' = "no"
        /\ patch_map' = Merge(NewPatches(t), patch_map)
  /\ UNCHANGED <<vars, level, lang_items, mir, compiled, compiling, set_index>>

(* MirPatch::apply of the patch of this body: the terminators that have a   *)
(* patch are replaced; the patches of other bodies are dropped.             *)
Applied == [x \in Terminators |->
              IF x \in DOMAIN patch_map /\ BodyOf[x[1]] \in compiling
                THEN patch_map[x] ELSE mir[x]]

\* Mutant: the query is answered but stays active.
ApplyAndStay ==
  /\ compiling # {} /\ panicked = "no"
  /\ patch_todo = {} /\ set_index >= Len(conflict_sets)
  /\ mir' = Applied
  /\ compiled' = compiled \cup compiling
  /\ UNCHANGED <<vars, level, lang_items, compiling, set_index, patch_todo, patch_map, panicked>>

\* Mutant: the result of the query is not recorded.
NotRecorded ==
  /\ compiling # {} /\ panicked = "no"
  /\ patch_todo = {} /\ set_index >= Len(conflict_sets)
  /\ mir' = Applied
  /\ compiling' = {}
  /\ UNCHANGED <<vars, level, lang_items, compiled, set_index, patch_todo, patch_map, panicked>>

(* make_patches returns; `patches.remove(&def_id)` is applied.               *)
ApplyPatch ==
  /\ compiling # {} /\ panicked = "no"
  /\ patch_todo = {} /\ set_index >= Len(conflict_sets)
  /\ mir' = Applied
  /\ compiled' = compiled \cup compiling
  /\ compiling' = {}
  /\ UNCHANGED <<vars, level, lang_items, set_index, patch_todo, patch_map, panicked>>

CompileStep ==
  \/ ConflictAnalysisQuery
  \/ \E d \in Bodies : OptimizedMirUnpatched(d) \/ MakePatchesFor(d)
  \/ NextConflictSet
  \/ \E t \in Transaction : PatchTransaction(t)
  \/ ApplyPatch

CrateCompiled == compiled = Bodies

CompileEnded ==
  /\ CrateCompiled \/ panicked # "no"
  /\ UNCHANGED compile_vars

CompileNext == CompileStep \/ CompileEnded

CompileSpec == CompileInit /\ [][CompileNext]_compile_vars

(* Queries run to completion on the compiler's thread.                      *)
FairCompileSpec == CompileSpec /\ WF_compile_vars(CompileStep)

-----------------------------------------------------------------------------
CompileTypeOK ==
  /\ TypeOK
  /\ level \in Levels
  /\ lang_items \in DefinedItems
  /\ mir \in [Terminators -> Call]
  /\ compiled \subseteq Bodies
  /\ compiling \subseteq Patchable \ compiled
  /\ set_index \in Nat
  /\ patch_todo \subseteq Transaction
  /\ DOMAIN patch_map \subseteq Terminators
  /\ \A x \in DOMAIN patch_map : patch_map[x] \in Call
  /\ panicked \in {"no", "level", "not defined", "patched twice"}

UnlockOf == [f \in {"transaction_lock", "transaction_read_lock", "transaction_write_lock"} |->
               CASE f = "transaction_lock" -> "transaction_unlock"
                 [] f = "transaction_read_lock" -> "transaction_read_unlock"
                 [] f = "transaction_write_lock" -> "transaction_write_unlock"]

(* Whatever bodies have been compiled, a transaction block releases the     *)
(* lock it takes, in the mode in which it takes it.                         *)
UnlockMatchesLock ==
  \A s \in Sites :
    LET lock == mir[<<s, "lock">>]
        unlock == mir[<<s, "unlock">>]
    IN lock.arg = unlock.arg /\ unlock.func = UnlockOf[lock.func]

\* The blocks that use an object according to the use-def analysis.
SiteUses(s, o) == \E t \in Transaction : t.site = s /\ Uses(t, o)

(* "Provides automatic synchronization of shared objects within             *)
(* transactions": two compiled blocks that use a common object take the     *)
(* same lock, although the two bodies were numbered by different calls of   *)
(* make_patches.                                                            *)
SharersTakeOneLock ==
  \A s, t \in Sites :
    /\ BodyOf[s] \in compiled /\ BodyOf[t] \in compiled
    /\ \E o \in Objects : SiteUses(s, o) /\ SiteUses(t, o)
    => mir[<<s, "lock">>].arg = mir[<<t, "lock">>].arg

(* Blocks of different conflict sets never take the same lock: conflict     *)
(* analysis does not serialise what it found to be independent.             *)
IndependentLocksDiffer ==
  \A i, j \in DOMAIN conflict_sets : i # j =>
    \A s \in conflict_sets[i], t \in conflict_sets[j] :
      BodyOf[s.site] \in compiled \cap Patchable /\ BodyOf[t.site] \in compiled \cap Patchable
      => mir[<<s.site, "lock">>].arg # mir[<<t.site, "lock">>].arg

(* `assert!(self.patch_map[block].is_none())` of patch_terminator holds.    *)
NoTerminatorPatchedTwice == panicked # "patched twice"

\* A block is reported as a reader by one function and as a writer by another.
ReportedInTwoModes ==
  \E s \in Sites : \A w \in BOOLEAN : \E o \in Objects : Uses([site |-> s, is_write |-> w], o)

\* A transaction that the use-def analysis reports.
Reported(t) == \E o \in Objects : Uses(t, o)

(* What make_patches cannot handle is exactly a block reported in two modes,*)
(* a level other than 1 and 2, although the option's help offers 0 to 3, and*)
(* a mode for which no lock or unlock function is defined: then, and only   *)
(* then, the compiler panics instead of producing the code of a function or *)
(* closure.  The last can happen at level 2 alone: at level 1 the functions *)
(* needed are the ones by which the blocks were recognised.                 *)
PanicsExplained ==
  /\ panicked = "patched twice" => ReportedInTwoModes
  /\ panicked = "level" => ~LevelSupported
  /\ panicked = "not defined" =>
       level = 2 /\ \E t \in Transaction : Reported(t) /\ ~FunctionsDefined(t)
  /\ compiled \cap Patchable # {} =>
       /\ ~ReportedInTwoModes
       /\ conflict_sets # <<>> => LevelSupported
       /\ \A t \in Transaction : Reported(t) => FunctionsDefined(t)

(* Every body of the crate is compiled, or the compiler panics.             *)
CompilationEnds == <>(CrateCompiled \/ panicked # "no")
=============================================================================
