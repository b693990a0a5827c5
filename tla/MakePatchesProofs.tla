-------------------------- MODULE MakePatchesProofs --------------------------
(***************************************************************************)
(* Proofs about MakePatches for any crate, any level and any order in      *)
(* which the bodies are compiled.                                          *)
(*                                                                         *)
(* The compiler runs ConflictAnalysis and leaves its result alone, so that *)
(* what is proved of it holds here.  PatchMapInv says what one call of     *)
(* make_patches has collected so far: the right calls for the transactions *)
(* it has handled, all of them of different blocks.  MirInv says that the  *)
(* bodies which are compiled got these calls.                              *)
(***************************************************************************)
EXTENDS MakePatches, ConflictAnalysisProofs

AnalysisInv ==
  /\ TypeOK /\ GraphInv /\ SearchInv /\ ComponentInv
  /\ OneLockPerTransaction /\ SharersShareALock

\* The loops of make_patches are done with transaction t of conflict set i.
Handled(i, t) == i < set_index \/ (i = set_index /\ t \notin patch_todo)

\* The calls that t must make when its conflict set is the i-th.
LockCall(i, t) == [func |-> TransactionCall(TRUE, t.is_write), arg |-> i - 1]
UnlockCall(i, t) == [func |-> TransactionCall(FALSE, t.is_write), arg |-> i - 1]

Sets == 1..Len(conflict_sets)

\* Where the loops of make_patches stand; they run when the analysis is done.
PatchLoopInv ==
  /\ compiling # {} \/ compiled \cap Patchable # {} => pc = "done"
  /\ compiling # {} => set_index <= Len(conflict_sets)
  /\ compiling # {} /\ patch_todo # {} =>
       set_index \in Sets /\ patch_todo \subseteq conflict_sets[set_index]

\* Each handled transaction has its calls in patch_map, which holds no others.
PatchMapInv ==
  compiling # {} /\ panicked = "no" =>
    /\ \A i \in Sets : \A t \in conflict_sets[i] : Handled(i, t) =>
         /\ LevelSupported /\ FunctionsDefined(t)
         /\ <<t.site, "lock">> \in DOMAIN patch_map
         /\ <<t.site, "unlock">> \in DOMAIN patch_map
         /\ patch_map[<<t.site, "lock">>] = LockCall(i, t)
         /\ patch_map[<<t.site, "unlock">>] = UnlockCall(i, t)
    /\ \A i, j \in Sets : \A t \in conflict_sets[i], u \in conflict_sets[j] :
         Handled(i, t) /\ Handled(j, u) /\ t.site = u.site => t = u
    /\ \A x \in DOMAIN patch_map :
         \E i \in Sets : \E t \in conflict_sets[i] : Handled(i, t) /\ x[1] = t.site

\* No block is in two transactions, the level is one transaction_call knows, and
\* the functions it looks for are defined.
CanBePatched ==
  /\ \A i, j \in Sets : \A t \in conflict_sets[i], u \in conflict_sets[j] :
       t.site = u.site => t = u
  /\ conflict_sets # <<>> => LevelSupported
  /\ \A i \in Sets : \A t \in conflict_sets[i] : FunctionsDefined(t)

\* Compiled functions and closures make the calls of their conflict set.
MirInv ==
  /\ compiled \cap Patchable # {} => CanBePatched
  /\ \A i \in Sets : \A t \in conflict_sets[i] :
       BodyOf[t.site] \in compiled \cap Patchable =>
         /\ mir[<<t.site, "lock">>] = LockCall(i, t)
         /\ mir[<<t.site, "unlock">>] = UnlockCall(i, t)

PanicInv ==
  /\ panicked = "patched twice" => ReportedInTwoModes
  /\ panicked = "level" => ~LevelSupported
  /\ panicked = "not defined" =>
       level = 2 /\ \E t \in Transaction : Reported(t) /\ ~FunctionsDefined(t)

\* Transactions are reported only where they can be recognised.
RecognisedInv == allocation_sets # <<>> => Recognised

CompileInv ==
  /\ CompileTypeOK /\ PatchLoopInv /\ PatchMapInv
  /\ MirInv /\ UnlockMatchesLock /\ PanicInv /\ RecognisedInv

-----------------------------------------------------------------------------
(* The query conflict_analysis inside the compiler.                         *)

\* What the compiler does to the variables of conflict analysis is a step of
\* it or nothing.
LEMMA CompilerRunsAnalysis == CompileSpec => Spec
<1>1. CompileInit => Init
  BY DEF CompileInit
<1>2. [CompileNext]_compile_vars => [Next]_vars
  BY DEF CompileNext, CompileStep, CompileEnded, ConflictAnalysisQuery, OptimizedMirUnpatched,
         MakePatchesFor, NextConflictSet, PatchTransaction, ApplyPatch, compile_vars
<1> QED BY <1>1, <1>2, PTL DEF CompileSpec, Spec

\* The compiler starts from what conflict analysis was proved to compute.
LEMMA AnalysisCorrect == CompileSpec => []AnalysisInv
BY CompilerRunsAnalysis, TypeCorrect, GraphCorrect, SearchCorrect, ComponentsCorrect,
   OneLock, SharersLock, PTL DEF AnalysisInv

\* The argument of ConflictAnalysis::new does not change.
LEMMA InputFixed ==
  ASSUME [Next]_vars
  PROVE  allocation_sets' = allocation_sets
BY DEF Next, CreateVertices, VerticesDone, CreateEdges, EdgesDone, NextKey, KeysDone,
       Neighbour, Return, Terminating, vars, graph

\* The conflict sets: who is in them, and in how many.
LEMMA SetFacts ==
  ASSUME AnalysisInv
  PROVE  /\ Len(conflict_sets) \in Nat
         /\ DOMAIN conflict_sets = Sets
         /\ \A i \in Sets : conflict_sets[i] \subseteq Transaction /\ conflict_sets[i] # {}
         /\ \A i, j \in Sets : \A t \in conflict_sets[i] : t \in conflict_sets[j] => i = j
<1>1. /\ Len(conflict_sets) \in Nat
      /\ DOMAIN conflict_sets = Sets
      /\ \A i \in Sets : conflict_sets[i] \subseteq Transaction
  BY LenProperties, ElementOfSeq DEF AnalysisInv, TypeOK, Sets
<1>2. \A i \in Sets : conflict_sets[i] # {}
  BY DEF AnalysisInv, ComponentInv, Sets
<1>3. \A i, j \in Sets : \A t \in conflict_sets[i] : t \in conflict_sets[j] => i = j
  BY <1>1 DEF AnalysisInv, OneLockPerTransaction
<1> QED BY <1>1, <1>2, <1>3

\* When the analysis is done, the conflict sets hold exactly the transactions
\* that use an object, and all users of an object are in one of them.
LEMMA ResultFacts ==
  ASSUME AnalysisInv, pc = "done"
  PROVE  /\ \A i \in Sets : \A t \in conflict_sets[i] : \E o \in Objects : Uses(t, o)
         /\ \A o \in Objects : \A t, u \in Transaction :
              Uses(t, o) /\ Uses(u, o) => \E i \in Sets : t \in conflict_sets[i] /\ u \in conflict_sets[i]
<1>1. /\ DOMAIN allocation_sets = 1..Len(allocation_sets)
      /\ Len(allocation_sets) \in Nat
  BY LenProperties DEF AnalysisInv, TypeOK
<1>2. next_set - 1 = Len(allocation_sets)
  BY <1>1 DEF AnalysisInv, GraphInv
<1>3. \A t \in Transaction, o \in Objects : t \in vertices[o] => Uses(t, o)
  BY <1>1, <1>2 DEF AnalysisInv, GraphInv, Uses, Seen
<1>4. \A i \in Sets : \A t \in conflict_sets[i] : \E o \in Objects : Uses(t, o)
  BY <1>3, SetFacts DEF AnalysisInv, ComponentInv, Sets
<1>5. ASSUME NEW o \in Objects, NEW t \in Transaction, NEW u \in Transaction, Uses(t, o), Uses(u, o)
      PROVE  \E i \in Sets : t \in conflict_sets[i] /\ u \in conflict_sets[i]
  <2>1. PICK i \in DOMAIN conflict_sets : SetsHolding(t) = {i} /\ SetsHolding(u) = {i}
    BY <1>5 DEF AnalysisInv, SharersShareALock
  <2> QED BY <2>1, SetFacts DEF SetsHolding
<1> QED BY <1>4, <1>5

-----------------------------------------------------------------------------
(* The calls.                                                               *)

\* transaction_call on the supported levels.
LEMMA TransactionCallFacts ==
  ASSUME LevelSupported, NEW w \in BOOLEAN
  PROVE  /\ TransactionCall(TRUE, w) \in LangItems
         /\ TransactionCall(FALSE, w) \in LangItems
         /\ TransactionCall(FALSE, w) = UnlockOf[TransactionCall(TRUE, w)]
<1>1. CASE level = 1
  BY <1>1 DEF TransactionCall, LangItems, UnlockOf
<1>2. CASE level = 2 /\ w
  BY <1>2 DEF TransactionCall, LangItems, UnlockOf
<1>3. CASE level = 2 /\ ~w
  BY <1>3 DEF TransactionCall, LangItems, UnlockOf
<1> QED BY <1>1, <1>2, <1>3 DEF LevelSupported

\* The calls of a transaction match and are well-formed.
LEMMA CallFacts ==
  ASSUME LevelSupported, NEW t \in Transaction, NEW i \in Nat \ {0}
  PROVE  /\ LockCall(i, t) \in Call /\ LockCall(i, t).arg = i - 1
         /\ UnlockCall(i, t) \in Call /\ UnlockCall(i, t).arg = i - 1
         /\ UnlockCall(i, t).func = UnlockOf[LockCall(i, t).func]
<1> DEFINE f == TransactionCall(TRUE, t.is_write)
           g == TransactionCall(FALSE, t.is_write)
<1>1. t.is_write \in BOOLEAN
  BY DEF Transaction
<1>2. f \in LangItems /\ g \in LangItems /\ g = UnlockOf[f]
  BY <1>1, TransactionCallFacts, Zenon
<1>3. LockCall(i, t) = [func |-> f, arg |-> i - 1] /\ UnlockCall(i, t) = [func |-> g, arg |-> i - 1]
  BY DEF LockCall, UnlockCall
<1> HIDE DEF f, g
<1> QED BY <1>2, <1>3 DEF Call

\* The two patches for a transaction of the current conflict set.
LEMMA NewPatchesFacts ==
  ASSUME LevelSupported, NEW t \in Transaction, set_index \in Nat \ {0}
  PROVE  /\ DOMAIN NewPatches(t) = {<<t.site, "lock">>, <<t.site, "unlock">>}
         /\ NewPatches(t)[<<t.site, "lock">>] = LockCall(set_index, t)
         /\ NewPatches(t)[<<t.site, "unlock">>] = UnlockCall(set_index, t)
         /\ \A x \in DOMAIN NewPatches(t) : x \in Terminators /\ NewPatches(t)[x] \in Call
<1>1. DOMAIN NewPatches(t) = {<<t.site, "lock">>, <<t.site, "unlock">>}
  BY DEF NewPatches
<1>2. NewPatches(t)[<<t.site, "lock">>] = LockCall(set_index, t)
  BY DEF NewPatches, PatchCall, LockCall, LockNumber
<1>3. NewPatches(t)[<<t.site, "unlock">>] = UnlockCall(set_index, t)
  <2> DEFINE x == <<t.site, "unlock">>
  <2>1. NewPatches(t)[x] = PatchCall(x[2] = "lock", t)
    BY DEF NewPatches
  <2>2. (x[2] = "lock") = FALSE
    OBVIOUS
  <2>3. PatchCall(x[2] = "lock", t) = PatchCall(FALSE, t)
    BY ONLY <2>2, Zenon
  <2> QED BY <2>1, <2>3 DEF PatchCall, UnlockCall, LockNumber
<1>4. <<t.site, "lock">> \in Terminators /\ <<t.site, "unlock">> \in Terminators
  BY DEF Terminators, Transaction
<1> QED BY <1>1, <1>2, <1>3, <1>4, CallFacts

-----------------------------------------------------------------------------
(* The steps of the compiler keep CompileInv.                               *)

\* The steps that leave the conflict sets and the level alone.
LEMMA SameSets ==
  ASSUME UNCHANGED <<vars, level, lang_items>>
  PROVE  /\ UNCHANGED <<pc, conflict_sets, allocation_sets>>
         /\ Sets' = Sets
         /\ LevelSupported' <=> LevelSupported
         /\ CanBePatched' <=> CanBePatched
         /\ ReportedInTwoModes' <=> ReportedInTwoModes
         /\ \A t : Reported(t)' <=> Reported(t)
         /\ \A t : FunctionsDefined(t)' <=> FunctionsDefined(t)
         /\ RecognisedInv' <=> RecognisedInv
         /\ \A i, t : LockCall(i, t)' = LockCall(i, t) /\ UnlockCall(i, t)' = UnlockCall(i, t)
<1>1. \A t : FunctionsDefined(t)' <=> FunctionsDefined(t)
  BY DEF FunctionsDefined, LockFunctions, TransactionCall
<1>2. \A t : Reported(t)' <=> Reported(t)
  BY DEF Reported, Uses, vars
<1>3. RecognisedInv' <=> RecognisedInv
  BY DEF RecognisedInv, Recognised, vars
<1>4. CanBePatched' <=> CanBePatched
  BY <1>1 DEF CanBePatched, LevelSupported, Sets, vars
<1> QED BY <1>1, <1>2, <1>3, <1>4 DEF vars, Sets, LevelSupported, ReportedInTwoModes, Uses,
       LockCall, UnlockCall, TransactionCall

\* Conflict analysis runs as one step of the compiler.
LEMMA QueryKeeps ==
  ASSUME AnalysisInv, AnalysisInv', CompileInv, ConflictAnalysisQuery
  PROVE  CompileInv'
<1>1. /\ pc # "done" /\ UNCHANGED patching /\ [Next]_vars
  BY DEF ConflictAnalysisQuery
<1>2. compiling = {} /\ compiled \cap Patchable = {}
  BY <1>1 DEF CompileInv, PatchLoopInv
<1>3. allocation_sets' = allocation_sets
  BY <1>1, InputFixed
<1>4. CompileTypeOK'
  BY <1>1 DEF AnalysisInv, CompileInv, CompileTypeOK, patching
<1>5. PatchLoopInv' /\ PatchMapInv' /\ MirInv'
  BY <1>1, <1>2 DEF patching, PatchLoopInv, PatchMapInv, MirInv
<1>6. UnlockMatchesLock'
  BY <1>1 DEF CompileInv, UnlockMatchesLock, patching
<1>7. PanicInv' /\ RecognisedInv'
  <2>1. \A t : /\ Reported(t)' <=> Reported(t)
               /\ FunctionsDefined(t)' <=> FunctionsDefined(t)
    BY <1>1, <1>3 DEF Reported, Uses, FunctionsDefined, LockFunctions, TransactionCall, patching
  <2> QED BY <1>1, <1>3, <2>1 DEF CompileInv, PanicInv, ReportedInTwoModes, Uses, LevelSupported,
             RecognisedInv, Recognised, patching
<1> QED BY <1>4, <1>5, <1>6, <1>7 DEF CompileInv

\* A method is compiled without patches.
LEMMA UnpatchedKeeps ==
  ASSUME AnalysisInv, CompileInv, NEW d \in Bodies, OptimizedMirUnpatched(d)
  PROVE  CompileInv'
<1>1. /\ compiling = {} /\ d \in Bodies \ (Patchable \cup compiled) /\ compiled' = compiled \cup {d}
      /\ UNCHANGED <<vars, level, lang_items, mir, compiling, set_index, patch_todo, patch_map, panicked>>
  BY DEF OptimizedMirUnpatched
<1>2. compiled' \cap Patchable = compiled \cap Patchable
  BY <1>1
<1>3. CompileTypeOK'
  <2>1. TypeOK'
    BY <1>1 DEF TypeOK, vars, AnalysisInv
  <2> QED BY <1>1, <2>1 DEF CompileInv, CompileTypeOK
<1>4. PatchLoopInv' /\ PatchMapInv'
  BY <1>1, <1>2, SameSets DEF CompileInv, PatchLoopInv, PatchMapInv
<1>5. MirInv'
  BY <1>1, <1>2, SameSets DEF CompileInv, MirInv
<1>6. UnlockMatchesLock' /\ PanicInv' /\ RecognisedInv'
  BY <1>1, SameSets DEF CompileInv, UnlockMatchesLock, PanicInv
<1> QED BY <1>3, <1>4, <1>5, <1>6 DEF CompileInv

\* make_patches starts with the first conflict set of the list.
LEMMA MakePatchesForKeeps ==
  ASSUME AnalysisInv, CompileInv, NEW d \in Bodies, MakePatchesFor(d)
  PROVE  CompileInv'
<1>1. /\ pc = "done" /\ d \in Patchable \ compiled /\ compiling' = {d}
      /\ set_index' = 0 /\ patch_todo' = {} /\ patch_map' = <<>>
      /\ UNCHANGED <<vars, level, lang_items, mir, compiled, panicked>>
  BY DEF MakePatchesFor
<1>2. DOMAIN patch_map' = {}
  BY <1>1
<1>3. CompileTypeOK'
  <2>1. TypeOK'
    BY <1>1 DEF TypeOK, vars, AnalysisInv
  <2> QED BY <1>1, <1>2, <2>1 DEF CompileInv, CompileTypeOK
<1>4. PatchLoopInv'
  BY <1>1, SameSets, SetFacts DEF PatchLoopInv
<1>5. PatchMapInv'
  <2>1. \A i \in Sets : \A t : ~Handled(i, t)'
    BY <1>1, SetFacts DEF Handled, Sets
  <2> QED BY <1>1, <1>2, <2>1, SameSets DEF PatchMapInv
<1>6. MirInv'
  BY <1>1, SameSets DEF CompileInv, MirInv
<1>7. UnlockMatchesLock' /\ PanicInv' /\ RecognisedInv'
  BY <1>1, SameSets DEF CompileInv, UnlockMatchesLock, PanicInv
<1> QED BY <1>3, <1>4, <1>5, <1>6, <1>7 DEF CompileInv

\* make_patches goes on to the next conflict set, under the next number.
LEMMA NextConflictSetKeeps ==
  ASSUME AnalysisInv, CompileInv, NextConflictSet
  PROVE  CompileInv'
<1>1. /\ compiling # {} /\ panicked = "no" /\ patch_todo = {} /\ set_index < Len(conflict_sets)
      /\ set_index' = set_index + 1 /\ patch_todo' = conflict_sets[set_index + 1]
      /\ UNCHANGED <<vars, level, lang_items, mir, compiled, compiling, patch_map, panicked>>
  BY DEF NextConflictSet
<1>2. set_index \in Nat /\ set_index' \in Sets
  BY <1>1, SetFacts DEF CompileInv, CompileTypeOK, Sets
<1>3. CompileTypeOK'
  <2>1. TypeOK'
    BY <1>1 DEF TypeOK, vars, AnalysisInv
  <2> QED BY <1>1, <1>2, <2>1, SetFacts DEF CompileInv, CompileTypeOK
<1>4. PatchLoopInv'
  BY <1>1, <1>2, SameSets, SetFacts DEF CompileInv, PatchLoopInv, Sets
<1>5. PatchMapInv'
  <2>1. ASSUME NEW i \in Sets, NEW t \in conflict_sets[i]
        PROVE  Handled(i, t)' <=> Handled(i, t)
    BY <1>1, <1>2, SetFacts DEF Handled, Sets
  <2> QED BY <1>1, <2>1, SameSets DEF CompileInv, PatchMapInv
<1>6. MirInv'
  BY <1>1, SameSets DEF CompileInv, MirInv
<1>7. UnlockMatchesLock' /\ PanicInv' /\ RecognisedInv'
  BY <1>1, SameSets DEF CompileInv, UnlockMatchesLock, PanicInv
<1> QED BY <1>3, <1>4, <1>5, <1>6, <1>7 DEF CompileInv

\* The transaction is handled: its calls are added, no others are touched.
LEMMA PatchKeepsMap ==
  ASSUME AnalysisInv, CompileInv, NEW t \in Transaction, PatchTransaction(t),
         LevelSupported, FunctionsDefined(t), <<t.site, "lock">> \notin DOMAIN patch_map
  PROVE  /\ PatchMapInv'
         /\ \A x \in DOMAIN patch_map' : x \in Terminators /\ patch_map'[x] \in Call
<1>1. /\ compiling # {} /\ panicked = "no" /\ t \in patch_todo /\ patch_todo' = patch_todo \ {t}
      /\ patch_map' = Merge(NewPatches(t), patch_map)
      /\ UNCHANGED <<vars, level, lang_items, mir, compiled, compiling, set_index>>
  BY DEF PatchTransaction
<1>2. /\ set_index \in Sets /\ set_index \in Nat \ {0}
      /\ t \in conflict_sets[set_index]
  BY <1>1, SetFacts DEF CompileInv, CompileTypeOK, PatchLoopInv, Sets
<1>3. /\ DOMAIN NewPatches(t) = {<<t.site, "lock">>, <<t.site, "unlock">>}
      /\ NewPatches(t)[<<t.site, "lock">>] = LockCall(set_index, t)
      /\ NewPatches(t)[<<t.site, "unlock">>] = UnlockCall(set_index, t)
      /\ \A x \in DOMAIN NewPatches(t) : x \in Terminators /\ NewPatches(t)[x] \in Call
  BY <1>2, NewPatchesFacts
<1>4. /\ DOMAIN patch_map' = DOMAIN patch_map \cup {<<t.site, "lock">>, <<t.site, "unlock">>}
      /\ patch_map'[<<t.site, "lock">>] = LockCall(set_index, t)
      /\ patch_map'[<<t.site, "unlock">>] = UnlockCall(set_index, t)
      /\ \A x \in DOMAIN patch_map : x[1] # t.site => patch_map'[x] = patch_map[x]
      /\ \A x \in DOMAIN patch_map' :
            \/ x \in DOMAIN NewPatches(t) /\ patch_map'[x] = NewPatches(t)[x]
            \/ x \in DOMAIN patch_map /\ patch_map'[x] = patch_map[x]
  BY <1>1, <1>3 DEF Merge
<1>5. \A x \in DOMAIN patch_map' : x \in Terminators /\ patch_map'[x] \in Call
  BY <1>3, <1>4 DEF CompileInv, CompileTypeOK
<1>6. \A i \in Sets : \A u : Handled(i, u)' <=> Handled(i, u) \/ (i = set_index /\ u = t)
  BY <1>1, <1>2, SetFacts DEF Handled, Sets
<1>7. \A i \in Sets : \A u \in conflict_sets[i] : Handled(i, u) =>
        /\ <<u.site, "lock">> \in DOMAIN patch_map
        /\ <<u.site, "unlock">> \in DOMAIN patch_map
        /\ patch_map[<<u.site, "lock">>] = LockCall(i, u)
        /\ patch_map[<<u.site, "unlock">>] = UnlockCall(i, u)
        /\ u.site # t.site /\ FunctionsDefined(u)
  BY <1>1 DEF CompileInv, PatchMapInv
<1>8. ASSUME NEW i \in Sets, NEW u \in conflict_sets[i], Handled(i, u)'
      PROVE  /\ FunctionsDefined(u)
             /\ <<u.site, "lock">> \in DOMAIN patch_map'
             /\ <<u.site, "unlock">> \in DOMAIN patch_map'
             /\ patch_map'[<<u.site, "lock">>] = LockCall(i, u)
             /\ patch_map'[<<u.site, "unlock">>] = UnlockCall(i, u)
  <2>1. CASE i = set_index /\ u = t
    BY <1>4, <2>1
  <2>2. CASE Handled(i, u)
    BY <1>4, <1>7, <2>2
  <2> QED BY <1>6, <1>8, <2>1, <2>2
<1>9. ASSUME NEW i \in Sets, NEW j \in Sets, NEW u \in conflict_sets[i], NEW v \in conflict_sets[j],
             Handled(i, u)', Handled(j, v)', u.site = v.site
      PROVE  u = v
  <2>1. CASE Handled(i, u) /\ Handled(j, v)
    BY <1>1, <1>9, <2>1 DEF CompileInv, PatchMapInv
  <2>2. CASE u = t /\ v = t
    BY <2>2
  <2>3. CASE u = t /\ Handled(j, v)
    BY <1>7, <1>9, <2>3
  <2>4. CASE Handled(i, u) /\ v = t
    BY <1>7, <1>9, <2>4
  <2> QED BY <1>6, <1>9, <2>1, <2>2, <2>3, <2>4
<1>10. ASSUME NEW x \in DOMAIN patch_map'
       PROVE  \E i \in Sets : \E u \in conflict_sets[i] : Handled(i, u)' /\ x[1] = u.site
  <2>1. CASE x \in {<<t.site, "lock">>, <<t.site, "unlock">>}
    BY <1>2, <1>6, <2>1
  <2>2. CASE x \in DOMAIN patch_map
    BY <1>1, <1>6, <2>2 DEF CompileInv, PatchMapInv
  <2> QED BY <1>4, <2>1, <2>2
<1>11. PatchMapInv'
  BY <1>1, <1>8, <1>9, <1>10, SameSets DEF PatchMapInv
<1> QED BY <1>5, <1>11

\* The assertion of patch_terminator fails: the block was handled in the other
\* mode before.
LEMMA PatchedTwiceExplained ==
  ASSUME AnalysisInv, CompileInv, NEW t \in Transaction, PatchTransaction(t),
         <<t.site, "lock">> \in DOMAIN patch_map
  PROVE  ReportedInTwoModes
<1>1. /\ compiling # {} /\ panicked = "no" /\ t \in patch_todo
  BY DEF PatchTransaction
<1>2. set_index \in Sets /\ t \in conflict_sets[set_index] /\ pc = "done"
  BY <1>1 DEF CompileInv, PatchLoopInv
<1>3. PICK i \in Sets : \E u \in conflict_sets[i] : Handled(i, u) /\ t.site = u.site
  BY <1>1 DEF CompileInv, PatchMapInv
<1>4. PICK u \in conflict_sets[i] : Handled(i, u) /\ t.site = u.site
  BY <1>3
<1>5. i \in Nat /\ set_index \in Nat
  BY <1>2, SetFacts DEF Sets
<1>6. u # t
  <2>1. ~Handled(set_index, t)
    BY <1>1, <1>5 DEF Handled
  <2>2. u = t => i = set_index
    BY <1>2, SetFacts
  <2> QED BY <1>4, <2>1, <2>2
<1>7. t \in Transaction /\ u \in Transaction
  BY SetFacts
<1>8. /\ t = [site |-> t.site, is_write |-> t.is_write] /\ t.site \in Sites /\ t.is_write \in BOOLEAN
      /\ u = [site |-> u.site, is_write |-> u.is_write] /\ u.is_write \in BOOLEAN
  BY <1>7 DEF Transaction
<1>9. \A w \in BOOLEAN : [site |-> t.site, is_write |-> w] \in {t, u}
  BY <1>4, <1>6, <1>8
<1>10. \A x \in {t, u} : \E o \in Objects : Uses(x, o)
  BY <1>2, ResultFacts
<1> QED BY <1>8, <1>9, <1>10 DEF ReportedInTwoModes

\* Only at level 2 is there no function to call.
LEMMA NotDefinedExplained ==
  ASSUME AnalysisInv, CompileInv, NEW t \in Transaction, PatchTransaction(t),
         LevelSupported, ~FunctionsDefined(t)
  PROVE  level = 2 /\ Reported(t)
<1>1. /\ compiling # {} /\ panicked = "no" /\ t \in patch_todo
  BY DEF PatchTransaction
<1>2. set_index \in Sets /\ t \in conflict_sets[set_index] /\ pc = "done"
  BY <1>1 DEF CompileInv, PatchLoopInv
<1>3. Reported(t)
  BY <1>2, ResultFacts DEF Reported
<1>4. allocation_sets # <<>>
  BY <1>3 DEF Reported, Uses
<1>5. ASSUME level = 1 PROVE FALSE
  <2>1. LockFunctions(t.is_write) \subseteq {"transaction_lock", "transaction_unlock"}
    BY <1>5 DEF LockFunctions, TransactionCall
  <2> QED BY <1>4, <2>1 DEF FunctionsDefined, CompileInv, RecognisedInv, Recognised
<1> QED BY <1>3, <1>5 DEF LevelSupported

\* make_patches patches the two calls of one transaction, or panics.
LEMMA PatchTransactionKeeps ==
  ASSUME AnalysisInv, CompileInv, NEW t \in Transaction, PatchTransaction(t)
  PROVE  CompileInv'
<1>1. /\ compiling # {} /\ panicked = "no" /\ t \in patch_todo /\ patch_todo' = patch_todo \ {t}
      /\ UNCHANGED <<vars, level, lang_items, mir, compiled, compiling, set_index>>
  BY DEF PatchTransaction
<1>2. TypeOK'
  BY <1>1 DEF TypeOK, vars, AnalysisInv
<1>3. PatchLoopInv'
  BY <1>1, SameSets DEF CompileInv, PatchLoopInv
<1>4. MirInv'
  BY <1>1, SameSets DEF CompileInv, MirInv
<1>5. UnlockMatchesLock'
  BY <1>1 DEF CompileInv, UnlockMatchesLock
<1>10. RecognisedInv'
  BY <1>1, SameSets DEF CompileInv
<1>6. CASE ~LevelSupported
  <2>1. panicked' = "level" /\ patch_map' = patch_map
    BY <1>6 DEF PatchTransaction
  <2>2. CompileTypeOK'
    BY <1>1, <1>2, <2>1 DEF CompileInv, CompileTypeOK
  <2>3. PatchMapInv' /\ PanicInv'
    BY <1>1, <1>6, <2>1, SameSets DEF PatchMapInv, PanicInv
  <2> QED BY <1>3, <1>4, <1>5, <1>10, <2>2, <2>3 DEF CompileInv
<1>9. CASE LevelSupported /\ ~FunctionsDefined(t)
  <2>1. panicked' = "not defined" /\ patch_map' = patch_map
    BY <1>9 DEF PatchTransaction
  <2>2. CompileTypeOK'
    BY <1>1, <1>2, <2>1 DEF CompileInv, CompileTypeOK
  <2>3. level = 2 /\ Reported(t)
    BY <1>1, <1>9, NotDefinedExplained
  <2>4. PatchMapInv' /\ PanicInv'
    BY <1>1, <1>9, <2>1, <2>3, SameSets DEF PatchMapInv, PanicInv
  <2> QED BY <1>3, <1>4, <1>5, <1>10, <2>2, <2>4 DEF CompileInv
<1>7. CASE LevelSupported /\ FunctionsDefined(t) /\ <<t.site, "lock">> \in DOMAIN patch_map
  <2>1. panicked' = "patched twice" /\ patch_map' = patch_map
    BY <1>7 DEF PatchTransaction
  <2>2. CompileTypeOK'
    BY <1>1, <1>2, <2>1 DEF CompileInv, CompileTypeOK
  <2>3. PatchMapInv' /\ PanicInv'
    BY <1>1, <1>7, <2>1, SameSets, PatchedTwiceExplained DEF PatchMapInv, PanicInv
  <2> QED BY <1>3, <1>4, <1>5, <1>10, <2>2, <2>3 DEF CompileInv
<1>8. CASE LevelSupported /\ FunctionsDefined(t) /\ <<t.site, "lock">> \notin DOMAIN patch_map
  <2>1. panicked' = "no"
    BY <1>8 DEF PatchTransaction
  <2>2. PatchMapInv' /\ \A x \in DOMAIN patch_map' : x \in Terminators /\ patch_map'[x] \in Call
    BY <1>8, PatchKeepsMap
  <2>3. CompileTypeOK'
    BY <1>1, <1>2, <2>1, <2>2 DEF CompileInv, CompileTypeOK
  <2>4. PanicInv'
    BY <2>1 DEF PanicInv
  <2> QED BY <1>3, <1>4, <1>5, <1>10, <2>2, <2>3, <2>4 DEF CompileInv
<1> QED BY <1>6, <1>7, <1>8, <1>9

\* All loops are done: every conflict set is handled, for the whole crate.
LEMMA AllHandled ==
  ASSUME AnalysisInv, CompileInv, ApplyPatch
  PROVE  /\ \A i \in Sets : \A t : Handled(i, t)
         /\ CanBePatched
<1>1. /\ compiling # {} /\ panicked = "no" /\ patch_todo = {} /\ set_index >= Len(conflict_sets)
      /\ set_index \in Nat
  BY DEF ApplyPatch, CompileInv, CompileTypeOK
<1>2. \A i \in Sets : \A t : Handled(i, t)
  BY <1>1, SetFacts DEF Handled, Sets
<1>3. \A i, j \in Sets : \A t \in conflict_sets[i], u \in conflict_sets[j] :
        t.site = u.site => t = u
  BY <1>1, <1>2 DEF CompileInv, PatchMapInv
<1>4. ASSUME conflict_sets # <<>> PROVE LevelSupported
  <2>1. 1 \in Sets
    <3>1. Len(conflict_sets) # 0
      BY <1>4, EmptySeq DEF AnalysisInv, TypeOK
    <3> QED BY <3>1, SetFacts DEF Sets
  <2>2. PICK t \in conflict_sets[1] : TRUE
    BY <2>1, SetFacts
  <2> QED BY <1>1, <1>2, <2>1, <2>2 DEF CompileInv, PatchMapInv
<1>5. \A i \in Sets : \A t \in conflict_sets[i] : FunctionsDefined(t)
  BY <1>1, <1>2 DEF CompileInv, PatchMapInv
<1> QED BY <1>2, <1>3, <1>4, <1>5 DEF CanBePatched

\* optimized_mir applies the patches to the body.
LEMMA ApplyPatchKeeps ==
  ASSUME AnalysisInv, CompileInv, ApplyPatch
  PROVE  CompileInv'
<1>1. /\ compiling # {} /\ panicked = "no" /\ mir' = Applied
      /\ compiled' = compiled \cup compiling /\ compiling' = {}
      /\ UNCHANGED <<vars, level, lang_items, set_index, patch_todo, patch_map, panicked>>
  BY DEF ApplyPatch
<1>2. \A x \in Terminators :
        mir'[x] = IF x \in DOMAIN patch_map /\ BodyOf[x[1]] \in compiling THEN patch_map[x] ELSE mir[x]
  BY <1>1 DEF Applied
<1>3. CompileTypeOK'
  <2>1. TypeOK'
    BY <1>1 DEF TypeOK, vars, AnalysisInv
  <2>2. mir' \in [Terminators -> Call]
    BY <1>1 DEF Applied, CompileInv, CompileTypeOK
  <2> QED BY <1>1, <2>1, <2>2, BodiesAssumption DEF CompileInv, CompileTypeOK
<1>4. PatchLoopInv' /\ PatchMapInv'
  BY <1>1, SameSets DEF CompileInv, PatchLoopInv, PatchMapInv
<1>5. PanicInv' /\ RecognisedInv'
  BY <1>1, SameSets DEF CompileInv, PanicInv
<1>6. ASSUME NEW i \in Sets, NEW t \in conflict_sets[i], BodyOf[t.site] \in compiled' \cap Patchable
      PROVE  mir'[<<t.site, "lock">>] = LockCall(i, t) /\ mir'[<<t.site, "unlock">>] = UnlockCall(i, t)
  <2>1. <<t.site, "lock">> \in Terminators /\ <<t.site, "unlock">> \in Terminators
    BY SetFacts DEF Terminators, Transaction
  <2>2. CASE BodyOf[t.site] \in compiling
    BY <1>1, <1>2, <2>1, <2>2, AllHandled DEF CompileInv, PatchMapInv
  <2>3. CASE BodyOf[t.site] \notin compiling
    BY <1>1, <1>2, <1>6, <2>1, <2>3 DEF CompileInv, MirInv
  <2> QED BY <2>2, <2>3
<1>7. MirInv'
  BY <1>1, <1>6, AllHandled, SameSets DEF MirInv
<1>8. ASSUME NEW s \in Sites
      PROVE  /\ mir'[<<s, "lock">>].arg = mir'[<<s, "unlock">>].arg
             /\ mir'[<<s, "unlock">>].func = UnlockOf[mir'[<<s, "lock">>].func]
  <2>1. <<s, "lock">> \in Terminators /\ <<s, "unlock">> \in Terminators
    BY DEF Terminators
  <2>2. CASE BodyOf[s] \in compiling /\ \E x \in DOMAIN patch_map : x[1] = s
    <3>0. PICK i \in Sets : \E t \in conflict_sets[i] : Handled(i, t) /\ s = t.site
      BY <1>1, <2>2 DEF CompileInv, PatchMapInv
    <3>1. PICK t \in conflict_sets[i] : Handled(i, t) /\ s = t.site
      BY <3>0
    <3>2. /\ LevelSupported
          /\ mir'[<<s, "lock">>] = LockCall(i, t)
          /\ mir'[<<s, "unlock">>] = UnlockCall(i, t)
      BY <1>1, <1>2, <2>1, <2>2, <3>1 DEF CompileInv, PatchMapInv
    <3>3. t \in Transaction /\ i \in Nat \ {0}
      BY SetFacts DEF Sets
    <3> QED BY <3>2, <3>3, CallFacts
  <2>3. CASE ~(BodyOf[s] \in compiling /\ \E x \in DOMAIN patch_map : x[1] = s)
    <3>1. mir'[<<s, "lock">>] = mir[<<s, "lock">>] /\ mir'[<<s, "unlock">>] = mir[<<s, "unlock">>]
      BY <1>2, <2>1, <2>3
    <3> QED BY <3>1 DEF CompileInv, UnlockMatchesLock
  <2> QED BY <2>2, <2>3
<1>9. UnlockMatchesLock'
  BY <1>8 DEF UnlockMatchesLock
<1> QED BY <1>3, <1>4, <1>5, <1>7, <1>9 DEF CompileInv

(* CompileInv holds whatever the compiler does, in whatever order.          *)
THEOREM CompileCorrect == CompileSpec => []CompileInv
<1>1. CompileInit /\ AnalysisInv => CompileInv
  <2> SUFFICES ASSUME CompileInit, AnalysisInv PROVE CompileInv
    OBVIOUS
  <2>1. CompileTypeOK
    BY BodiesAssumption DEF CompileInit, AnalysisInv, CompileTypeOK, Terminators, Call, LangItems
  <2>2. PatchLoopInv /\ PatchMapInv /\ MirInv /\ PanicInv /\ RecognisedInv
    BY DEF CompileInit, PatchLoopInv, PatchMapInv, MirInv, PanicInv, RecognisedInv
  <2>3. UnlockMatchesLock
    BY DEF CompileInit, UnlockMatchesLock, Terminators, UnlockOf
  <2> QED BY <2>1, <2>2, <2>3 DEF CompileInv
<1>2. AnalysisInv /\ AnalysisInv' /\ CompileInv /\ [CompileNext]_compile_vars => CompileInv'
  <2> SUFFICES ASSUME AnalysisInv, AnalysisInv', CompileInv, [CompileNext]_compile_vars
               PROVE  CompileInv'
    OBVIOUS
  <2>1. CASE ConflictAnalysisQuery
    BY <2>1, QueryKeeps
  <2>2. ASSUME NEW d \in Bodies, OptimizedMirUnpatched(d) PROVE CompileInv'
    BY <2>2, UnpatchedKeeps
  <2>3. ASSUME NEW d \in Bodies, MakePatchesFor(d) PROVE CompileInv'
    BY <2>3, MakePatchesForKeeps
  <2>4. CASE NextConflictSet
    BY <2>4, NextConflictSetKeeps
  <2>5. ASSUME NEW t \in Transaction, PatchTransaction(t) PROVE CompileInv'
    BY <2>5, PatchTransactionKeeps
  <2>6. CASE ApplyPatch
    BY <2>6, ApplyPatchKeeps
  <2>7. CASE UNCHANGED compile_vars
    <3>1. UNCHANGED <<vars, level, lang_items, mir, compiled, compiling, set_index, patch_todo, patch_map, panicked>>
      BY <2>7 DEF compile_vars, patching
    <3>2. TypeOK'
      BY DEF AnalysisInv
    <3>3. CompileTypeOK' /\ PatchLoopInv'
      BY <3>1, <3>2, SameSets DEF CompileInv, CompileTypeOK, PatchLoopInv
    <3>4. PatchMapInv'
      BY <3>1, SameSets DEF CompileInv, PatchMapInv, Handled
    <3>5. MirInv' /\ UnlockMatchesLock' /\ PanicInv' /\ RecognisedInv'
      BY <3>1, SameSets DEF CompileInv, MirInv, UnlockMatchesLock, PanicInv
    <3> QED BY <3>3, <3>4, <3>5 DEF CompileInv
  <2> QED BY <2>1, <2>2, <2>3, <2>4, <2>5, <2>6, <2>7 DEF CompileNext, CompileStep, CompileEnded
<1> QED BY <1>1, <1>2, AnalysisCorrect, PTL DEF CompileSpec

-----------------------------------------------------------------------------
(* The results.                                                             *)

(* The steps of make_patches and optimized_mir keep the shape of the state; *)
(* every patch is a call of a lang item of a terminator of the crate.       *)
THEOREM CompileTypes == CompileSpec => []CompileTypeOK
BY CompileCorrect, PTL DEF CompileInv

(* Whatever bodies have been compiled, a transaction block releases the     *)
(* lock it takes, in the mode in which it takes it.                         *)
THEOREM UnlocksMatch == CompileSpec => []UnlockMatchesLock
BY CompileCorrect, PTL DEF CompileInv

(* Blocks of different conflict sets in compiled functions and closures     *)
(* never take the same lock, though each body was numbered by a call of     *)
(* make_patches of its own.                                                 *)
THEOREM LocksDiffer == CompileSpec => []IndependentLocksDiffer
<1>1. AnalysisInv /\ CompileInv => IndependentLocksDiffer
  <2> SUFFICES ASSUME AnalysisInv, CompileInv,
                      NEW i \in DOMAIN conflict_sets, NEW j \in DOMAIN conflict_sets, i # j,
                      NEW s \in conflict_sets[i], NEW t \in conflict_sets[j],
                      BodyOf[s.site] \in compiled \cap Patchable,
                      BodyOf[t.site] \in compiled \cap Patchable
               PROVE  mir[<<s.site, "lock">>].arg # mir[<<t.site, "lock">>].arg
    BY DEF IndependentLocksDiffer
  <2>1. i \in Sets /\ j \in Sets /\ i \in Nat \ {0} /\ j \in Nat \ {0}
    BY SetFacts DEF Sets
  <2>2. mir[<<s.site, "lock">>] = LockCall(i, s) /\ mir[<<t.site, "lock">>] = LockCall(j, t)
    BY <2>1 DEF CompileInv, MirInv
  <2>3. LockCall(i, s).arg = i - 1 /\ LockCall(j, t).arg = j - 1
    BY DEF LockCall
  <2> QED BY <2>1, <2>2, <2>3
<1> QED BY <1>1, AnalysisCorrect, CompileCorrect, PTL

(* The compiler panics in make_patches only on a block reported in two      *)
(* modes, on a level other than 1 and 2 and, at level 2, on a reported mode *)
(* whose functions are not all defined, and in these cases it compiles no   *)
(* function or closure: transaction_call's panics, its expect()s and the    *)
(* assertion of patch_terminator have no other cause.                       *)
THEOREM PanicsAreExplained == CompileSpec => []PanicsExplained
<1>1. AnalysisInv /\ CompileInv => PanicsExplained
  <2> SUFFICES ASSUME AnalysisInv, CompileInv PROVE PanicsExplained
    OBVIOUS
  <2>1. ASSUME compiled \cap Patchable # {}, ReportedInTwoModes PROVE FALSE
    <3>1. pc = "done" /\ CanBePatched
      BY <2>1 DEF CompileInv, PatchLoopInv, MirInv
    <3>2. PICK s \in Sites :
                 \A w \in BOOLEAN : \E o \in Objects : Uses([site |-> s, is_write |-> w], o)
      BY <2>1 DEF ReportedInTwoModes
    <3> DEFINE r == [site |-> s, is_write |-> FALSE]
               t == [site |-> s, is_write |-> TRUE]
    <3>3. r \in Transaction /\ t \in Transaction /\ r.site = t.site /\ r # t
      BY DEF Transaction
    <3>4. (\E o \in Objects : Uses(r, o)) /\ (\E o \in Objects : Uses(t, o))
      BY <3>2
    <3> HIDE DEF r, t
    <3>5. (\E i \in Sets : r \in conflict_sets[i]) /\ (\E j \in Sets : t \in conflict_sets[j])
      BY <3>1, <3>3, <3>4, ResultFacts
    <3> QED BY <3>1, <3>3, <3>5 DEF CanBePatched
  <2>2. compiled \cap Patchable # {} => (conflict_sets # <<>> => LevelSupported)
    BY DEF CompileInv, MirInv, CanBePatched
  <2>3. ASSUME compiled \cap Patchable # {}, NEW t \in Transaction, Reported(t)
        PROVE  FunctionsDefined(t)
    <3>1. pc = "done" /\ CanBePatched
      BY <2>3 DEF CompileInv, PatchLoopInv, MirInv
    <3>2. PICK i \in Sets : t \in conflict_sets[i]
      BY <2>3, <3>1, ResultFacts DEF Reported
    <3> QED BY <3>1, <3>2 DEF CanBePatched
  <2> QED BY <2>1, <2>2, <2>3 DEF CompileInv, PanicInv, PanicsExplained
<1> QED BY <1>1, AnalysisCorrect, CompileCorrect, PTL

\* Every block that uses a shared object is in a function or a closure, which
\* make_patches answers for (it passes over methods).
SharersArePatchable ==
  \A s \in Sites : (\E o \in Objects : SiteUses(s, o)) => BodyOf[s] \in Patchable

\* The calls of a compiled block that uses an object.
LEMMA SiteCalls ==
  ASSUME AnalysisInv, CompileInv, NEW s \in Sites, BodyOf[s] \in compiled \cap Patchable,
         NEW t \in Transaction, t.site = s, NEW o \in Objects, Uses(t, o)
  PROVE  /\ LevelSupported
         /\ \E i \in Sets : t \in conflict_sets[i] /\ mir[<<s, "lock">>] = LockCall(i, t)
<1>1. pc = "done" /\ CanBePatched
  BY DEF CompileInv, PatchLoopInv, MirInv
<1>2. PICK i \in Sets : t \in conflict_sets[i]
  BY <1>1, ResultFacts
<1>3. conflict_sets # <<>>
  <2>1. Len(conflict_sets) # 0
    BY <1>2, SetFacts DEF Sets
  <2> QED BY <2>1, EmptySeq
<1>4. mir[<<s, "lock">>] = LockCall(i, t)
  BY <1>2 DEF CompileInv, MirInv
<1> QED BY <1>1, <1>2, <1>3, <1>4 DEF CanBePatched

\* Before its statements a block calls one of the functions that take a lock.
LocksAreLocks == \A s \in Sites : mir[<<s, "lock">>].func \in DOMAIN UnlockOf

\* The terminator that locks a block is a call of a lock function.
LEMMA LocksLock == CompileSpec => []LocksAreLocks
<1>1. CompileInit => LocksAreLocks
  BY DEF CompileInit, LocksAreLocks, Terminators, UnlockOf
<1>2. CompileInv /\ LocksAreLocks /\ [CompileNext]_compile_vars => LocksAreLocks'
  <2> SUFFICES ASSUME CompileInv, LocksAreLocks, [CompileNext]_compile_vars
               PROVE  LocksAreLocks'
    OBVIOUS
  <2>1. CASE ApplyPatch
    <3> SUFFICES ASSUME NEW s \in Sites PROVE mir'[<<s, "lock">>].func \in DOMAIN UnlockOf
      BY DEF LocksAreLocks
    <3> DEFINE x == <<s, "lock">>
    <3>1. compiling # {} /\ panicked = "no" /\ mir' = Applied /\ x \in Terminators
      BY <2>1 DEF ApplyPatch, Terminators
    <3>2. CASE x \in DOMAIN patch_map /\ BodyOf[x[1]] \in compiling
      <4>1. PICK i \in Sets : \E t \in conflict_sets[i] : Handled(i, t) /\ x[1] = t.site
        BY <3>1, <3>2 DEF CompileInv, PatchMapInv
      <4>2. PICK t \in conflict_sets[i] : Handled(i, t) /\ x[1] = t.site
        BY <4>1
      <4>3. LevelSupported /\ patch_map[x] = LockCall(i, t)
        BY <3>1, <4>2 DEF CompileInv, PatchMapInv
      <4>4. patch_map[x].func = TransactionCall(TRUE, t.is_write)
        BY <4>3 DEF LockCall
      <4>5. TransactionCall(TRUE, t.is_write) \in DOMAIN UnlockOf
        BY <4>3 DEF TransactionCall, LevelSupported, UnlockOf
      <4> QED BY <3>1, <3>2, <4>4, <4>5 DEF Applied
    <3>3. CASE ~(x \in DOMAIN patch_map /\ BodyOf[x[1]] \in compiling)
      BY <3>1, <3>3 DEF Applied, LocksAreLocks
    <3> QED BY <3>2, <3>3
  <2>2. CASE ~ApplyPatch
    <3>1. mir' = mir
      BY <2>2 DEF CompileNext, CompileStep, CompileEnded, ConflictAnalysisQuery,
                  OptimizedMirUnpatched, MakePatchesFor, NextConflictSet, PatchTransaction,
                  compile_vars, patching
    <3> QED BY <3>1 DEF LocksAreLocks
  <2> QED BY <2>1, <2>2
<1> QED BY <1>1, <1>2, CompileCorrect, PTL DEF CompileSpec

(* If no method uses a shared object in a transaction, any two compiled     *)
(* blocks that use a common object take the same lock, whatever order the   *)
(* hash maps and the compilation of bodies had.                             *)
THEOREM SharersOneLock == CompileSpec => [](SharersArePatchable => SharersTakeOneLock)
<1>1. AnalysisInv /\ CompileInv => (SharersArePatchable => SharersTakeOneLock)
  <2> SUFFICES ASSUME AnalysisInv, CompileInv, SharersArePatchable,
                      NEW s \in Sites, NEW t \in Sites,
                      BodyOf[s] \in compiled, BodyOf[t] \in compiled,
                      NEW o \in Objects, SiteUses(s, o), SiteUses(t, o)
               PROVE  mir[<<s, "lock">>].arg = mir[<<t, "lock">>].arg
    BY DEF SharersTakeOneLock
  <2>1. BodyOf[s] \in compiled \cap Patchable /\ BodyOf[t] \in compiled \cap Patchable
    BY DEF SharersArePatchable
  <2>2. PICK x \in Transaction : x.site = s /\ Uses(x, o)
    BY DEF SiteUses
  <2>3. PICK y \in Transaction : y.site = t /\ Uses(y, o)
    BY DEF SiteUses
  <2>4. pc = "done"
    BY <2>1 DEF CompileInv, PatchLoopInv
  <2>5. PICK i \in Sets : x \in conflict_sets[i] /\ y \in conflict_sets[i]
    BY <2>2, <2>3, <2>4, ResultFacts
  <2>6. mir[<<s, "lock">>] = LockCall(i, x) /\ mir[<<t, "lock">>] = LockCall(i, y)
    BY <2>1, <2>2, <2>3, <2>5 DEF CompileInv, MirInv
  <2> QED BY <2>6 DEF LockCall
<1> QED BY <1>1, AnalysisCorrect, CompileCorrect, PTL
=============================================================================
