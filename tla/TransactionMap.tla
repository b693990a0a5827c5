---------------------------- MODULE TransactionMap ----------------------------
(***************************************************************************)
(* Which calls of a body are inside which transaction                      *)
(* (librustc_mir/transform/transaction/transaction_map.rs), with the       *)
(* traversal it uses (librustc/mir/traversal.rs).                          *)
(*                                                                         *)
(* `perform` collects the blocks of the body in postorder, visits their    *)
(* terminators in the reverse order with one variable, transaction_id, for *)
(* the lock call last seen, and finally pairs every call seen under a lock *)
(* with that lock and its unlock.                                          *)
(*                                                                         *)
(* A block is its terminator: what a statement does is of no interest      *)
(* here.  The UniqueId of a call is the block that ends with it.  Cleanup  *)
(* blocks, which the unwind edges of calls lead to, end with no call and   *)
(* lead back to no other block; they are left out.                         *)
(***************************************************************************)
EXTENDS Naturals, Sequences, FiniteSets, SequencesExt

CONSTANTS
  Bodies,     \* records [start, term, succ]: control-flow graphs
  OuterLock,  \* UniqueIds of the lock and unlock calls of a transaction in
  OuterUnlock,\* a caller, from which this body is called
  Seeds,      \* body -> values of new_child's transaction_ids: {} or {OuterLock}
  Inherited,  \* body -> values of its argument terminator_to_tx
  LeftAtTheEnd\* bodies whose transactions, and loops in them, are left at the
              \* end or at the head only

\* What ends a block: a lock or unlock call, another call of a function that
\* returns, or anything else.
Kinds == {"lock", "unlock", "call", "other"}

VARIABLES
  body,               \* the body under analysis; never changes
  seed,               \* transaction_ids: the caller's transaction, at most one
  pc,                 \* "postorder", "visit", "merge", "done" or "panic"
  visited,            \* Postorder.visited
  visit_stack,        \* Postorder.visit_stack: <<block, successors left>>
  blocks,             \* ReversePostorder.blocks: the postorder so far
  idx,                \* ReversePostorder.idx
  transaction_id,     \* the lock call we are under: at most one
  terminator_to_lock, \* call -> lock, a partial function
  lock_to_unlock,     \* lock -> unlock, a partial function
  terminator_to_tx,   \* call -> <<lock, unlock>>, a partial function
  merge_todo,         \* keys of terminator_to_lock the last loop has not seen
  double_unlock       \* the warning "double unlock!" has been given

input == <<body, seed>>
traversal == <<visited, visit_stack, blocks>>
maps == <<transaction_id, terminator_to_lock, lock_to_unlock, terminator_to_tx>>
map_vars == <<input, pc, traversal, idx, maps, merge_todo, double_unlock>>

BlocksOf(b) == DOMAIN b.term

ASSUME BodiesAssumption ==
  \A b \in Bodies :
    /\ b.start \in BlocksOf(b)
    /\ b.term \in [BlocksOf(b) -> Kinds]
    /\ b.succ \in [BlocksOf(b) -> Seq(BlocksOf(b))]
    /\ Seeds[b] \subseteq {{}, {OuterLock}}
    /\ \A m \in Inherited[b] : DOMAIN m \subseteq BlocksOf(b)

Put(f, x, y) == [z \in DOMAIN f \cup {x} |-> IF z = x THEN y ELSE f[z]]

-----------------------------------------------------------------------------
PostorderInit ==
  /\ visited = {body.start}
  /\ visit_stack = <<<<body.start, body.succ[body.start]>>>>
  /\ blocks = <<>>

(* TransactionMap::new (no seed) and new_child; `perform` makes a Postorder. *)
MapInit ==
  /\ body \in Bodies
  /\ seed \in Seeds[body]
  /\ pc = "postorder"
  /\ PostorderInit
  /\ idx = 0
  /\ transaction_id = seed
  /\ terminator_to_lock = <<>>
  /\ lock_to_unlock = [l \in seed |-> OuterUnlock]
  /\ terminator_to_tx \in Inherited[body]
  /\ merge_todo = {}
  /\ double_unlock = FALSE

\* Mutant: a block is pushed once for every edge from a block that is not on
\* its own path.
PushAgain ==
  /\ pc = "postorder" /\ visit_stack # <<>> /\ Last(visit_stack)[2] # <<>>
  /\ LET top == Last(visit_stack)
         bb == Head(top[2])
         rest == Append(Front(visit_stack), <<top[1], Tail(top[2])>>)
     IN /\ visited' = visited \cup {bb}
        /\ visit_stack' = IF bb \in {x[1] : x \in ToSet(visit_stack)}
                            THEN rest ELSE Append(rest, <<bb, body.succ[bb]>>)
  /\ UNCHANGED <<input, pc, blocks, idx, maps, merge_todo, double_unlock>>

\* Mutant: the successors of a block are marked when it is pushed.
MarkSuccessors ==
  /\ pc = "postorder" /\ visit_stack # <<>> /\ Last(visit_stack)[2] # <<>>
  /\ LET top == Last(visit_stack)
         bb == Head(top[2])
         rest == Append(Front(visit_stack), <<top[1], Tail(top[2])>>)
     IN /\ visited' = visited \cup {bb} \cup ToSet(body.succ[bb])
        /\ visit_stack' = IF bb \in visited THEN rest ELSE Append(rest, <<bb, body.succ[bb]>>)
  /\ UNCHANGED <<input, pc, blocks, idx, maps, merge_todo, double_unlock>>

(* One iteration of traverse_successor: the next successor of the block on  *)
(* top is pushed unless it has been visited.                                *)
TraverseSuccessor ==
  /\ pc = "postorder" /\ visit_stack # <<>> /\ Last(visit_stack)[2] # <<>>
  /\ LET top == Last(visit_stack)
         bb == Head(top[2])
         rest == Append(Front(visit_stack), <<top[1], Tail(top[2])>>)
     IN /\ visited' = visited \cup {bb}
        /\ visit_stack' = IF bb \in visited THEN rest ELSE Append(rest, <<bb, body.succ[bb]>>)
  /\ UNCHANGED <<input, pc, blocks, idx, maps, merge_todo, double_unlock>>

(* Postorder::next: the block on top has no successor left and is yielded.  *)
NextInPostorder ==
  /\ pc = "postorder" /\ visit_stack # <<>> /\ Last(visit_stack)[2] = <<>>
  /\ blocks' = Append(blocks, Last(visit_stack)[1])
  /\ visit_stack' = Front(visit_stack)
  /\ UNCHANGED <<input, pc, visited, idx, maps, merge_todo, double_unlock>>

PostorderDone ==
  /\ pc = "postorder" /\ visit_stack = <<>>
  /\ pc' = "visit"
  /\ idx' = Len(blocks)
  /\ UNCHANGED <<input, traversal, maps, merge_todo, double_unlock>>

-----------------------------------------------------------------------------
(* ReversePostorder::next, and visit_terminator on the block it returns.    *)
Visiting(kind) ==
  /\ pc = "visit" /\ idx > 0
  /\ body.term[blocks[idx]] = kind
  /\ idx' = idx - 1
  /\ UNCHANGED <<input, pc, traversal, merge_todo>>

VisitLock ==
  /\ Visiting("lock")
  /\ transaction_id' = {blocks[idx]}
  /\ UNCHANGED <<terminator_to_lock, lock_to_unlock, terminator_to_tx, double_unlock>>

\* Mutant: transaction_id is not reset.
KeepTransaction ==
  /\ Visiting("unlock")
  /\ transaction_id # {}
  /\ \E lock \in transaction_id : lock_to_unlock' = Put(lock_to_unlock, lock, blocks[idx])
  /\ UNCHANGED <<transaction_id, terminator_to_lock, terminator_to_tx, double_unlock>>

VisitUnlock ==
  /\ Visiting("unlock")
  /\ transaction_id # {}
  /\ \E lock \in transaction_id : lock_to_unlock' = Put(lock_to_unlock, lock, blocks[idx])
  /\ transaction_id' = {}
  /\ UNCHANGED <<terminator_to_lock, terminator_to_tx, double_unlock>>

DoubleUnlock ==
  /\ Visiting("unlock")
  /\ transaction_id = {}
  /\ double_unlock' = TRUE
  /\ UNCHANGED maps

VisitCall ==
  /\ Visiting("call")
  /\ terminator_to_lock' =
       IF transaction_id = {} THEN terminator_to_lock
       ELSE Put(terminator_to_lock, blocks[idx], CHOOSE lock \in transaction_id : TRUE)
  /\ UNCHANGED <<transaction_id, lock_to_unlock, terminator_to_tx, double_unlock>>

VisitOther == Visiting("other") /\ UNCHANGED <<maps, double_unlock>>

VisitDone ==
  /\ pc = "visit" /\ idx = 0
  /\ pc' = "merge"
  /\ merge_todo' = DOMAIN terminator_to_lock
  /\ UNCHANGED <<input, traversal, idx, maps, double_unlock>>

\* Mutant: what the caller knew about the call is kept.
KeepInherited(term) ==
  /\ pc = "merge" /\ term \in merge_todo
  /\ merge_todo' = merge_todo \ {term}
  /\ LET lock == terminator_to_lock[term]
     IN \/ /\ lock \in DOMAIN lock_to_unlock
           /\ terminator_to_tx' =
                IF term \in DOMAIN terminator_to_tx THEN terminator_to_tx
                ELSE Put(terminator_to_tx, term, <<lock, lock_to_unlock[lock]>>)
           /\ pc' = pc
        \/ /\ lock \notin DOMAIN lock_to_unlock
           /\ pc' = "panic"
           /\ UNCHANGED terminator_to_tx
  /\ UNCHANGED <<input, traversal, idx, transaction_id, terminator_to_lock, lock_to_unlock,
                 double_unlock>>

\* Mutant: the loop does not advance.
RetryMerge(term) ==
  /\ pc = "merge" /\ term \in merge_todo
  /\ terminator_to_lock[term] \in DOMAIN lock_to_unlock
  /\ UNCHANGED map_vars

(* The last loop of `perform`; `.get(lock).unwrap()` panics when the lock   *)
(* has no unlock.                                                           *)
MergeTerminator(term) ==
  /\ pc = "merge" /\ term \in merge_todo
  /\ merge_todo' = merge_todo \ {term}
  /\ LET lock == terminator_to_lock[term]
     IN \/ /\ lock \in DOMAIN lock_to_unlock
           /\ terminator_to_tx' = Put(terminator_to_tx, term, <<lock, lock_to_unlock[lock]>>)
           /\ pc' = pc
        \/ /\ lock \notin DOMAIN lock_to_unlock
           /\ pc' = "panic"
           /\ UNCHANGED terminator_to_tx
  /\ UNCHANGED <<input, traversal, idx, transaction_id, terminator_to_lock, lock_to_unlock,
                 double_unlock>>

MergeDone ==
  /\ pc = "merge" /\ merge_todo = {}
  /\ pc' = "done"
  /\ UNCHANGED <<input, traversal, idx, maps, merge_todo, double_unlock>>

MapStep ==
  \/ TraverseSuccessor \/ NextInPostorder \/ PostorderDone
  \/ VisitLock \/ VisitUnlock \/ DoubleUnlock \/ VisitCall \/ VisitOther \/ VisitDone
  \/ \E term \in BlocksOf(body) : MergeTerminator(term)
  \/ MergeDone

MapEnded == pc \in {"done", "panic"} /\ UNCHANGED map_vars

MapNext == MapStep \/ MapEnded

MapSpec == MapInit /\ [][MapNext]_map_vars

(* `perform` runs to its end on the compiler's thread.                      *)
FairMapSpec == MapSpec /\ WF_map_vars(MapStep)

-----------------------------------------------------------------------------
(* What executions of the body do.                                          *)

\* <<block, lock>>: the block can be reached with that lock as the innermost
\* one taken and not released; <<block, 0>>: with none.
Holding(l) == IF l = {} THEN 0 ELSE CHOOSE x \in l : TRUE

\* All of them: a least fixed point, reached after as many rounds as pairs.
Contexts ==
  LET Follow(S) == S \cup UNION {
        {<<d, CASE body.term[x[1]] = "lock" -> x[1]
                [] body.term[x[1]] = "unlock" -> 0
                [] OTHER -> x[2]>> : d \in ToSet(body.succ[x[1]])} : x \in S}
      round[n \in Nat] == IF n = 0 THEN {<<body.start, Holding(seed)>>} ELSE Follow(round[n - 1])
      locks == {b \in BlocksOf(body) : body.term[b] = "lock"}
  IN round[Cardinality(BlocksOf(body)) * (Cardinality(locks) + 2)]

\* The unlock calls that executions reach while they hold a lock.
UnlocksOf(lock) ==
  IF lock = OuterLock THEN {OuterUnlock}
  ELSE {x[1] : x \in {y \in Contexts : y[2] = lock /\ body.term[y[1]] = "unlock"}}

Reachable == {x[1] : x \in Contexts}

\* Nothing outside of S follows a block in S.
Closed(S) == \A b \in S : \A i \in DOMAIN body.succ[b] : body.succ[b][i] \in S

\* There is a path from b to d: no set of blocks keeps them apart.
Leads(b, d) == \A S \in SUBSET BlocksOf(body) : b \in S /\ Closed(S) => d \in S

-----------------------------------------------------------------------------
MapTypeOK ==
  /\ pc \in {"postorder", "visit", "merge", "done", "panic"}
  /\ visited \subseteq BlocksOf(body)
  /\ \A i \in DOMAIN visit_stack : visit_stack[i][1] \in visited
  /\ ToSet(blocks) \subseteq visited
  /\ IsInjective(blocks)
  /\ idx \in 0 .. Len(blocks)
  /\ Cardinality(transaction_id) <= 1
  /\ transaction_id \cup DOMAIN lock_to_unlock \subseteq BlocksOf(body) \cup {OuterLock}
  /\ DOMAIN terminator_to_lock \cup DOMAIN terminator_to_tx \cup merge_todo
       \subseteq BlocksOf(body)
  /\ double_unlock \in BOOLEAN

(* The reverse postorder visits the blocks that can be reached (the least   *)
(* set that holds the start and what follows its members), and "for a graph *)
(* containing no loops [...] this is equivalent to a topological sort"      *)
(* (traversal.rs): with loops, every edge that does not lead back to a      *)
(* block on the way to it goes forward.                                     *)
ReversePostorderIsTopological ==
  pc = "visit" /\ idx = Len(blocks) =>
    /\ body.start \in ToSet(blocks) /\ Closed(ToSet(blocks))
    /\ \A S \in SUBSET ToSet(blocks) : body.start \in S /\ Closed(S) => S = ToSet(blocks)
    /\ \A i, j \in DOMAIN blocks :
         blocks[j] \in ToSet(body.succ[blocks[i]]) /\ i < j => Leads(blocks[j], blocks[i])

(* "Map from a terminator ID to the lock and unlock ID of the transaction   *)
(* in which it's contained": a call that every execution reaches inside a   *)
(* transaction is mapped to that transaction, and a call reached outside of *)
(* transactions is mapped to none (but for what the caller passed down).    *)
CallsMappedToTheirTransaction ==
  pc = "done" =>
    \A b \in Reachable : body.term[b] = "call" =>
      \A l \in {x[2] : x \in {y \in Contexts : y[1] = b}} :
        IF l = 0 THEN b \notin DOMAIN terminator_to_lock
        ELSE /\ b \in DOMAIN terminator_to_tx
             /\ terminator_to_tx[b][1] = l
             /\ terminator_to_tx[b][2] \in UnlocksOf(l)

\* An execution reaches a lock call inside a transaction.
TransactionsNest == \E x \in Contexts : body.term[x[1]] = "lock" /\ x[2] # 0

(* The same for the bodies the map is exact for.                            *)
CallsMappedWhenLeftAtTheEnd ==
  pc = "done" /\ body \in LeftAtTheEnd /\ ~TransactionsNest => CallsMappedToTheirTransaction

\* Lock calls of transactions that are left by an unconditional return, or
\* never: no execution reaches an unlock call with them.
NeverReleased == {b \in Reachable : body.term[b] = "lock" /\ UnlocksOf(b) = {}}

\* Calls that executions make in such a transaction.
CallsNeverReleased ==
  {x[1] : x \in {y \in Contexts : y[2] \in NeverReleased /\ body.term[y[1]] = "call"}}

(* "Map from a transaction's lock ID to its unlock ID": the unwrap panics   *)
(* on a lock without an unlock, and "double unlock!" is warned of, only if  *)
(* transactions nest or one is never released; a conditional return or a    *)
(* break out of a transaction goes unnoticed.  Where transactions do not    *)
(* nest, one that is never released and makes a call always panics.  A      *)
(* transaction inside another one of the same body, whose lock call         *)
(* overwrites the outer one, is always reported where transactions are left *)
(* at their end only.                                                       *)
NestedAndUnreleasedAreReported ==
  /\ double_unlock \/ pc = "panic" => TransactionsNest \/ NeverReleased # {}
  /\ pc = "done" => TransactionsNest \/ CallsNeverReleased = {}
  /\ pc = "done" /\ seed = {} /\ body \in LeftAtTheEnd /\ TransactionsNest => double_unlock

(* `perform` returns or panics, for every body.                             *)
MapEnds == <>(pc \in {"done", "panic"})
=============================================================================
