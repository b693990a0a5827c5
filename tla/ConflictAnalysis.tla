-------------------------- MODULE ConflictAnalysis --------------------------
(***************************************************************************)
(* Conflict analysis of the transactions of a crate                        *)
(* (librustc_mir/transform/transaction/conflict_analysis.rs).              *)
(*                                                                         *)
(* The query `conflict_analysis` hands ConflictAnalysis::new one           *)
(* AllocationSet per transaction and per function whose use-def analysis   *)
(* met that transaction.  `new` builds a graph whose vertices are the      *)
(* shared objects and whose edges join objects used by one transaction;    *)
(* `perform` walks it depth first and returns the connected components,    *)
(* each as a set of transactions: a conflict set.  The position of a       *)
(* conflict set in the result is the number of the lock its transactions   *)
(* take at run time.                                                       *)
(*                                                                         *)
(* FxHashMap and FxHashSet iterate in an unspecified order: every such     *)
(* loop takes its next element with \E.  A map whose values are sets that  *)
(* are created non-empty is a total function here, the empty set standing  *)
(* for a missing key.                                                      *)
(***************************************************************************)
EXTENDS Naturals, Sequences, FiniteSets

CONSTANTS
  Objects,   \* UniqueIds of the allocations of shared objects
  Sites,     \* (lock, unlock) UniqueId pairs: a transaction block of the crate
  Inputs     \* the sequences of AllocationSets the analysis may be given

TransactionUse == [shared_object : Objects, is_write : BOOLEAN]
AllocationSet == [site : Sites, allocations : SUBSET TransactionUse]
Transaction == [site : Sites, is_write : BOOLEAN]

ASSUME InputsAssumption == Inputs \subseteq Seq(AllocationSet)

VARIABLES
  allocation_sets,  \* the argument of `new`; never changes
  pc,               \* which loop of `new` / `perform` is running
  next_set,         \* index of the next AllocationSet of the first loop
  vertices,         \* object -> transactions that use it
  tx_to_objects,    \* transaction -> objects it uses
  tx_todo,          \* keys of tx_to_objects the edge loop has not seen
  edges,            \* object -> adjacent objects
  keys,             \* keys of vertices the loop of `perform` has not seen
  visited,          \* objects the search has entered
  stack,            \* activations of dfs_util: [vertex, next], innermost last
  conflict_set,     \* the component being collected
  conflict_sets     \* the components found, in order: the result

vars == <<allocation_sets, pc, next_set, vertices, tx_to_objects, tx_todo, edges,
          keys, visited, stack, conflict_set, conflict_sets>>

graph == <<allocation_sets, next_set, vertices, tx_to_objects>>
search == <<keys, visited, stack, conflict_set, conflict_sets>>

Frame == [vertex : Objects, next : SUBSET Objects]

-----------------------------------------------------------------------------
(* What one AllocationSet contributes.                                      *)

ObjectsOf(s) == {u.shared_object : u \in s.allocations}

\* Mutant: a transaction counts as a writer only if all its uses are writes.
AllWrites(s) == \A u \in s.allocations : u.is_write

IsWrite(s) == \E u \in s.allocations : u.is_write

TransactionOf(s) == [site |-> s.site, is_write |-> IsWrite(s)]

-----------------------------------------------------------------------------
Init ==
  /\ allocation_sets \in Inputs
  /\ pc = "vertices"
  /\ next_set = 1
  /\ vertices = [o \in Objects |-> {}]
  /\ tx_to_objects = [t \in Transaction |-> {}]
  /\ tx_todo = {}
  /\ edges = [o \in Objects |-> {}]
  /\ keys = {}
  /\ visited = {}
  /\ stack = <<>>
  /\ conflict_set = {}
  /\ conflict_sets = <<>>

\* Mutant: only the objects a transaction writes become vertices.
WrittenVertices ==
  /\ pc = "vertices"
  /\ next_set <= Len(allocation_sets)
  /\ LET s == allocation_sets[next_set]
         t == TransactionOf(s)
     IN /\ vertices' = [o \in Objects |->
             IF [shared_object |-> o, is_write |-> TRUE] \in s.allocations
               THEN vertices[o] \cup {t} ELSE vertices[o]]
        /\ tx_to_objects' = [tx_to_objects EXCEPT ![t] = @ \cup ObjectsOf(s)]
  /\ next_set' = next_set + 1
  /\ UNCHANGED <<allocation_sets, pc, tx_todo, edges, search>>

(* One iteration of the first loop of `new`.                                *)
CreateVertices ==
  /\ pc = "vertices"
  /\ next_set <= Len(allocation_sets)
  /\ LET s == allocation_sets[next_set]
         t == TransactionOf(s)
     IN /\ vertices' = [o \in Objects |->
             IF o \in ObjectsOf(s) THEN vertices[o] \cup {t} ELSE vertices[o]]
        /\ tx_to_objects' = [tx_to_objects EXCEPT ![t] = @ \cup ObjectsOf(s)]
  /\ next_set' = next_set + 1
  /\ UNCHANGED <<allocation_sets, pc, tx_todo, edges, search>>

VerticesDone ==
  /\ pc = "vertices"
  /\ next_set > Len(allocation_sets)
  /\ pc' = "edges"
  /\ tx_todo' = {t \in Transaction : tx_to_objects[t] # {}}
  /\ UNCHANGED <<graph, edges, search>>

\* Mutant: a chain through a first object instead of every pair.
ChainEdges(t) ==
  LET hub == CHOOSE o \in tx_to_objects[t] : TRUE
  IN [u \in Objects |-> IF u \in tx_to_objects[t]
                          THEN edges[u] \cup ({hub} \ {u})
                          ELSE edges[u]]

(* All pairs of distinct objects of one transaction become edges, both ways. *)
EdgesWith(t) ==
  [u \in Objects |-> IF u \in tx_to_objects[t]
                       THEN edges[u] \cup (tx_to_objects[t] \ {u})
                       ELSE edges[u]]

(* One iteration of the second loop of `new`.                               *)
CreateEdges(t) ==
  /\ pc = "edges"
  /\ t \in tx_todo
  /\ edges' = EdgesWith(t)
  /\ tx_todo' = tx_todo \ {t}
  /\ UNCHANGED <<graph, pc, search>>

EdgesDone ==
  /\ pc = "edges"
  /\ tx_todo = {}
  /\ pc' = "perform"
  /\ keys' = {o \in Objects : vertices[o] # {}}
  /\ UNCHANGED <<graph, tx_todo, edges, visited, stack, conflict_set, conflict_sets>>

-----------------------------------------------------------------------------
(* Entry of dfs_util(u) called with the activations s below it.             *)
Enter(u, s) ==
  /\ visited' = visited \cup {u}
  /\ conflict_set' = conflict_set \cup vertices[u]
  /\ stack' = Append(s, [vertex |-> u, next |-> edges[u]])

\* Mutant: a visited key is not consumed.
RetryKey(v) ==
  /\ pc = "perform"
  /\ v \in keys
  /\ \/ /\ v \in visited
        /\ UNCHANGED <<keys, pc, visited, stack, conflict_set>>
     \/ /\ v \notin visited
        /\ keys' = keys \ {v}
        /\ pc' = "dfs"
        /\ Enter(v, stack)
  /\ UNCHANGED <<graph, tx_todo, edges, conflict_sets>>

(* The loop of `perform` takes its next key.                                *)
NextKey(v) ==
  /\ pc = "perform"
  /\ v \in keys
  /\ keys' = keys \ {v}
  /\ \/ /\ v \in visited
        /\ UNCHANGED <<pc, visited, stack, conflict_set>>
     \/ /\ v \notin visited
        /\ pc' = "dfs"
        /\ Enter(v, stack)
  /\ UNCHANGED <<graph, tx_todo, edges, conflict_sets>>

KeysDone ==
  /\ pc = "perform"
  /\ keys = {}
  /\ pc' = "done"
  /\ UNCHANGED <<graph, tx_todo, edges, search>>

Top == stack[Len(stack)]
Below == SubSeq(stack, 1, Len(stack) - 1)

\* Mutant: the neighbour is entered without looking at `visited`.
EnterAgain(v) ==
  /\ pc = "dfs"
  /\ v \in Top.next
  /\ Enter(v, Append(Below, [Top EXCEPT !.next = @ \ {v}]))
  /\ UNCHANGED <<graph, pc, tx_todo, edges, keys, conflict_sets>>

(* dfs_util takes the next neighbour and recurses unless it is visited.     *)
Neighbour(v) ==
  /\ pc = "dfs"
  /\ v \in Top.next
  /\ LET rest == Append(Below, [Top EXCEPT !.next = @ \ {v}])
     IN \/ /\ v \in visited
           /\ stack' = rest
           /\ UNCHANGED <<visited, conflict_set>>
        \/ /\ v \notin visited
           /\ Enter(v, rest)
  /\ UNCHANGED <<graph, pc, tx_todo, edges, keys, conflict_sets>>

\* Mutant: the component is pushed but the accumulator is kept for the next.
KeepAccumulator ==
  /\ conflict_sets' = Append(conflict_sets, conflict_set)
  /\ conflict_set' = conflict_set

(* conflict_sets.push(conflict_set); the next component starts empty.       *)
PushConflictSet ==
  /\ conflict_sets' = Append(conflict_sets, conflict_set)
  /\ conflict_set' = {}

\* Mutant: every return ends the component.
ReturnToPerform ==
  /\ pc = "dfs"
  /\ Top.next = {}
  /\ stack' = Below
  /\ pc' = "perform"
  /\ PushConflictSet
  /\ UNCHANGED <<graph, tx_todo, edges, keys, visited>>

(* dfs_util returns, to its caller or to `perform`.                         *)
Return ==
  /\ pc = "dfs"
  /\ Top.next = {}
  /\ stack' = Below
  /\ \/ /\ Len(stack) > 1
        /\ UNCHANGED <<pc, conflict_set, conflict_sets>>
     \/ /\ Len(stack) = 1
        /\ pc' = "perform"
        /\ PushConflictSet
  /\ UNCHANGED <<graph, tx_todo, edges, keys, visited>>

Terminating == pc = "done" /\ UNCHANGED vars

Next ==
  \/ CreateVertices \/ VerticesDone
  \/ \E t \in Transaction : CreateEdges(t)
  \/ EdgesDone
  \/ \E v \in Objects : NextKey(v) \/ Neighbour(v)
  \/ Return \/ KeysDone
  \/ Terminating

Spec == Init /\ [][Next]_vars

(* The pass runs on the compiler's own thread and nothing preempts it.      *)
FairSpec == Spec /\ WF_vars(Next)

-----------------------------------------------------------------------------
(* What the input says, independently of the graph.                         *)

\* The transactions the input describes, and the objects each one uses.
GivenTransactions == {TransactionOf(allocation_sets[i]) : i \in DOMAIN allocation_sets}

Uses(t, o) ==
  \E i \in DOMAIN allocation_sets :
    /\ TransactionOf(allocation_sets[i]) = t
    /\ o \in ObjectsOf(allocation_sets[i])

\* Two transactions that touch a common object need a common lock.
Related(s, t) == \E o \in Objects : Uses(s, o) /\ Uses(t, o)

SetsHolding(t) == {i \in DOMAIN conflict_sets : t \in conflict_sets[i]}

-----------------------------------------------------------------------------
TypeOK ==
  /\ allocation_sets \in Seq(AllocationSet)
  /\ pc \in {"vertices", "edges", "perform", "dfs", "done"}
  /\ next_set \in Nat \ {0}
  /\ vertices \in [Objects -> SUBSET Transaction]
  /\ tx_to_objects \in [Transaction -> SUBSET Objects]
  /\ tx_todo \subseteq Transaction
  /\ edges \in [Objects -> SUBSET Objects]
  /\ keys \subseteq Objects
  /\ visited \subseteq Objects
  /\ stack \in Seq(Frame)
  /\ (pc = "dfs") <=> (stack # <<>>)
  /\ conflict_set \subseteq Transaction
  /\ conflict_sets \in Seq(SUBSET Transaction)

(* A transaction is given one lock number at most: no transaction is in two *)
(* conflict sets, nor in a finished one and in the one being collected      *)
(* (`perform` and `dfs_util`).                                              *)
OneLockPerTransaction ==
  /\ \A i, j \in DOMAIN conflict_sets :
       i # j => conflict_sets[i] \cap conflict_sets[j] = {}
  /\ \A i \in DOMAIN conflict_sets : conflict_sets[i] \cap conflict_set = {}

(* When `perform` returns, all the transactions that use an object are in   *)
(* one conflict set and in no other: transactions that touch a common       *)
(* object take the same lock, however many objects and AllocationSets lie   *)
(* between them.                                                            *)
SharersShareALock ==
  pc = "done" =>
    \A o \in Objects : (\E t \in Transaction : Uses(t, o)) =>
      \E i \in DOMAIN conflict_sets :
        \A t \in Transaction : Uses(t, o) => SetsHolding(t) = {i}

(* A conflict set is no larger than it must be: it cannot be split in two   *)
(* parts that touch no common object ("Compute the connected components").  *)
SetsAreConnected ==
  \A i \in DOMAIN conflict_sets :
    \A part \in (SUBSET conflict_sets[i]) \ {{}, conflict_sets[i]} :
      \E s \in part, t \in conflict_sets[i] \ part : Related(s, t)

(* `self.vertices.get(u).unwrap()` in dfs_util never meets a missing key.   *)
EnteredObjectsAreVertices ==
  \A i \in DOMAIN stack : vertices[stack[i].vertex] # {}

(* The recursion of dfs_util is at most as deep as there are objects, each  *)
(* activation on an object of its own.                                      *)
ActivationsAreDistinct ==
  \A i, j \in DOMAIN stack : i # j => stack[i].vertex # stack[j].vertex

(* The pass ends for every input and every hash order.                      *)
Terminates == <>(pc = "done")
=============================================================================
