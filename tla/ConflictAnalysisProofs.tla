----------------------- MODULE ConflictAnalysisProofs -----------------------
(***************************************************************************)
(* Proofs about ConflictAnalysis for any set of objects, any set of        *)
(* transaction blocks, any input and any hash order.                       *)
(*                                                                         *)
(* GraphInv relates the two maps and the edges to the prefix of the input  *)
(* already read.  SearchInv is the invariant of the depth-first search: an *)
(* object that was entered and has been left has all its neighbours        *)
(* entered, and a transaction of a finished set has all its objects        *)
(* entered, which is why it can never be met again.                        *)
(***************************************************************************)
EXTENDS ConflictAnalysis, SequenceFacts, TLAPS

Seen(t, o) ==
  \E i \in 1..(next_set - 1) :
    /\ TransactionOf(allocation_sets[i]) = t
    /\ o \in ObjectsOf(allocation_sets[i])

GraphInv ==
  /\ next_set <= Len(allocation_sets) + 1
  /\ pc # "vertices" => next_set = Len(allocation_sets) + 1
  /\ pc \in {"perform", "dfs", "done"} => tx_todo = {}
  /\ \A t \in Transaction, o \in Objects : t \in vertices[o] <=> Seen(t, o)
  /\ \A t \in Transaction, o \in Objects : t \in vertices[o] <=> o \in tx_to_objects[t]
  /\ \A u, v \in Objects : v \in edges[u] => vertices[v] # {}
  /\ pc # "vertices" =>
       \A t \in Transaction \ tx_todo : \A u, v \in tx_to_objects[t] : u # v => v \in edges[u]

\* The activations s are consistent with the set vis of entered objects: what
\* an activation has still to look at, together with vis, covers its neighbours.
FramesOK(s, vis) ==
  \A i \in 1..Len(s) :
    /\ s[i].vertex \in vis
    /\ vertices[s[i].vertex] # {}
    /\ s[i].next \subseteq edges[s[i].vertex]
    /\ edges[s[i].vertex] \subseteq vis \cup s[i].next

\* An entered object without an activation has all its neighbours entered.
LeftIsClosed(s, vis) ==
  \A u \in vis : (\E i \in 1..Len(s) : s[i].vertex = u) \/ edges[u] \subseteq vis

DistinctFrames(s) == \A i, j \in 1..Len(s) : i # j => s[i].vertex # s[j].vertex

StackInv ==
  /\ FramesOK(stack, visited)
  /\ LeftIsClosed(stack, visited)
  /\ DistinctFrames(stack)

\* A finished set holds only transactions all of whose objects are entered.
SetsInv ==
  /\ \A u \in visited :
       \/ vertices[u] \subseteq conflict_set
       \/ \E i \in 1..Len(conflict_sets) : vertices[u] \subseteq conflict_sets[i]
  /\ \A t \in conflict_set : \E u \in visited : t \in vertices[u]
  /\ \A i \in 1..Len(conflict_sets) :
       \A t \in conflict_sets[i] : tx_to_objects[t] \subseteq visited /\ t \notin conflict_set
  /\ \A i, j \in 1..Len(conflict_sets) :
       i # j => conflict_sets[i] \cap conflict_sets[j] = {}

\* Where the loop of `perform` stands.
LoopInv ==
  /\ pc \in {"vertices", "edges"} => visited = {} /\ conflict_sets = <<>> /\ keys = {}
  /\ pc # "dfs" => conflict_set = {}
  /\ pc \in {"perform", "dfs", "done"} =>
       \A o \in Objects : vertices[o] # {} => o \in keys \/ o \in visited
  /\ pc = "done" => keys = {}
  /\ \A o \in keys : vertices[o] # {}

SearchInv == StackInv /\ SetsInv /\ LoopInv

IInv == TypeOK /\ GraphInv /\ SearchInv

-----------------------------------------------------------------------------
(* Facts about the data.                                                    *)

\* An AllocationSet describes one transaction and uses known objects.
LEMMA TransactionOfType ==
  ASSUME NEW s \in AllocationSet
  PROVE  /\ TransactionOf(s) \in Transaction
         /\ ObjectsOf(s) \subseteq Objects
<1>1. IsWrite(s) \in BOOLEAN
  BY DEF IsWrite
<1>2. s.site \in Sites /\ s.allocations \subseteq TransactionUse
  BY DEF AllocationSet
<1>3. TransactionOf(s) \in Transaction
  BY <1>1, <1>2 DEF TransactionOf, Transaction
<1>4. ObjectsOf(s) \subseteq Objects
  BY <1>2 DEF ObjectsOf, TransactionUse
<1> QED BY <1>3, <1>4

\* Popping an activation leaves the others in place.
LEMMA BelowFacts ==
  ASSUME stack \in Seq(Frame), stack # <<>>
  PROVE  /\ Len(stack) \in Nat \ {0}
         /\ Top \in Frame
         /\ Below \in Seq(Frame)
         /\ Len(Below) = Len(stack) - 1
         /\ \A i \in 1..(Len(stack) - 1) : Below[i] = stack[i]
<1>1. Len(stack) \in Nat \ {0}
  BY EmptySeq, LenProperties
<1>2. Top \in Frame
  BY <1>1, ElementOfSeq DEF Top
<1>3. /\ Below \in Seq(Frame)
      /\ Len(Below) = Len(stack) - 1
      /\ \A i \in 1..(Len(stack) - 1) : Below[i] = stack[i]
  <2> DEFINE n == Len(stack) - 1
  <2>1. 1 \in 1..(Len(stack) + 1) /\ n \in (1 - 1)..Len(stack)
    BY <1>1
  <2>2. /\ SubSeq(stack, 1, n) \in Seq(Frame)
        /\ Len(SubSeq(stack, 1, n)) = IF 1 <= n THEN n - 1 + 1 ELSE 0
        /\ \A i \in 1..(n - 1 + 1) : SubSeq(stack, 1, n)[i] = stack[1 + i - 1]
    BY <1>1, <2>1, ElementOfSeq, SubSeqProperties
  <2>3. Len(SubSeq(stack, 1, n)) = n
    <3>1. n \in Nat
      BY <1>1
    <3> DEFINE k == Len(SubSeq(stack, 1, n))
    <3>2. k = IF 1 <= n THEN n - 1 + 1 ELSE 0
      BY <2>2
    <3> HIDE DEF n, k
    <3>3. k = n
      BY <3>1, <3>2
    <3> QED BY <3>3 DEF k
  <2>4. \A i \in 1..n : SubSeq(stack, 1, n)[i] = stack[i]
    <3> SUFFICES ASSUME NEW i \in 1..n PROVE SubSeq(stack, 1, n)[i] = stack[i]
      OBVIOUS
    <3>1. i \in 1..(n - 1 + 1) /\ 1 + i - 1 = i
      BY <1>1
    <3> QED BY <2>2, <3>1
  <2> QED BY <2>2, <2>3, <2>4 DEF Below
<1> QED BY <1>1, <1>2, <1>3

\* Entering dfs_util adds one activation on top of those below it.
LEMMA EnterFacts ==
  ASSUME TypeOK, NEW u \in Objects, NEW s \in Seq(Frame), Enter(u, s)
  PROVE  /\ visited' = visited \cup {u} /\ visited' \subseteq Objects
         /\ conflict_set' = conflict_set \cup vertices[u]
         /\ conflict_set' \subseteq Transaction
         /\ stack' \in Seq(Frame) /\ stack' # <<>>
         /\ Len(s) \in Nat
         /\ Len(stack') = Len(s) + 1
         /\ \A i \in 1..Len(s) : stack'[i] = s[i]
         /\ stack'[Len(s) + 1] = [vertex |-> u, next |-> edges[u]]
<1>1. [vertex |-> u, next |-> edges[u]] \in Frame
  BY DEF Frame, TypeOK
<1>2. vertices[u] \subseteq Transaction
  BY DEF TypeOK
<1>3. /\ visited' \subseteq Objects
      /\ conflict_set' \subseteq Transaction
  BY <1>2 DEF Enter, TypeOK
<1> QED BY <1>1, <1>3, PushFacts DEF Enter

\* What dfs_util leaves on its own activation when it takes a neighbour.
LEMMA RestFacts ==
  ASSUME stack \in Seq(Frame), stack # <<>>, NEW v
  PROVE  LET rest == Append(Below, [Top EXCEPT !.next = @ \ {v}])
         IN /\ rest \in Seq(Frame) /\ rest # <<>>
            /\ Len(rest) = Len(stack)
            /\ \A i \in 1..(Len(stack) - 1) : rest[i] = stack[i]
            /\ rest[Len(stack)].vertex = Top.vertex
            /\ rest[Len(stack)].next = Top.next \ {v}
<1> DEFINE e == [Top EXCEPT !.next = @ \ {v}]
<1>1. e \in Frame /\ e.vertex = Top.vertex /\ e.next = Top.next \ {v}
  BY BelowFacts DEF Frame
<1> HIDE DEF e
<1>2. /\ Append(Below, e) \in Seq(Frame) /\ Append(Below, e) # <<>>
      /\ Len(Append(Below, e)) = Len(Below) + 1
      /\ \A i \in 1..Len(Below) : Append(Below, e)[i] = Below[i]
      /\ Append(Below, e)[Len(Below) + 1] = e
  BY <1>1, BelowFacts, PushFacts
<1>3. Len(Below) + 1 = Len(stack)
  BY BelowFacts
<1> QED BY <1>1, <1>2, <1>3, BelowFacts DEF e

-----------------------------------------------------------------------------
(* The type invariant: every step of `new` and `perform` keeps the shape of *)
(* the state, and the recursion is active exactly while pc = "dfs".         *)
THEOREM TypeCorrect == Spec => []TypeOK
<1>1. Init => TypeOK
  BY InputsAssumption DEF Init, TypeOK, Transaction
<1>2. TypeOK /\ [Next]_vars => TypeOK'
  <2> SUFFICES ASSUME TypeOK, [Next]_vars PROVE TypeOK'
    OBVIOUS
  <2> USE DEF TypeOK, graph, search
  <2>1. CASE CreateVertices
    <3>1. allocation_sets[next_set] \in AllocationSet
      BY <2>1 DEF CreateVertices
    <3>2. vertices' \in [Objects -> SUBSET Transaction]
      BY <2>1, <3>1, TransactionOfType DEF CreateVertices
    <3>3. tx_to_objects' \in [Transaction -> SUBSET Objects]
      BY <2>1, <3>1, TransactionOfType DEF CreateVertices
    <3> QED BY <2>1, <3>2, <3>3 DEF CreateVertices
  <2>2. CASE VerticesDone
    BY <2>2 DEF VerticesDone
  <2>3. ASSUME NEW t \in Transaction, CreateEdges(t) PROVE TypeOK'
    <3>1. edges' \in [Objects -> SUBSET Objects]
      BY <2>3 DEF CreateEdges, EdgesWith
    <3> QED BY <2>3, <3>1 DEF CreateEdges
  <2>4. CASE EdgesDone
    BY <2>4 DEF EdgesDone
  <2>5. ASSUME NEW v \in Objects, NextKey(v) PROVE TypeOK'
    <3>1. CASE v \in visited
      BY <2>5, <3>1 DEF NextKey
    <3>2. CASE v \notin visited
      <4>1. Enter(v, stack) /\ pc' = "dfs"
        BY <2>5, <3>2 DEF NextKey
      <4>2. /\ visited' \subseteq Objects /\ conflict_set' \subseteq Transaction
            /\ stack' \in Seq(Frame) /\ stack' # <<>>
        BY <4>1, EnterFacts
      <4> QED BY <2>5, <4>1, <4>2 DEF NextKey
    <3> QED BY <3>1, <3>2
  <2>6. ASSUME NEW v \in Objects, Neighbour(v) PROVE TypeOK'
    <3>1. stack # <<>>
      BY <2>6 DEF Neighbour
    <3> DEFINE rest == Append(Below, [Top EXCEPT !.next = @ \ {v}])
    <3>2. rest \in Seq(Frame) /\ rest # <<>>
      BY <3>1, RestFacts
    <3>3. CASE v \in visited /\ stack' = rest /\ UNCHANGED <<visited, conflict_set>>
      BY <2>6, <3>2, <3>3 DEF Neighbour
    <3>4. CASE v \notin visited /\ Enter(v, rest)
      <4>1. /\ visited' \subseteq Objects /\ conflict_set' \subseteq Transaction
            /\ stack' \in Seq(Frame) /\ stack' # <<>>
        BY <3>2, <3>4, EnterFacts
      <4> QED BY <2>6, <4>1 DEF Neighbour
    <3> QED BY <2>6, <3>3, <3>4 DEF Neighbour
  <2>7. CASE Return
    <3>1. stack # <<>>
      BY <2>7 DEF Return
    <3>2. stack' \in Seq(Frame) /\ Len(stack') = Len(stack) - 1
      BY <2>7, <3>1, BelowFacts DEF Return
    <3>3. CASE Len(stack) > 1
      <4>1. stack' # <<>> /\ UNCHANGED <<pc, conflict_set, conflict_sets>>
        BY <2>7, <3>1, <3>2, <3>3, EmptySeq DEF Return
      <4> QED BY <2>7, <3>2, <4>1 DEF Return
    <3>4. CASE Len(stack) = 1
      <4>1. stack' = <<>>
        BY <3>2, <3>4, EmptySeq
      <4>2. pc' = "perform" /\ PushConflictSet
        BY <2>7, <3>4 DEF Return
      <4>3. conflict_sets' \in Seq(SUBSET Transaction) /\ conflict_set' = {}
        BY <4>2, PushFacts DEF PushConflictSet
      <4> QED BY <2>7, <4>1, <4>2, <4>3 DEF Return
    <3> QED BY <2>7, <3>3, <3>4 DEF Return
  <2>8. CASE KeysDone
    BY <2>8 DEF KeysDone
  <2>9. CASE Terminating
    BY <2>9 DEF Terminating, vars
  <2>10. CASE UNCHANGED vars
    BY <2>10 DEF vars
  <2> QED
    BY <2>1, <2>2, <2>3, <2>4, <2>5, <2>6, <2>7, <2>8, <2>9, <2>10 DEF Next
<1> QED
  BY <1>1, <1>2, PTL DEF Spec

-----------------------------------------------------------------------------
(* The graph: vertices and tx_to_objects are inverse relations that hold    *)
(* exactly what the AllocationSets read so far say, and any two objects of  *)
(* a processed transaction are adjacent.                                    *)
THEOREM GraphCorrect == Spec => []GraphInv
<1>1. Init => GraphInv
  <2> SUFFICES ASSUME Init PROVE GraphInv
    OBVIOUS
  <2>1. Len(allocation_sets) \in Nat
    BY InputsAssumption, LenProperties DEF Init
  <2>2. \A t \in Transaction, o \in Objects : ~Seen(t, o)
    BY DEF Init, Seen
  <2> QED BY <2>1, <2>2 DEF Init, GraphInv
<1>2. TypeOK /\ GraphInv /\ [Next]_vars => GraphInv'
  <2> SUFFICES ASSUME TypeOK, GraphInv, [Next]_vars PROVE GraphInv'
    OBVIOUS
  <2>0. Len(allocation_sets) \in Nat /\ next_set \in Nat \ {0}
    BY LenProperties DEF TypeOK
  <2>1. CASE CreateVertices
    <3> DEFINE s == allocation_sets[next_set]
               T == TransactionOf(s)
    <3>1. /\ s \in AllocationSet
          /\ T \in Transaction /\ ObjectsOf(s) \subseteq Objects
      BY <2>0, <2>1, ElementOfSeq, TransactionOfType DEF CreateVertices, TypeOK
    <3>2. /\ pc = "vertices" /\ pc' = pc /\ allocation_sets' = allocation_sets
          /\ next_set' = next_set + 1 /\ next_set <= Len(allocation_sets)
          /\ edges' = edges /\ tx_todo' = tx_todo
      BY <2>1 DEF CreateVertices
    <3>3. \A t \in Transaction, o \in Objects :
            t \in vertices'[o] <=> t \in vertices[o] \/ (t = T /\ o \in ObjectsOf(s))
      BY <2>1, <3>1 DEF CreateVertices, TypeOK
    <3>4. \A t \in Transaction, o \in Objects :
            o \in tx_to_objects'[t] <=> o \in tx_to_objects[t] \/ (t = T /\ o \in ObjectsOf(s))
      BY <2>1, <3>1 DEF CreateVertices, TypeOK
    <3>5. ASSUME NEW t \in Transaction, NEW o \in Objects
          PROVE  Seen(t, o)' <=> Seen(t, o) \/ (t = T /\ o \in ObjectsOf(s))
      <4>1. 1..(next_set' - 1) = 1..(next_set - 1) \cup {next_set}
        BY <2>0, <3>2
      <4>2. Seen(t, o)' <=> \E j \in 1..(next_set' - 1) :
                              /\ TransactionOf(allocation_sets[j]) = t
                              /\ o \in ObjectsOf(allocation_sets[j])
        BY <3>2 DEF Seen
      <4> QED BY <4>1, <4>2 DEF Seen
    <3>6. \A u, v \in Objects : v \in edges'[u] => vertices'[v] # {}
      BY <3>2, <3>3 DEF GraphInv, TypeOK
    <3> HIDE DEF s, T
    <3>7. \A t \in Transaction, o \in Objects : t \in vertices'[o] <=> Seen(t, o)'
      BY <3>3, <3>5 DEF GraphInv
    <3>8. \A t \in Transaction, o \in Objects : t \in vertices'[o] <=> o \in tx_to_objects'[t]
      BY <3>3, <3>4 DEF GraphInv
    <3>9. next_set' <= Len(allocation_sets') + 1
      BY <2>0, <3>2
    <3> QED BY <3>2, <3>6, <3>7, <3>8, <3>9 DEF GraphInv
  <2>2. CASE VerticesDone
    <3>1. next_set = Len(allocation_sets) + 1
      BY <2>0, <2>2 DEF VerticesDone, GraphInv
    <3>2. /\ UNCHANGED <<allocation_sets, next_set, vertices, tx_to_objects, edges>>
          /\ pc' = "edges" /\ tx_todo' = {t \in Transaction : tx_to_objects[t] # {}}
      BY <2>2 DEF VerticesDone, graph
    <3>3. \A t \in Transaction, o \in Objects : Seen(t, o)' <=> Seen(t, o)
      BY <3>2 DEF Seen
    <3>4. \A t \in Transaction \ tx_todo' : tx_to_objects'[t] = {}
      BY <3>2
    <3> QED BY <3>1, <3>2, <3>3, <3>4 DEF GraphInv
  <2>3. ASSUME NEW t \in Transaction, CreateEdges(t) PROVE GraphInv'
    <3>1. /\ UNCHANGED <<allocation_sets, next_set, vertices, tx_to_objects, pc>>
          /\ pc = "edges" /\ tx_todo' = tx_todo \ {t} /\ edges' = EdgesWith(t)
      BY <2>3 DEF CreateEdges, graph
    <3>2. \A x \in Transaction, o \in Objects : Seen(x, o)' <=> Seen(x, o)
      BY <3>1 DEF Seen
    <3>3. \A u, v \in Objects :
            v \in edges'[u] <=>
              v \in edges[u] \/ (u \in tx_to_objects[t] /\ v \in tx_to_objects[t] /\ u # v)
      BY <3>1 DEF EdgesWith, TypeOK
    <3>4. \A u, v \in Objects : v \in edges'[u] => vertices'[v] # {}
      BY <3>1, <3>3 DEF GraphInv
    <3>5. \A x \in Transaction \ tx_todo' :
            \A u, v \in tx_to_objects'[x] : u # v => v \in edges'[u]
      BY <3>1, <3>3 DEF GraphInv, TypeOK
    <3> QED BY <3>1, <3>2, <3>4, <3>5 DEF GraphInv
  <2>4. ASSUME \/ EdgesDone \/ Return \/ KeysDone \/ Terminating \/ UNCHANGED vars
               \/ \E v \in Objects : NextKey(v) \/ Neighbour(v)
        PROVE  GraphInv'
    <3>1. /\ UNCHANGED <<graph, tx_todo, edges>>
          /\ pc' # "vertices" => pc # "vertices"
          /\ pc' \in {"perform", "dfs", "done"} =>
               pc \in {"perform", "dfs", "done"} \/ tx_todo = {}
      BY <2>4 DEF EdgesDone, NextKey, Neighbour, Return, KeysDone, Terminating, graph, vars
    <3>2. \A t \in Transaction, o \in Objects : Seen(t, o)' <=> Seen(t, o)
      BY <3>1 DEF Seen, graph
    <3> QED BY <3>1, <3>2 DEF GraphInv, graph
  <2> QED BY <2>1, <2>2, <2>3, <2>4 DEF Next
<1> QED
  BY <1>1, <1>2, TypeCorrect, PTL DEF Spec
-----------------------------------------------------------------------------
(* The search.                                                              *)

\* Entering an object whose activation goes on top of s.
LEMMA EnterKeepsStack ==
  ASSUME TypeOK, NEW u \in Objects, u \notin visited, vertices[u] # {},
         NEW s \in Seq(Frame), Enter(u, s),
         UNCHANGED <<vertices, edges>>,
         \A i \in 1..Len(s) : s[i].vertex # u,
         FramesOK(s, visited \cup {u}), LeftIsClosed(s, visited), DistinctFrames(s)
  PROVE  StackInv'
<1> DEFINE n == Len(s)
<1>1. /\ visited' = visited \cup {u} /\ n \in Nat /\ Len(stack') = n + 1
      /\ \A i \in 1..n : stack'[i] = s[i]
      /\ stack'[n + 1].vertex = u /\ stack'[n + 1].next = edges[u]
  <2>1. stack'[n + 1] = [vertex |-> u, next |-> edges[u]]
    BY EnterFacts
  <2>2. /\ visited' = visited \cup {u} /\ n \in Nat /\ Len(stack') = n + 1
        /\ \A i \in 1..n : stack'[i] = s[i]
    BY EnterFacts
  <2> QED BY <2>1, <2>2
<1> HIDE DEF n
<1>2. \A i \in 1..(n + 1) : i \in 1..n \/ i = n + 1
  BY <1>1
<1>3. FramesOK(stack', visited')
  <2> SUFFICES ASSUME NEW i \in 1..(n + 1)
               PROVE  /\ stack'[i].vertex \in visited'
                      /\ vertices[stack'[i].vertex] # {}
                      /\ stack'[i].next \subseteq edges[stack'[i].vertex]
                      /\ edges[stack'[i].vertex] \subseteq visited' \cup stack'[i].next
    BY <1>1 DEF FramesOK
  <2>1. CASE i \in 1..n
    BY <1>1, <2>1 DEF FramesOK, n
  <2>2. CASE i = n + 1
    BY <1>1, <2>2
  <2> QED BY <1>2, <2>1, <2>2
<1>4. LeftIsClosed(stack', visited')
  <2> SUFFICES ASSUME NEW w \in visited'
               PROVE  \/ \E i \in 1..(n + 1) : stack'[i].vertex = w
                      \/ edges[w] \subseteq visited'
    BY <1>1 DEF LeftIsClosed
  <2>1. CASE w = u
    <3>1. n + 1 \in 1..(n + 1)
      BY <1>1
    <3> QED BY <1>1, <2>1, <3>1
  <2>2. CASE w \in visited
    <3>1. CASE edges[w] \subseteq visited
      BY <1>1, <3>1
    <3>2. CASE \E i \in 1..n : s[i].vertex = w
      <4>1. PICK i \in 1..n : s[i].vertex = w
        BY <3>2
      <4>2. i \in 1..(n + 1) /\ stack'[i].vertex = w
        BY <1>1, <4>1
      <4> QED BY <4>2
    <3> QED BY <2>2, <3>1, <3>2 DEF LeftIsClosed, n
  <2> QED BY <1>1, <2>1, <2>2
<1>5. DistinctFrames(stack')
  <2> SUFFICES ASSUME NEW i \in 1..(n + 1), NEW j \in 1..(n + 1), i # j
               PROVE  stack'[i].vertex # stack'[j].vertex
    BY <1>1 DEF DistinctFrames
  <2>1. CASE i \in 1..n /\ j \in 1..n
    BY <1>1, <2>1 DEF DistinctFrames, n
  <2>2. CASE i = n + 1 /\ j \in 1..n
    BY <1>1, <2>2 DEF n
  <2>3. CASE j = n + 1 /\ i \in 1..n
    BY <1>1, <2>3 DEF n
  <2> QED BY <1>2, <2>1, <2>2, <2>3
<1> QED BY <1>3, <1>4, <1>5 DEF StackInv, FramesOK, LeftIsClosed

\* Entering an object cannot meet a transaction of a finished set again.
LEMMA EnterKeepsSets ==
  ASSUME TypeOK, GraphInv, SetsInv, NEW u \in Objects, u \notin visited,
         NEW s \in Seq(Frame), Enter(u, s),
         UNCHANGED <<vertices, tx_to_objects, conflict_sets>>
  PROVE  SetsInv'
<1>1. visited' = visited \cup {u} /\ conflict_set' = conflict_set \cup vertices[u]
  BY DEF Enter
<1>2. \A t \in vertices[u] : u \in tx_to_objects[t]
  BY DEF GraphInv, TypeOK
<1>3. \A i \in 1..Len(conflict_sets) : \A t \in conflict_sets[i] : t \notin vertices[u]
  BY <1>2 DEF SetsInv
<1> QED BY <1>1, <1>3 DEF SetsInv
\* Leaving dfs_util: the object that is left has all its neighbours entered.
LEMMA ReturnKeepsStack ==
  ASSUME TypeOK, StackInv, stack # <<>>, Top.next = {}, stack' = Below,
         UNCHANGED <<visited, vertices, edges>>
  PROVE  StackInv'
<1> DEFINE n == Len(stack)
<1>1. /\ n \in Nat \ {0} /\ Len(stack') = n - 1
      /\ \A i \in 1..(n - 1) : stack'[i] = stack[i]
  BY BelowFacts DEF TypeOK
<1> HIDE DEF n
<1>2. 1..(n - 1) \subseteq 1..n /\ (\A i \in 1..n : i \in 1..(n - 1) \/ i = n) /\ n \in 1..n
  BY <1>1
<1>3. FramesOK(stack', visited)
  BY <1>1, <1>2 DEF StackInv, FramesOK, n
<1>4. LeftIsClosed(stack', visited)
  <2> SUFFICES ASSUME NEW w \in visited
               PROVE  \/ \E i \in 1..(n - 1) : stack'[i].vertex = w
                      \/ edges[w] \subseteq visited
    BY <1>1 DEF LeftIsClosed
  <2>1. CASE \E i \in 1..n : stack[i].vertex = w
    <3>1. PICK i \in 1..n : stack[i].vertex = w
      BY <2>1
    <3>2. CASE i \in 1..(n - 1)
      BY <1>1, <3>1, <3>2
    <3>3. CASE i = n
      <4>1. stack[n].next = {}
        BY DEF Top, n
      <4>2. edges[stack[n].vertex] \subseteq visited \cup stack[n].next
        BY <1>2 DEF StackInv, FramesOK, n
      <4> QED BY <3>1, <3>3, <4>1, <4>2
    <3> QED BY <1>2, <3>2, <3>3
  <2>2. CASE edges[w] \subseteq visited
    BY <2>2
  <2> QED BY <2>1, <2>2 DEF StackInv, LeftIsClosed, n
<1>5. DistinctFrames(stack')
  BY <1>1, <1>2 DEF StackInv, DistinctFrames, n
<1> QED BY <1>3, <1>4, <1>5 DEF StackInv, FramesOK, LeftIsClosed

\* Pushing the finished component: all objects of its transactions are entered.
LEMMA PushKeepsSets ==
  ASSUME TypeOK, GraphInv, StackInv', SetsInv, pc = "dfs", stack' = <<>>, PushConflictSet,
         UNCHANGED <<visited, vertices, edges, tx_to_objects>>
  PROVE  SetsInv'
<1> DEFINE n == Len(conflict_sets)
<1>1. /\ n \in Nat /\ Len(conflict_sets') = n + 1
      /\ \A i \in 1..n : conflict_sets'[i] = conflict_sets[i]
      /\ conflict_sets'[n + 1] = conflict_set /\ conflict_set' = {}
  BY PushFacts DEF PushConflictSet, TypeOK
<1> HIDE DEF n
<1>2. (\A i \in 1..(n + 1) : i \in 1..n \/ i = n + 1) /\ n + 1 \in 1..(n + 1) /\ 1..n \subseteq 1..(n + 1)
  BY <1>1
<1>3. \A u \in visited : edges[u] \subseteq visited
  <2>1. Len(stack') = 0
    BY EmptySeq
  <2> QED BY <2>1 DEF StackInv, LeftIsClosed
<1>4. ASSUME NEW t \in conflict_set PROVE tx_to_objects[t] \subseteq visited
  <2>1. PICK u \in visited : t \in vertices[u]
    BY DEF SetsInv
  <2>2. t \in Transaction /\ u \in Objects /\ u \in tx_to_objects[t] /\ tx_to_objects[t] \subseteq Objects
    BY <2>1 DEF GraphInv, TypeOK
  <2>3. \A v \in tx_to_objects[t] : v # u => v \in edges[u]
    BY <2>2 DEF GraphInv
  <2> QED BY <1>3, <2>1, <2>3
<1>5. \A u \in visited : \E i \in 1..(n + 1) : vertices[u] \subseteq conflict_sets'[i]
  BY <1>1, <1>2 DEF SetsInv, n
<1>6. \A i \in 1..(n + 1) : \A t \in conflict_sets'[i] : tx_to_objects[t] \subseteq visited
  BY <1>1, <1>2, <1>4 DEF SetsInv, n
<1>7. \A i \in 1..n : conflict_sets[i] \cap conflict_set = {}
  BY DEF SetsInv, n
<1>8. ASSUME NEW i \in 1..(n + 1), NEW j \in 1..(n + 1), i # j
      PROVE  conflict_sets'[i] \cap conflict_sets'[j] = {}
  <2>1. CASE i \in 1..n /\ j \in 1..n
    BY <1>1, <1>8, <2>1 DEF SetsInv, n
  <2>2. CASE i = n + 1 \/ j = n + 1
    BY <1>1, <1>2, <1>7, <1>8, <2>2
  <2> QED BY <1>2, <2>1, <2>2
<1> QED BY <1>1, <1>5, <1>6, <1>8 DEF SetsInv
(* The search invariant holds throughout `new` and `perform`.               *)
THEOREM SearchCorrect == Spec => []SearchInv
<1>1. Init => SearchInv
  <2> SUFFICES ASSUME Init PROVE SearchInv
    OBVIOUS
  <2>1. Len(stack) = 0 /\ Len(conflict_sets) = 0
    BY EmptySeq DEF Init
  <2>2. StackInv
    BY <2>1 DEF Init, StackInv, FramesOK, LeftIsClosed, DistinctFrames
  <2>3. SetsInv
    BY <2>1 DEF Init, SetsInv
  <2>4. LoopInv
    BY DEF Init, LoopInv
  <2> QED BY <2>2, <2>3, <2>4 DEF SearchInv
<1>2. TypeOK /\ GraphInv /\ SearchInv /\ [Next]_vars => SearchInv'
  <2> SUFFICES ASSUME TypeOK, GraphInv, StackInv, SetsInv, LoopInv, [Next]_vars
               PROVE  StackInv' /\ SetsInv' /\ LoopInv'
    BY DEF SearchInv
  <2>1. CASE CreateVertices
    <3>1. /\ pc = "vertices" /\ pc' = pc /\ UNCHANGED search
          /\ visited = {} /\ conflict_sets = <<>> /\ keys = {} /\ conflict_set = {} /\ stack = <<>>
      BY <2>1 DEF CreateVertices, LoopInv, TypeOK
    <3>2. Len(stack') = 0 /\ Len(conflict_sets') = 0
      BY <3>1, EmptySeq DEF search
    <3>3. StackInv'
      BY <3>1, <3>2 DEF StackInv, FramesOK, LeftIsClosed, DistinctFrames, search
    <3>4. SetsInv'
      BY <3>1, <3>2 DEF SetsInv, search
    <3>5. LoopInv'
      BY <3>1 DEF LoopInv, search
    <3> QED BY <3>3, <3>4, <3>5
  <2>2. ASSUME NEW t \in Transaction, CreateEdges(t) PROVE StackInv' /\ SetsInv' /\ LoopInv'
    <3>1. /\ pc = "edges" /\ pc' = pc /\ UNCHANGED search
          /\ visited = {} /\ conflict_sets = <<>> /\ keys = {} /\ conflict_set = {} /\ stack = <<>>
      BY <2>2 DEF CreateEdges, LoopInv, TypeOK
    <3>2. Len(stack') = 0 /\ Len(conflict_sets') = 0
      BY <3>1, EmptySeq DEF search
    <3>3. StackInv'
      BY <3>1, <3>2 DEF StackInv, FramesOK, LeftIsClosed, DistinctFrames, search
    <3>4. SetsInv'
      BY <3>1, <3>2 DEF SetsInv, search
    <3>5. LoopInv'
      BY <3>1 DEF LoopInv, search
    <3> QED BY <3>3, <3>4, <3>5
  <2>3. CASE VerticesDone
    BY <2>3 DEF VerticesDone, StackInv, FramesOK, LeftIsClosed, DistinctFrames,
                SetsInv, LoopInv, graph, search
  <2>4. CASE EdgesDone
    <3>1. StackInv' /\ SetsInv'
      BY <2>4 DEF EdgesDone, StackInv, FramesOK, LeftIsClosed, DistinctFrames, SetsInv, graph
    <3>2. LoopInv'
      BY <2>4 DEF EdgesDone, LoopInv, graph
    <3> QED BY <3>1, <3>2
  <2>5. ASSUME NEW v \in Objects, NextKey(v) PROVE StackInv' /\ SetsInv' /\ LoopInv'
    <3>1. /\ pc = "perform" /\ v \in keys /\ keys' = keys \ {v} /\ vertices[v] # {}
          /\ UNCHANGED <<vertices, edges, tx_to_objects, conflict_sets>>
      BY <2>5 DEF NextKey, LoopInv, graph
    <3>2. CASE v \in visited
      <4>1. UNCHANGED <<pc, visited, stack, conflict_set>>
        BY <2>5, <3>2 DEF NextKey
      <4>2. StackInv' /\ SetsInv'
        BY <3>1, <4>1 DEF StackInv, FramesOK, LeftIsClosed, DistinctFrames, SetsInv
      <4>3. LoopInv'
        BY <3>1, <3>2, <4>1 DEF LoopInv
      <4> QED BY <4>2, <4>3
    <3>3. CASE v \notin visited
      <4>1. Enter(v, stack) /\ pc' = "dfs" /\ visited' = visited \cup {v}
        BY <2>5, <3>3 DEF NextKey, Enter
      <4>2. stack = <<>> /\ Len(stack) = 0 /\ stack \in Seq(Frame)
        BY <3>1, EmptySeq DEF TypeOK
      <4>3. /\ \A i \in 1..Len(stack) : stack[i].vertex # v
            /\ FramesOK(stack, visited \cup {v})
        BY <4>2 DEF FramesOK
      <4>4. LeftIsClosed(stack, visited) /\ DistinctFrames(stack)
        BY DEF StackInv
      <4>5. StackInv'
        BY <3>1, <3>3, <4>1, <4>2, <4>3, <4>4, EnterKeepsStack
      <4>6. SetsInv'
        BY <3>1, <3>3, <4>1, <4>2, EnterKeepsSets
      <4>7. LoopInv'
        BY <3>1, <4>1 DEF LoopInv
      <4> QED BY <4>5, <4>6, <4>7
    <3> QED BY <3>2, <3>3
  <2>6. ASSUME NEW v \in Objects, Neighbour(v) PROVE StackInv' /\ SetsInv' /\ LoopInv'
    <3> DEFINE n == Len(stack)
               rest == Append(Below, [Top EXCEPT !.next = @ \ {v}])
    <3>1. /\ pc = "dfs" /\ pc' = pc /\ v \in Top.next /\ stack # <<>> /\ stack \in Seq(Frame)
          /\ UNCHANGED <<vertices, edges, tx_to_objects, keys, conflict_sets>>
      BY <2>6 DEF Neighbour, TypeOK, graph
    <3>2. /\ n \in Nat \ {0} /\ rest \in Seq(Frame) /\ Len(rest) = n
          /\ \A i \in 1..(n - 1) : rest[i] = stack[i]
          /\ rest[n].vertex = stack[n].vertex /\ rest[n].next = stack[n].next \ {v}
      BY <3>1, BelowFacts, RestFacts DEF Top
    <3>3. \/ v \in visited /\ stack' = rest /\ UNCHANGED <<visited, conflict_set>>
          \/ v \notin visited /\ Enter(v, rest)
      BY <2>6 DEF Neighbour
    <3>4. v \in stack[n].next
      BY <3>1 DEF Top
    <3> HIDE DEF n, rest
    <3>5. (\A i \in 1..n : i \in 1..(n - 1) \/ i = n) /\ n \in 1..n
      BY <3>2
    <3>6. \A i \in 1..n : /\ rest[i].vertex = stack[i].vertex
                          /\ rest[i].next \subseteq stack[i].next
                          /\ stack[i].next \subseteq rest[i].next \cup {v}
      BY <3>2, <3>5
    <3>7. /\ v \in edges[stack[n].vertex] /\ stack[n].vertex \in Objects
      BY <3>1, <3>4, <3>5, BelowFacts DEF StackInv, FramesOK, n, Top, Frame
    <3>8. vertices[v] # {}
      BY <3>7 DEF GraphInv
    <3>9. /\ FramesOK(rest, visited \cup {v})
          /\ LeftIsClosed(rest, visited)
          /\ DistinctFrames(rest)
      BY <3>2, <3>6 DEF StackInv, FramesOK, LeftIsClosed, DistinctFrames, n
    <3>10. CASE v \in visited /\ stack' = rest /\ UNCHANGED <<visited, conflict_set>>
      <4>1. visited \cup {v} = visited
        BY <3>10
      <4>2. StackInv'
        BY <3>1, <3>9, <3>10, <4>1 DEF StackInv, FramesOK, LeftIsClosed
      <4>3. SetsInv' /\ LoopInv'
        BY <3>1, <3>10 DEF SetsInv, LoopInv
      <4> QED BY <4>2, <4>3
    <3>11. CASE v \notin visited /\ Enter(v, rest)
      <4>1. \A i \in 1..Len(rest) : rest[i].vertex # v
        BY <3>2, <3>6, <3>11 DEF StackInv, FramesOK, n
      <4>2. StackInv'
        BY <3>1, <3>2, <3>8, <3>9, <3>11, <4>1, EnterKeepsStack
      <4>3. SetsInv'
        BY <3>1, <3>2, <3>11, EnterKeepsSets
      <4>4. LoopInv'
        BY <3>1, <3>11 DEF LoopInv, Enter
      <4> QED BY <4>2, <4>3, <4>4
    <3> QED BY <3>3, <3>10, <3>11
  <2>7. CASE Return
    <3>1. /\ pc = "dfs" /\ Top.next = {} /\ stack' = Below /\ stack # <<>>
          /\ UNCHANGED <<vertices, edges, tx_to_objects, keys, visited>>
      BY <2>7 DEF Return, graph, TypeOK
    <3>2. StackInv'
      BY <3>1, ReturnKeepsStack
    <3>3. CASE UNCHANGED <<pc, conflict_set, conflict_sets>>
      BY <3>1, <3>2, <3>3 DEF SetsInv, LoopInv
    <3>4. CASE Len(stack) = 1 /\ pc' = "perform" /\ PushConflictSet
      <4>1. stack' = <<>>
        BY <3>1, <3>4, BelowFacts, EmptySeq DEF TypeOK
      <4>2. SetsInv'
        BY <3>1, <3>2, <3>4, <4>1, PushKeepsSets
      <4>3. LoopInv'
        BY <3>1, <3>4 DEF LoopInv, PushConflictSet
      <4> QED BY <3>2, <4>2, <4>3
    <3> QED BY <2>7, <3>3, <3>4 DEF Return
  <2>8. CASE KeysDone
    <3>1. StackInv' /\ SetsInv'
      BY <2>8 DEF KeysDone, StackInv, FramesOK, LeftIsClosed, DistinctFrames, SetsInv, graph, search
    <3>2. LoopInv'
      BY <2>8 DEF KeysDone, LoopInv, graph, search
    <3> QED BY <3>1, <3>2
  <2>9. CASE UNCHANGED vars
    BY <2>9 DEF vars, StackInv, FramesOK, LeftIsClosed, DistinctFrames, SetsInv, LoopInv
  <2> QED
    BY <2>1, <2>2, <2>3, <2>4, <2>5, <2>6, <2>7, <2>8, <2>9 DEF Next, Terminating
<1> QED
  BY <1>1, <1>2, TypeCorrect, GraphCorrect, PTL DEF Spec

-----------------------------------------------------------------------------
(* The results.                                                             *)

(* `perform` gives a transaction one lock number at most.                   *)
THEOREM OneLock == Spec => []OneLockPerTransaction
<1>1. TypeOK /\ SearchInv => OneLockPerTransaction
  <2> SUFFICES ASSUME TypeOK, SearchInv PROVE OneLockPerTransaction
    OBVIOUS
  <2>1. DOMAIN conflict_sets = 1..Len(conflict_sets)
    BY LenProperties DEF TypeOK
  <2> QED BY <2>1 DEF SearchInv, SetsInv, OneLockPerTransaction
<1> QED BY <1>1, TypeCorrect, SearchCorrect, PTL

(* When `perform` returns, the transactions that use an object are all in   *)
(* one conflict set and in no other, for every program and hash order.      *)
THEOREM SharersLock == Spec => []SharersShareALock
<1>1. TypeOK /\ GraphInv /\ SearchInv => SharersShareALock
  <2> SUFFICES ASSUME TypeOK, GraphInv, SearchInv, pc = "done",
                      NEW o \in Objects, NEW t \in Transaction, Uses(t, o)
               PROVE  \E i \in DOMAIN conflict_sets :
                        \A x \in Transaction : Uses(x, o) => SetsHolding(x) = {i}
    BY DEF SharersShareALock
  <2>1. /\ DOMAIN conflict_sets = 1..Len(conflict_sets)
        /\ DOMAIN allocation_sets = 1..Len(allocation_sets)
        /\ Len(allocation_sets) \in Nat
    BY LenProperties DEF TypeOK
  <2>2. next_set - 1 = Len(allocation_sets)
    BY <2>1 DEF GraphInv
  <2>3. \A x \in Transaction : Uses(x, o) => x \in vertices[o]
    BY <2>1, <2>2 DEF GraphInv, Uses, Seen
  <2>4. t \in vertices[o] /\ o \in visited /\ conflict_set = {}
    BY <2>3 DEF SearchInv, LoopInv
  <2>5. PICK i \in 1..Len(conflict_sets) : vertices[o] \subseteq conflict_sets[i]
    BY <2>4 DEF SearchInv, SetsInv
  <2>6. \A x \in conflict_sets[i] : SetsHolding(x) = {i}
    BY <2>1 DEF SearchInv, SetsInv, SetsHolding
  <2> QED BY <2>1, <2>3, <2>5, <2>6
<1> QED BY <1>1, TypeCorrect, GraphCorrect, SearchCorrect, PTL

(* dfs_util never unwraps a missing vertex: whatever it recurses into has a *)
(* transaction in `vertices`.                                               *)
THEOREM EnteredAreVertices == Spec => []EnteredObjectsAreVertices
<1>1. TypeOK /\ SearchInv => EnteredObjectsAreVertices
  <2> SUFFICES ASSUME TypeOK, SearchInv PROVE EnteredObjectsAreVertices
    OBVIOUS
  <2>1. DOMAIN stack = 1..Len(stack)
    BY LenProperties DEF TypeOK
  <2> QED BY <2>1 DEF SearchInv, StackInv, FramesOK, EnteredObjectsAreVertices
<1> QED BY <1>1, TypeCorrect, SearchCorrect, PTL

(* dfs_util never recurses into an object that is already active: its depth *)
(* is bounded by the number of objects.                                     *)
THEOREM ActiveOnce == Spec => []ActivationsAreDistinct
<1>1. TypeOK /\ SearchInv => ActivationsAreDistinct
  <2> SUFFICES ASSUME TypeOK, SearchInv PROVE ActivationsAreDistinct
    OBVIOUS
  <2>1. DOMAIN stack = 1..Len(stack)
    BY LenProperties DEF TypeOK
  <2> QED BY <2>1 DEF SearchInv, StackInv, DistinctFrames, ActivationsAreDistinct
<1> QED BY <1>1, TypeCorrect, SearchCorrect, PTL

-----------------------------------------------------------------------------
(* Conflict sets are no larger than they must be.                           *)

\* The graph's form of Related, and of "cannot be split".
Linked(s, t) == \E o \in Objects : s \in vertices[o] /\ t \in vertices[o]

Unsplit(C) ==
  \A part \in (SUBSET C) \ {{}, C} : \E s \in part, t \in C \ part : Linked(s, t)

\* An edge comes from a transaction, the activations belong to the component
\* being collected, and it cannot be split, nor can the finished ones; those
\* hold a transaction, and none that uses no object.
ComponentInv ==
  /\ \A u, v \in Objects : v \in edges[u] => \E t \in Transaction : t \in vertices[u] /\ t \in vertices[v]
  /\ \A i \in 1..Len(stack) : vertices[stack[i].vertex] \subseteq conflict_set
  /\ Unsplit(conflict_set)
  /\ \A i \in 1..Len(conflict_sets) : Unsplit(conflict_sets[i])
  /\ \A i \in 1..Len(conflict_sets) : conflict_sets[i] # {}
  /\ \A i \in 1..Len(conflict_sets) : \A t \in conflict_sets[i] : \E o \in Objects : t \in vertices[o]

\* The users of an object are linked by it.
LEMMA UsersUnsplit ==
  ASSUME NEW o \in Objects
  PROVE  Unsplit(vertices[o])
<1> SUFFICES ASSUME NEW part \in (SUBSET vertices[o]) \ {{}, vertices[o]}
             PROVE  \E s \in part, t \in vertices[o] \ part : Linked(s, t)
  BY DEF Unsplit
<1>1. PICK s \in part : TRUE
  OBVIOUS
<1>2. PICK t \in vertices[o] : t \notin part
  OBVIOUS
<1> QED BY <1>1, <1>2 DEF Linked

\* Adding the users of an object to a component that has one of them.
LEMMA UnsplitUnion ==
  ASSUME NEW C, Unsplit(C), NEW o \in Objects, NEW x \in C, x \in vertices[o]
  PROVE  Unsplit(C \cup vertices[o])
<1> DEFINE D == C \cup vertices[o]
<1> SUFFICES ASSUME NEW part \in (SUBSET D) \ {{}, D}
             PROVE  \E s \in part, t \in D \ part : Linked(s, t)
  BY DEF Unsplit
<1>1. CASE part \cap C \notin {{}, C}
  <2>1. PICK s \in part \cap C, t \in C \ (part \cap C) : Linked(s, t)
    BY <1>1 DEF Unsplit
  <2> QED BY <2>1
<1>2. CASE part \cap C = {}
  <2>1. PICK s \in part : s \in vertices[o]
    BY <1>2
  <2>2. Linked(s, x) /\ x \in D \ part
    BY <1>2, <2>1 DEF Linked
  <2> QED BY <2>1, <2>2
<1>3. CASE part \cap C = C
  <2>1. PICK t \in D : t \notin part
    OBVIOUS
  <2>2. Linked(x, t) /\ x \in part
    BY <1>3, <2>1 DEF Linked
  <2> QED BY <2>1, <2>2
<1> QED BY <1>1, <1>2, <1>3

(* What `perform` collects for one conflict set, while it collects it and    *)
(* when it is done, cannot be split.                                        *)
THEOREM ComponentsCorrect == Spec => []ComponentInv
<1>1. Init => ComponentInv
  <2> SUFFICES ASSUME Init PROVE ComponentInv
    OBVIOUS
  <2>1. Len(stack) = 0 /\ Len(conflict_sets) = 0
    BY EmptySeq DEF Init
  <2> QED BY <2>1 DEF Init, ComponentInv, Unsplit
<1>2. TypeOK /\ GraphInv /\ SearchInv /\ ComponentInv /\ [Next]_vars => ComponentInv'
  <2> SUFFICES ASSUME TypeOK, GraphInv, SearchInv, ComponentInv, [Next]_vars
               PROVE  ComponentInv'
    OBVIOUS
  <2>1. CASE CreateVertices
    <3>1. /\ conflict_sets = <<>> /\ conflict_set = {} /\ stack = <<>>
          /\ UNCHANGED <<edges, search>>
      BY <2>1 DEF CreateVertices, SearchInv, LoopInv, TypeOK
    <3>2. Len(stack') = 0 /\ Len(conflict_sets') = 0
      BY <3>1, EmptySeq DEF search
    <3>3. \A o \in Objects : vertices[o] \subseteq vertices'[o]
      BY <2>1 DEF CreateVertices, TypeOK
    <3> QED BY <3>1, <3>2, <3>3 DEF ComponentInv, Unsplit, search
  <2>2. ASSUME NEW x \in Transaction, CreateEdges(x) PROVE ComponentInv'
    <3>1. UNCHANGED <<vertices, stack, conflict_set, conflict_sets>>
      BY <2>2 DEF CreateEdges, graph, search
    <3>2. \A u, v \in Objects :
            v \in edges'[u] => v \in edges[u] \/ (u \in tx_to_objects[x] /\ v \in tx_to_objects[x])
      BY <2>2 DEF CreateEdges, EdgesWith, TypeOK
    <3>3. \A o \in Objects : o \in tx_to_objects[x] => x \in vertices[o]
      BY DEF GraphInv
    <3> QED BY <3>1, <3>2, <3>3 DEF ComponentInv, Unsplit, Linked
  <2>3. CASE VerticesDone \/ EdgesDone \/ KeysDone \/ Terminating \/ UNCHANGED vars
    <3>1. UNCHANGED <<vertices, edges, stack, conflict_set, conflict_sets>>
      BY <2>3 DEF VerticesDone, EdgesDone, KeysDone, Terminating, vars, graph, search
    <3> QED BY <3>1 DEF ComponentInv, Unsplit, Linked
  <2>4. ASSUME NEW v \in Objects, NextKey(v) PROVE ComponentInv'
    <3>1. UNCHANGED <<vertices, edges, conflict_sets>>
      BY <2>4 DEF NextKey, graph
    <3>2. CASE UNCHANGED <<stack, conflict_set>>
      BY <3>1, <3>2 DEF ComponentInv, Unsplit, Linked
    <3>3. CASE Enter(v, stack)
      <4>1. stack = <<>> /\ Len(stack) = 0 /\ stack \in Seq(Frame) /\ conflict_set = {}
        BY <2>4, EmptySeq DEF NextKey, TypeOK, SearchInv, LoopInv
      <4>2. /\ conflict_set' = conflict_set \cup vertices[v]
            /\ Len(stack') = Len(stack) + 1
            /\ stack'[Len(stack) + 1] = [vertex |-> v, next |-> edges[v]]
        BY <3>3, <4>1, EnterFacts
      <4>3. conflict_set' = vertices[v] /\ Len(stack') = 1 /\ stack'[1].vertex = v
        BY <4>1, <4>2
      <4>4. \A i \in 1..Len(stack') : vertices'[stack'[i].vertex] \subseteq conflict_set'
        BY <3>1, <4>3
      <4>5. Unsplit(vertices[v])
        BY UsersUnsplit
      <4> QED BY <3>1, <4>3, <4>4, <4>5 DEF ComponentInv, Unsplit, Linked
    <3> QED BY <2>4, <3>2, <3>3 DEF NextKey
  <2>5. ASSUME NEW v \in Objects, Neighbour(v) PROVE ComponentInv'
    <3> DEFINE n == Len(stack)
               rest == Append(Below, [Top EXCEPT !.next = @ \ {v}])
    <3>1. /\ v \in Top.next /\ stack # <<>> /\ stack \in Seq(Frame)
          /\ UNCHANGED <<vertices, edges, conflict_sets>>
      BY <2>5 DEF Neighbour, TypeOK, graph
    <3>2. /\ n \in Nat \ {0} /\ rest \in Seq(Frame) /\ Len(rest) = n
          /\ \A i \in 1..(n - 1) : rest[i] = stack[i]
          /\ rest[n].vertex = stack[n].vertex
      BY <3>1, BelowFacts, RestFacts DEF Top
    <3>3. \/ stack' = rest /\ UNCHANGED conflict_set
          \/ Enter(v, rest)
      BY <2>5 DEF Neighbour
    <3>4. v \in edges[stack[n].vertex] /\ stack[n].vertex \in Objects
      BY <3>1, <3>2, BelowFacts DEF SearchInv, StackInv, FramesOK, Top, Frame
    <3> HIDE DEF n, rest
    <3>5. \A i \in 1..n : vertices[rest[i].vertex] \subseteq conflict_set
      <4>1. \A i \in 1..n : i \in 1..(n - 1) \/ i = n
        BY <3>2
      <4>2. \A i \in 1..n : rest[i].vertex = stack[i].vertex
        BY <3>2, <4>1
      <4> QED BY <4>2 DEF ComponentInv, n
    <3>6. CASE stack' = rest /\ UNCHANGED conflict_set
      BY <3>1, <3>2, <3>5, <3>6 DEF ComponentInv, Unsplit, Linked
    <3>7. CASE Enter(v, rest)
      <4>1. /\ conflict_set' = conflict_set \cup vertices[v] /\ Len(stack') = n + 1
            /\ \A i \in 1..n : stack'[i] = rest[i]
            /\ stack'[n + 1] = [vertex |-> v, next |-> edges[v]]
        BY <3>2, <3>7, EnterFacts
      <4>2. \A i \in 1..(n + 1) : i \in 1..n \/ i = n + 1
        BY <3>2
      <4>3. \A i \in 1..Len(stack') : vertices'[stack'[i].vertex] \subseteq conflict_set'
        BY <3>1, <3>5, <4>1, <4>2
      <4>4. PICK x \in Transaction : x \in vertices[stack[n].vertex] /\ x \in vertices[v]
        BY <3>4 DEF ComponentInv
      <4>5. x \in conflict_set
        BY <3>2, <4>4 DEF ComponentInv, n
      <4>6. Unsplit(conflict_set)
        BY DEF ComponentInv
      <4>7. Unsplit(conflict_set \cup vertices[v])
        BY <4>4, <4>5, <4>6, UnsplitUnion
      <4> QED BY <3>1, <4>1, <4>3, <4>7 DEF ComponentInv, Unsplit, Linked
    <3> QED BY <3>3, <3>6, <3>7
  <2>6. CASE Return
    <3>1. /\ stack' = Below /\ stack # <<>> /\ stack \in Seq(Frame)
          /\ UNCHANGED <<vertices, edges>>
      BY <2>6 DEF Return, TypeOK, graph
    <3>2. /\ Len(stack) \in Nat \ {0} /\ Len(stack') = Len(stack) - 1
          /\ \A i \in 1..(Len(stack) - 1) : stack'[i] = stack[i]
      BY <3>1, BelowFacts
    <3>3. CASE UNCHANGED <<conflict_set, conflict_sets>>
      <4>1. \A i \in 1..Len(stack') : vertices'[stack'[i].vertex] \subseteq conflict_set'
        BY <3>1, <3>2, <3>3 DEF ComponentInv
      <4> QED BY <3>1, <3>3, <4>1 DEF ComponentInv, Unsplit, Linked
    <3>4. CASE Len(stack) = 1 /\ PushConflictSet
      <4> DEFINE m == Len(conflict_sets)
      <4>1. /\ m \in Nat /\ Len(conflict_sets') = m + 1
            /\ \A i \in 1..m : conflict_sets'[i] = conflict_sets[i]
            /\ conflict_sets'[m + 1] = conflict_set /\ conflict_set' = {}
        BY <3>4, PushFacts DEF PushConflictSet, TypeOK
      <4> HIDE DEF m
      <4>2. \A i \in 1..(m + 1) : i \in 1..m \/ i = m + 1
        BY <4>1
      <4>3. \A i \in 1..(m + 1) : Unsplit(conflict_sets'[i])
        BY <4>1, <4>2 DEF ComponentInv, m
      <4>4. Unsplit(conflict_set')
        BY <4>1 DEF Unsplit
      <4>5. Len(stack') = 0
        BY <3>2, <3>4
      <4>6. conflict_set # {}
        <5>1. /\ vertices[stack[1].vertex] # {}
              /\ vertices[stack[1].vertex] \subseteq conflict_set
          BY <3>4 DEF SearchInv, StackInv, FramesOK, ComponentInv
        <5> QED BY <5>1
      <4>7. \A t \in conflict_set : \E o \in Objects : t \in vertices[o]
        BY DEF SearchInv, SetsInv, TypeOK
      <4>8. \A i \in 1..(m + 1) : /\ conflict_sets'[i] # {}
                                  /\ \A t \in conflict_sets'[i] : \E o \in Objects : t \in vertices[o]
        BY <4>1, <4>2, <4>6, <4>7 DEF ComponentInv, m
      <4>9. (\A i \in 1..Len(conflict_sets) : Unsplit(conflict_sets[i]))' /\ Unsplit(conflict_set)'
        BY <3>1, <4>1, <4>3, <4>4 DEF Unsplit, Linked
      <4> QED BY <3>1, <4>1, <4>5, <4>8, <4>9 DEF ComponentInv
    <3> QED BY <2>6, <3>3, <3>4 DEF Return
  <2> QED BY <2>1, <2>2, <2>3, <2>4, <2>5, <2>6 DEF Next
<1> QED
  BY <1>1, <1>2, TypeCorrect, GraphCorrect, SearchCorrect, PTL DEF Spec

(* A conflict set cannot be split in two parts that touch no common object: *)
(* no transaction is made to wait for one it has nothing to do with, for    *)
(* every program and hash order.                                            *)
THEOREM Connected == Spec => []SetsAreConnected
<1>1. TypeOK /\ GraphInv /\ SearchInv /\ ComponentInv => SetsAreConnected
  <2> SUFFICES ASSUME TypeOK, GraphInv, SearchInv, ComponentInv,
                      NEW i \in DOMAIN conflict_sets,
                      NEW part \in (SUBSET conflict_sets[i]) \ {{}, conflict_sets[i]}
               PROVE  \E s \in part, t \in conflict_sets[i] \ part : Related(s, t)
    BY DEF SetsAreConnected
  <2>1. /\ DOMAIN conflict_sets = 1..Len(conflict_sets)
        /\ DOMAIN allocation_sets = 1..Len(allocation_sets)
        /\ Len(allocation_sets) \in Nat
    BY LenProperties DEF TypeOK
  <2>2. pc # "vertices"
    <3>1. conflict_sets # <<>>
      BY <2>1, EmptySeq
    <3> QED BY <3>1 DEF SearchInv, LoopInv
  <2>3. next_set - 1 = Len(allocation_sets)
    BY <2>1, <2>2 DEF GraphInv
  <2>4. \A x \in Transaction, o \in Objects : x \in vertices[o] => Uses(x, o)
    BY <2>1, <2>3 DEF GraphInv, Uses, Seen
  <2>5. PICK s \in part, t \in conflict_sets[i] \ part : Linked(s, t)
    BY <2>1 DEF ComponentInv, Unsplit
  <2>6. s \in Transaction /\ t \in Transaction
    BY <2>1, <2>5, ElementOfSeq DEF TypeOK
  <2> QED BY <2>4, <2>5, <2>6 DEF Linked, Related
<1> QED BY <1>1, TypeCorrect, GraphCorrect, SearchCorrect, ComponentsCorrect, PTL
=============================================================================
