------------------------- MODULE TransactionMapProofs -------------------------
(***************************************************************************)
(* Proofs about TransactionMap: the traversal of librustc/mir/traversal.rs *)
(* returns, for every control-flow graph, the blocks that can be reached   *)
(* in a reverse postorder, and the maps of transaction_map.rs keep their   *)
(* types.                                                                  *)
(*                                                                         *)
(* Postorder is a depth-first search with an explicit stack.  Its          *)
(* invariant is PostorderInv: the stack is a path, what was yielded has    *)
(* its successors visited, and an edge from a yielded block to one that is *)
(* still on the stack closes a loop.                                       *)
(***************************************************************************)
EXTENDS TransactionMap, SequenceFacts, FiniteSetTheorems

Blocks == BlocksOf(body)

\* There is an edge from b to d.
Edge(b, d) == \E i \in 1..Len(body.succ[b]) : body.succ[b][i] = d

OnStack(b) == \E k \in 1..Len(visit_stack) : visit_stack[k][1] = b
Yielded(b) == \E i \in 1..Len(blocks) : blocks[i] = b

MapShape ==
  /\ body \in Bodies
  /\ visited \subseteq Blocks
  /\ visit_stack \in Seq(Blocks \X Seq(Blocks))
  /\ blocks \in Seq(Blocks)
  /\ idx \in 0..Len(blocks)
  /\ pc \in {"postorder", "visit", "merge", "done", "panic"}
  /\ pc # "postorder" => visit_stack = <<>>
  /\ pc = "postorder" => idx = 0

\* The visited blocks are on the stack or yielded, each of them once.
VisitedOnce ==
  /\ body.start \in visited
  /\ \A b \in visited : OnStack(b) \/ Yielded(b)
  /\ \A k \in 1..Len(visit_stack) : visit_stack[k][1] \in visited /\ ~Yielded(visit_stack[k][1])
  /\ \A k, l \in 1..Len(visit_stack) : visit_stack[k][1] = visit_stack[l][1] => k = l
  /\ \A i \in 1..Len(blocks) : blocks[i] \in visited
  /\ \A i, j \in 1..Len(blocks) : blocks[i] = blocks[j] => i = j

\* The successors of a block on the stack are visited or still to be looked at,
\* those of a yielded block are visited.
SuccessorsInv ==
  /\ \A k \in 1..Len(visit_stack) : \A d \in Blocks : Edge(visit_stack[k][1], d) =>
       d \in visited \/ \E m \in 1..Len(visit_stack[k][2]) : visit_stack[k][2][m] = d
  /\ \A k \in 1..Len(visit_stack) : \A m \in 1..Len(visit_stack[k][2]) :
       Edge(visit_stack[k][1], visit_stack[k][2][m])
  /\ \A i \in 1..Len(blocks) : \A d \in Blocks : Edge(blocks[i], d) => d \in visited

\* The stack is a path from the start, and edges back to it close a loop.
PathInv ==
  /\ \A b \in visited : Leads(body.start, b)
  /\ \A k, l \in 1..Len(visit_stack) : k < l => Leads(visit_stack[k][1], visit_stack[l][1])
  /\ \A i \in 1..Len(blocks) : \A k \in 1..Len(visit_stack) :
       Edge(blocks[i], visit_stack[k][1]) => Leads(visit_stack[k][1], blocks[i])
  /\ \A i, j \in 1..Len(blocks) :
       i < j /\ Edge(blocks[i], blocks[j]) => Leads(blocks[j], blocks[i])

PostorderInv == VisitedOnce /\ SuccessorsInv /\ PathInv

\* The maps: UniqueIds are blocks of this body, or the caller's lock.
MapsInv ==
  /\ transaction_id = {} \/ \E x \in Blocks \cup {OuterLock} : transaction_id = {x}
  /\ DOMAIN lock_to_unlock \subseteq Blocks \cup {OuterLock}
  /\ DOMAIN terminator_to_lock \subseteq Blocks
  /\ DOMAIN terminator_to_tx \subseteq Blocks
  /\ merge_todo \subseteq Blocks
  /\ double_unlock \in BOOLEAN

MapInv == MapShape /\ PostorderInv /\ MapsInv

-----------------------------------------------------------------------------
(* Graphs.                                                                  *)

\* What the constants say of the body.
LEMMA BodyFacts ==
  ASSUME body \in Bodies
  PROVE  /\ body.start \in Blocks
         /\ \A b \in Blocks : body.succ[b] \in Seq(Blocks)
         /\ \A b \in Blocks : \A i \in 1..Len(body.succ[b]) : body.succ[b][i] \in Blocks
         /\ Seeds[body] \subseteq {{}, {OuterLock}}
         /\ \A m \in Inherited[body] : DOMAIN m \subseteq Blocks
<1>1. /\ body.start \in Blocks
      /\ \A b \in Blocks : body.succ[b] \in Seq(Blocks)
      /\ Seeds[body] \subseteq {{}, {OuterLock}}
      /\ \A m \in Inherited[body] : DOMAIN m \subseteq Blocks
  BY BodiesAssumption DEF Blocks
<1>2. \A b \in Blocks : \A i \in 1..Len(body.succ[b]) : body.succ[b][i] \in Blocks
  BY <1>1, ElementOfSeq
<1> QED BY <1>1, <1>2

\* A set is closed if no edge leaves it.
LEMMA ClosedFacts ==
  ASSUME body \in Bodies, NEW S \in SUBSET Blocks
  PROVE  Closed(S) <=> \A b \in S : \A d \in Blocks : Edge(b, d) => d \in S
<1>1. \A b \in Blocks : DOMAIN body.succ[b] = 1..Len(body.succ[b])
  BY BodyFacts, LenProperties
<1>2. \A b \in Blocks : \A i \in 1..Len(body.succ[b]) : body.succ[b][i] \in Blocks
  BY BodyFacts
<1>3. \A b \in S : DOMAIN body.succ[b] = 1..Len(body.succ[b])
  BY <1>1
<1> QED BY <1>2, <1>3 DEF Closed, Edge

\* Paths may be empty, and are prolonged by an edge or another path.
LEMMA LeadsFacts ==
  ASSUME body \in Bodies
  PROVE  /\ \A b : Leads(b, b)
         /\ \A b, c, d : Leads(b, c) /\ Leads(c, d) => Leads(b, d)
         /\ \A b, d \in Blocks : Edge(b, d) => Leads(b, d)
<1>1. \A b : Leads(b, b)
  BY DEF Leads
<1>2. \A b, c, d : Leads(b, c) /\ Leads(c, d) => Leads(b, d)
  BY DEF Leads
<1>3. ASSUME NEW b \in Blocks, NEW d \in Blocks, Edge(b, d) PROVE Leads(b, d)
  <2> SUFFICES ASSUME NEW S \in SUBSET Blocks, b \in S, Closed(S) PROVE d \in S
    BY DEF Leads, Blocks
  <2> QED BY <1>3, ClosedFacts
<1> QED BY <1>1, <1>2, <1>3

\* The body does not change, nor do its paths.
LEMMA BodyFixed ==
  ASSUME body' = body
  PROVE  /\ Blocks' = Blocks
         /\ \A b, d : Edge(b, d)' <=> Edge(b, d)
         /\ \A b, d : Leads(b, d)' <=> Leads(b, d)
BY DEF Blocks, BlocksOf, Edge, Leads, Closed

-----------------------------------------------------------------------------
(* The steps of the traversal.                                              *)

\* The block on top of the stack.
LEMMA TopOfStack ==
  ASSUME MapShape, visit_stack # <<>>
  PROVE  /\ Len(visit_stack) \in Nat \ {0}
         /\ Last(visit_stack) = visit_stack[Len(visit_stack)]
         /\ Last(visit_stack)[1] \in Blocks /\ Last(visit_stack)[2] \in Seq(Blocks)
         /\ \A k \in 1..Len(visit_stack) :
              visit_stack[k][1] \in Blocks /\ visit_stack[k][2] \in Seq(Blocks)
<1>1. visit_stack \in Seq(Blocks \X Seq(Blocks))
  BY DEF MapShape
<1>2. /\ Len(visit_stack) \in Nat \ {0}
      /\ Last(visit_stack) = visit_stack[Len(visit_stack)]
      /\ Last(visit_stack) \in Blocks \X Seq(Blocks)
  BY <1>1, FrontFacts
<1>3. \A k \in 1..Len(visit_stack) : visit_stack[k] \in Blocks \X Seq(Blocks)
  BY <1>1, ElementOfSeq
<1> QED BY <1>2, <1>3

\* The block on top has no successor left: it is yielded, and the edges from it
\* to the blocks below it close loops.
LEMMA YieldKeeps ==
  ASSUME MapShape, PostorderInv, NextInPostorder
  PROVE  MapShape' /\ PostorderInv'
<1> DEFINE n == Len(visit_stack)
           m == Len(blocks)
           t == visit_stack[n][1]
<1>1. /\ pc = "postorder" /\ visit_stack # <<>> /\ Last(visit_stack)[2] = <<>>
      /\ blocks' = Append(blocks, Last(visit_stack)[1])
      /\ visit_stack' = Front(visit_stack)
      /\ body' = body /\ visited' = visited /\ pc' = pc /\ idx' = idx
  BY DEF NextInPostorder, input
<1>2. /\ body \in Bodies /\ visited \subseteq Blocks /\ idx = 0
      /\ visit_stack \in Seq(Blocks \X Seq(Blocks)) /\ blocks \in Seq(Blocks)
  BY <1>1 DEF MapShape
<1>3. /\ Blocks' = Blocks
      /\ \A b, d : Edge(b, d)' <=> Edge(b, d)
      /\ \A b, d : Leads(b, d)' <=> Leads(b, d)
  BY <1>1, BodyFixed
<1>4. /\ n \in Nat \ {0} /\ Last(visit_stack)[1] = t /\ visit_stack[n][2] = <<>> /\ t \in Blocks
      /\ \A k \in 1..n : visit_stack[k][1] \in Blocks
  BY <1>1, TopOfStack
<1>5. /\ visit_stack' \in Seq(Blocks \X Seq(Blocks)) /\ Len(visit_stack') = n - 1
      /\ \A k \in 1..(n - 1) : visit_stack'[k] = visit_stack[k]
  BY <1>1, <1>2, FrontFacts
<1>6. /\ blocks' \in Seq(Blocks) /\ m \in Nat /\ Len(blocks') = m + 1
      /\ \A i \in 1..m : blocks'[i] = blocks[i]
      /\ blocks'[m + 1] = t
  BY <1>1, <1>2, <1>4, PushFacts
<1> HIDE DEF t, n, m
<1>7. /\ 1..(n - 1) \subseteq 1..n /\ n \in 1..n /\ 1..m \subseteq 1..(m + 1) /\ m + 1 \in 1..(m + 1)
      /\ \A i \in 1..(m + 1) : i \in 1..m \/ i = m + 1
      /\ \A k \in 1..n : k \in 1..(n - 1) \/ k = n
      /\ \A k \in 1..(n - 1) : k < n
  BY <1>4, <1>6
<1>8. visit_stack[n][1] = t
  BY DEF t
<1>9. MapShape'
  BY <1>1, <1>2, <1>3, <1>5, <1>6 DEF MapShape
<1>10. /\ \A b \in visited : (\E k \in 1..n : visit_stack[k][1] = b) \/ (\E i \in 1..m : blocks[i] = b)
       /\ \A k \in 1..n : visit_stack[k][1] \in visited
       /\ \A k \in 1..n : \A i \in 1..m : blocks[i] # visit_stack[k][1]
       /\ \A k, l \in 1..n : visit_stack[k][1] = visit_stack[l][1] => k = l
       /\ \A i \in 1..m : blocks[i] \in visited
       /\ \A i, j \in 1..m : blocks[i] = blocks[j] => i = j
       /\ body.start \in visited
  BY DEF PostorderInv, VisitedOnce, OnStack, Yielded, n, m
<1>11. VisitedOnce'
  <2>1. body'.start \in visited'
    BY <1>1, <1>10
  <2>2. ASSUME NEW b \in visited PROVE OnStack(b)' \/ Yielded(b)'
    <3>1. CASE \E i \in 1..m : blocks[i] = b
      BY <1>6, <1>7, <3>1 DEF Yielded
    <3>2. CASE \E k \in 1..(n - 1) : visit_stack[k][1] = b
      BY <1>5, <1>7, <3>2 DEF OnStack
    <3>3. CASE b = t
      BY <1>6, <1>7, <3>3 DEF Yielded
    <3> QED BY <1>7, <1>8, <1>10, <3>1, <3>2, <3>3
  <2>3. ASSUME NEW k \in 1..(n - 1), NEW i \in 1..(m + 1)
        PROVE  visit_stack'[k][1] \in visited /\ blocks'[i] # visit_stack'[k][1]
    <3>1. visit_stack'[k] = visit_stack[k] /\ k \in 1..n /\ k # n
      BY <1>4, <1>5
    <3>2. CASE i \in 1..m
      BY <1>6, <1>10, <3>1, <3>2
    <3>3. CASE i = m + 1
      BY <1>6, <1>7, <1>8, <1>10, <3>1, <3>3
    <3> QED BY <1>7, <3>2, <3>3
  <2>4. ASSUME NEW k \in 1..(n - 1), NEW l \in 1..(n - 1), visit_stack'[k][1] = visit_stack'[l][1]
        PROVE  k = l
    <3>1. visit_stack'[k] = visit_stack[k] /\ visit_stack'[l] = visit_stack[l]
      BY <1>5
    <3>2. k \in 1..n /\ l \in 1..n
      BY <1>7
    <3> QED BY <1>10, <2>4, <3>1, <3>2
  <2>5. \A i \in 1..(m + 1) : blocks'[i] \in visited
    BY <1>6, <1>7, <1>8, <1>10
  <2>6. ASSUME NEW i \in 1..(m + 1), NEW j \in 1..(m + 1), blocks'[i] = blocks'[j] PROVE i = j
    BY <1>6, <1>7, <1>8, <1>10, <2>6
  <2>7. ASSUME NEW k \in 1..(n - 1)
        PROVE  visit_stack'[k][1] \in visited' /\ ~Yielded(visit_stack[k][1])'
    <3>1. visit_stack'[k] = visit_stack[k]
      BY <1>5
    <3> QED BY <1>1, <1>6, <1>7, <2>3, <3>1 DEF Yielded
  <2>8. \A b \in visited' : OnStack(b)' \/ Yielded(b)'
    BY <1>1, <2>2
  <2>9. \A k \in 1..Len(visit_stack') : visit_stack'[k][1] \in visited' /\ ~Yielded(visit_stack[k][1])'
    BY <1>5, <2>7
  <2> QED BY <1>1, <1>5, <1>6, <2>1, <2>4, <2>5, <2>6, <2>8, <2>9 DEF VisitedOnce
<1>12. /\ \A k \in 1..n : \A d \in Blocks : Edge(visit_stack[k][1], d) =>
            d \in visited \/ \E l \in 1..Len(visit_stack[k][2]) : visit_stack[k][2][l] = d
       /\ \A k \in 1..n : \A l \in 1..Len(visit_stack[k][2]) :
            Edge(visit_stack[k][1], visit_stack[k][2][l])
       /\ \A i \in 1..m : \A d \in Blocks : Edge(blocks[i], d) => d \in visited
  BY DEF PostorderInv, SuccessorsInv, n, m
<1>13. \A d \in Blocks : Edge(t, d) => d \in visited
  <2>1. Len(visit_stack[n][2]) = 0
    BY <1>4
  <2> QED BY <1>7, <1>8, <1>12, <2>1
<1>14. SuccessorsInv'
  <2>1. ASSUME NEW k \in 1..(n - 1)
        PROVE  /\ \A d \in Blocks : Edge(visit_stack'[k][1], d) =>
                    d \in visited \/ \E l \in 1..Len(visit_stack'[k][2]) : visit_stack'[k][2][l] = d
               /\ \A l \in 1..Len(visit_stack'[k][2]) : Edge(visit_stack'[k][1], visit_stack'[k][2][l])
    <3>1. visit_stack'[k] = visit_stack[k] /\ k \in 1..n
      BY <1>4, <1>5
    <3> QED BY <1>12, <3>1
  <2>2. \A i \in 1..(m + 1) : \A d \in Blocks : Edge(blocks'[i], d) => d \in visited
    BY <1>6, <1>7, <1>12, <1>13
  <2> QED BY <1>1, <1>3, <1>5, <1>6, <2>1, <2>2 DEF SuccessorsInv
<1>15. /\ \A b \in visited : Leads(body.start, b)
       /\ \A k, l \in 1..n : k < l => Leads(visit_stack[k][1], visit_stack[l][1])
       /\ \A i \in 1..m : \A k \in 1..n :
            Edge(blocks[i], visit_stack[k][1]) => Leads(visit_stack[k][1], blocks[i])
       /\ \A i, j \in 1..m : i < j /\ Edge(blocks[i], blocks[j]) => Leads(blocks[j], blocks[i])
  BY DEF PostorderInv, PathInv, n, m
<1>16. PathInv'
  <2>1. \A k, l \in 1..(n - 1) : k < l => Leads(visit_stack'[k][1], visit_stack'[l][1])
    BY <1>5, <1>7, <1>15
  <2>2. ASSUME NEW i \in 1..(m + 1), NEW k \in 1..(n - 1), Edge(blocks'[i], visit_stack'[k][1])
        PROVE  Leads(visit_stack'[k][1], blocks'[i])
    BY <1>5, <1>6, <1>7, <1>8, <1>15, <2>2
  <2>3. ASSUME NEW i \in 1..(m + 1), NEW j \in 1..(m + 1), i < j, Edge(blocks'[i], blocks'[j])
        PROVE  Leads(blocks'[j], blocks'[i])
    <3>1. i \in 1..m
      BY <1>6, <2>3
    <3>2. CASE j \in 1..m
      BY <1>6, <1>15, <2>3, <3>1, <3>2
    <3>3. CASE j = m + 1
      BY <1>6, <1>7, <1>8, <1>15, <2>3, <3>1, <3>3
    <3> QED BY <1>7, <3>2, <3>3
  <2>4. \A b \in visited : Leads(body.start, b)
    BY <1>15
  <2> QED BY <1>1, <1>3, <1>5, <1>6, <2>1, <2>2, <2>3, <2>4 DEF PathInv
<1> QED BY <1>9, <1>11, <1>14, <1>16 DEF PostorderInv


\* The next successor of the block on top was visited before: only the list of
\* successors that are left gets shorter.
LEMMA SkipKeeps ==
  ASSUME MapShape, PostorderInv, TraverseSuccessor, Head(Last(visit_stack)[2]) \in visited
  PROVE  MapShape' /\ PostorderInv'
<1> DEFINE n == Len(visit_stack)
           m == Len(blocks)
           t == visit_stack[n][1]
           s == visit_stack[n][2]
<1>1. /\ pc = "postorder" /\ visit_stack # <<>> /\ Last(visit_stack)[2] # <<>>
      /\ visited' = visited
      /\ visit_stack' = Append(Front(visit_stack), <<Last(visit_stack)[1], Tail(Last(visit_stack)[2])>>)
      /\ body' = body /\ blocks' = blocks /\ pc' = pc /\ idx' = idx
  BY DEF TraverseSuccessor, input
<1>2. /\ body \in Bodies /\ visited \subseteq Blocks /\ idx = 0
      /\ visit_stack \in Seq(Blocks \X Seq(Blocks)) /\ blocks \in Seq(Blocks)
  BY <1>1 DEF MapShape
<1>3. /\ Blocks' = Blocks
      /\ \A b, d : Edge(b, d)' <=> Edge(b, d)
      /\ \A b, d : Leads(b, d)' <=> Leads(b, d)
  BY <1>1, BodyFixed
<1>4. /\ n \in Nat \ {0} /\ Last(visit_stack)[1] = t /\ Last(visit_stack)[2] = s
      /\ t \in Blocks /\ s \in Seq(Blocks) /\ s # <<>>
      /\ \A k \in 1..n : visit_stack[k][1] \in Blocks
  BY <1>1, TopOfStack
<1>5. /\ Tail(s) \in Seq(Blocks) /\ Head(s) = s[1] /\ Len(s) \in Nat \ {0}
      /\ Len(Tail(s)) = Len(s) - 1
      /\ \A i \in 1..Len(Tail(s)) : i + 1 \in 1..Len(s) /\ Tail(s)[i] = s[i + 1]
  BY <1>4, TailFacts
<1>6. <<t, Tail(s)>> \in Blocks \X Seq(Blocks)
  BY <1>4, <1>5
<1>7. /\ visit_stack' \in Seq(Blocks \X Seq(Blocks)) /\ visit_stack' # <<>>
      /\ Len(visit_stack') = n
      /\ \A k \in 1..(n - 1) : visit_stack'[k] = visit_stack[k]
      /\ visit_stack'[n] = <<t, Tail(s)>>
  <2> DEFINE e == <<t, Tail(s)>>
             S == Blocks \X Seq(Blocks)
  <2>1. visit_stack' = Append(Front(visit_stack), e) /\ visit_stack # <<>>
    BY <1>1, <1>4
  <2>2. e \in S /\ visit_stack \in Seq(S)
    BY <1>2, <1>6
  <2> HIDE DEF e, S
  <2>3. /\ visit_stack' \in Seq(S) /\ visit_stack' # <<>>
        /\ Len(visit_stack') = n
        /\ \A k \in 1..(n - 1) : visit_stack'[k] = visit_stack[k]
        /\ visit_stack'[n] = e
    BY <2>1, <2>2, ReplaceLastFacts
  <2> QED BY <2>3 DEF e, S
<1>8. \A k \in 1..n : visit_stack'[k][1] = visit_stack[k][1]
  <2>1. visit_stack'[n][1] = visit_stack[n][1]
    BY <1>7
  <2>2. \A k \in 1..n : k \in 1..(n - 1) \/ k = n
    BY <1>4
  <2> HIDE DEF n
  <2> QED BY <1>7, <2>1, <2>2
<1>9. MapShape'
  BY <1>1, <1>2, <1>3, <1>7 DEF MapShape
<1>10. VisitedOnce'
  <2>1. \A b : OnStack(b)' <=> OnStack(b)
    BY <1>7, <1>8 DEF OnStack
  <2>2. \A b : Yielded(b)' <=> Yielded(b)
    BY <1>1 DEF Yielded
  <2>3. \A k \in 1..n : visit_stack'[k][1] \in visited /\ ~Yielded(visit_stack[k][1])'
    <3> SUFFICES ASSUME NEW k \in 1..n
                 PROVE  visit_stack'[k][1] \in visited /\ ~Yielded(visit_stack[k][1])'
      OBVIOUS
    <3>1. visit_stack'[k][1] = visit_stack[k][1]
      BY <1>8
    <3>2. visit_stack[k][1] \in visited /\ \A i \in 1..m : blocks[i] # visit_stack[k][1]
      BY DEF PostorderInv, VisitedOnce, Yielded
    <3> QED BY <1>1, <3>1, <3>2 DEF Yielded
  <2> QED BY <1>1, <1>7, <1>8, <2>1, <2>2, <2>3 DEF PostorderInv, VisitedOnce
<1>11. PathInv'
  BY <1>1, <1>3, <1>7, <1>8 DEF PostorderInv, PathInv
<1>12. s[1] \in visited
  BY <1>4, <1>5
<1>13. /\ \A k \in 1..n : \A d \in Blocks : Edge(visit_stack[k][1], d) =>
            d \in visited \/ \E l \in 1..Len(visit_stack[k][2]) : visit_stack[k][2][l] = d
       /\ \A k \in 1..n : \A l \in 1..Len(visit_stack[k][2]) :
            Edge(visit_stack[k][1], visit_stack[k][2][l])
       /\ \A i \in 1..m : \A d \in Blocks : Edge(blocks[i], d) => d \in visited
  BY DEF PostorderInv, SuccessorsInv
<1>14. SuccessorsInv'
  <2>1. ASSUME NEW k \in 1..n
        PROVE  /\ \A d \in Blocks : Edge(visit_stack'[k][1], d) =>
                    d \in visited \/ \E l \in 1..Len(visit_stack'[k][2]) : visit_stack'[k][2][l] = d
               /\ \A l \in 1..Len(visit_stack'[k][2]) : Edge(visit_stack'[k][1], visit_stack'[k][2][l])
    <3>1. CASE k # n
      <4>1. visit_stack'[k] = visit_stack[k]
        BY <1>4, <1>7, <3>1
      <4> QED BY <1>13, <4>1
    <3>2. CASE k = n
      <4> HIDE DEF t, s
      <4>1. visit_stack'[k][1] = t /\ visit_stack'[k][2] = Tail(s)
        BY <1>7, <3>2
      <4>2. n \in 1..n
        BY <1>4
      <4>3. /\ \A d \in Blocks : Edge(t, d) => d \in visited \/ \E l \in 1..Len(s) : s[l] = d
            /\ \A l \in 1..Len(s) : Edge(t, s[l])
        BY <1>13, <4>2 DEF t, s
      <4>4. ASSUME NEW d \in Blocks, Edge(t, d), d \notin visited
            PROVE  \E l \in 1..Len(Tail(s)) : Tail(s)[l] = d
        <5>1. PICK l \in 1..Len(s) : s[l] = d
          BY <4>3, <4>4
        <5>2. l - 1 \in 1..Len(Tail(s)) /\ (l - 1) + 1 = l
          BY <1>5, <1>12, <4>4, <5>1
        <5> QED BY <1>5, <5>1, <5>2
      <4>5. \A l \in 1..Len(Tail(s)) : Edge(t, Tail(s)[l])
        BY <1>5, <4>3
      <4> QED BY <4>1, <4>4, <4>5
    <3> QED BY <3>1, <3>2
  <2>2. visited' = visited /\ Len(visit_stack') = n
    BY <1>1, <1>7
  <2>3. \A k \in 1..Len(visit_stack') : \A d \in Blocks' : Edge(visit_stack[k][1], d)' =>
          d \in visited' \/ \E l \in 1..Len(visit_stack'[k][2]) : visit_stack'[k][2][l] = d
    BY <1>3, <2>1, <2>2
  <2>4. \A k \in 1..Len(visit_stack') : \A l \in 1..Len(visit_stack'[k][2]) :
          Edge(visit_stack[k][1], visit_stack[k][2][l])'
    BY <1>3, <2>1, <2>2
  <2>5. \A i \in 1..Len(blocks') : \A d \in Blocks' : Edge(blocks[i], d)' => d \in visited'
    BY <1>1, <1>3, <1>13
  <2> QED BY <2>3, <2>4, <2>5 DEF SuccessorsInv
<1> QED BY <1>9, <1>10, <1>11, <1>14 DEF PostorderInv


\* The next successor of the block on top is new: it is pushed, and the path on
\* the stack goes on to it.
LEMMA PushKeeps ==
  ASSUME MapShape, PostorderInv, TraverseSuccessor, Head(Last(visit_stack)[2]) \notin visited
  PROVE  MapShape' /\ PostorderInv'
<1> DEFINE n == Len(visit_stack)
           m == Len(blocks)
           t == visit_stack[n][1]
           s == visit_stack[n][2]
           c == Head(s)
           e == <<t, Tail(s)>>
           f == <<c, body.succ[c]>>
           S == Blocks \X Seq(Blocks)
<1>1. /\ pc = "postorder" /\ visit_stack # <<>> /\ Last(visit_stack)[2] # <<>>
      /\ visited' = visited \cup {Head(Last(visit_stack)[2])}
      /\ visit_stack' = Append(Append(Front(visit_stack),
                                      <<Last(visit_stack)[1], Tail(Last(visit_stack)[2])>>),
                               <<Head(Last(visit_stack)[2]), body.succ[Head(Last(visit_stack)[2])]>>)
      /\ body' = body /\ blocks' = blocks /\ pc' = pc /\ idx' = idx
  BY DEF TraverseSuccessor, input
<1>2. /\ body \in Bodies /\ visited \subseteq Blocks /\ idx = 0
      /\ visit_stack \in Seq(S) /\ blocks \in Seq(Blocks)
  BY <1>1 DEF MapShape
<1>3. /\ Blocks' = Blocks
      /\ \A b, d : Edge(b, d)' <=> Edge(b, d)
      /\ \A b, d : Leads(b, d)' <=> Leads(b, d)
  BY <1>1, BodyFixed
<1>4. /\ n \in Nat \ {0} /\ Last(visit_stack)[1] = t /\ Last(visit_stack)[2] = s
      /\ t \in Blocks /\ s \in Seq(Blocks) /\ s # <<>>
      /\ \A k \in 1..n : visit_stack[k][1] \in Blocks
  BY <1>1, TopOfStack
<1>5. /\ Tail(s) \in Seq(Blocks) /\ c = s[1] /\ c \in Blocks /\ Len(s) \in Nat \ {0}
      /\ Len(Tail(s)) = Len(s) - 1
      /\ \A i \in 1..Len(Tail(s)) : i + 1 \in 1..Len(s) /\ Tail(s)[i] = s[i + 1]
  BY <1>4, TailFacts
<1>6. visited' = visited \cup {c} /\ c \notin visited /\ visit_stack # <<>>
      /\ visit_stack' = Append(Append(Front(visit_stack), e), f)
  BY <1>1, <1>4
<1>7. e \in S /\ f \in S
  BY <1>2, <1>4, <1>5, BodyFacts
<1>8. /\ visit_stack' \in Seq(S) /\ visit_stack' # <<>>
      /\ Len(visit_stack') = n + 1
      /\ \A k \in 1..(n - 1) : visit_stack'[k] = visit_stack[k]
      /\ visit_stack'[n] = e
      /\ visit_stack'[n + 1] = f
  <2> HIDE DEF e, f, S
  <2> DEFINE r == Append(Front(visit_stack), e)
  <2>1. /\ r \in Seq(S) /\ Len(r) = n
        /\ \A k \in 1..(n - 1) : r[k] = visit_stack[k]
        /\ r[n] = e
    BY <1>2, <1>6, <1>7, ReplaceLastFacts
  <2>2. visit_stack' = Append(r, f)
    BY <1>6
  <2> HIDE DEF r
  <2>3. /\ visit_stack' \in Seq(S) /\ visit_stack' # <<>>
        /\ Len(visit_stack') = Len(r) + 1
        /\ \A k \in 1..Len(r) : visit_stack'[k] = r[k]
        /\ visit_stack'[Len(r) + 1] = f
    BY <1>7, <2>1, <2>2, PushFacts
  <2> QED BY <1>4, <2>1, <2>3
<1>9. visit_stack[n][1] = t /\ visit_stack[n][2] = s
  OBVIOUS
<1>10. Edge(t, c)
  <2>1. \A l \in 1..Len(visit_stack[n][2]) : Edge(visit_stack[n][1], visit_stack[n][2][l])
    BY <1>4 DEF PostorderInv, SuccessorsInv
  <2> QED BY <1>5, <2>1
<1>11. /\ \A k \in 1..n : visit_stack'[k][1] = visit_stack[k][1]
       /\ visit_stack'[n + 1][1] = c /\ visit_stack'[n + 1][2] = body.succ[c]
       /\ visit_stack'[n][2] = Tail(s)
       /\ n \in 1..n /\ n + 1 \in 1..(n + 1) /\ 1..n \subseteq 1..(n + 1)
       /\ \A k \in 1..(n + 1) : k \in 1..n \/ k = n + 1
  <2>1. /\ n \in 1..n /\ n + 1 \in 1..(n + 1) /\ 1..n \subseteq 1..(n + 1)
        /\ \A k \in 1..(n + 1) : k \in 1..n \/ k = n + 1
        /\ \A k \in 1..n : k \in 1..(n - 1) \/ k = n
    BY <1>4
  <2>2. /\ visit_stack'[n + 1][1] = c /\ visit_stack'[n + 1][2] = body.succ[c]
        /\ visit_stack'[n][1] = t /\ visit_stack'[n][2] = Tail(s)
    BY <1>8
  <2>3. \A k \in 1..n : visit_stack'[k][1] = visit_stack[k][1]
    <3> HIDE DEF n, t, s, c
    <3> QED BY <1>8, <1>9, <2>1, <2>2
  <2> QED BY <2>1, <2>2, <2>3
<1>12. MapShape'
  BY <1>1, <1>2, <1>3, <1>5, <1>6, <1>8 DEF MapShape
<1> HIDE DEF n, m, t, s, c, e, f, S
<1>13. /\ \A b \in visited : (\E k \in 1..n : visit_stack[k][1] = b) \/ (\E i \in 1..m : blocks[i] = b)
       /\ \A k \in 1..n : visit_stack[k][1] \in visited
       /\ \A k \in 1..n : \A i \in 1..m : blocks[i] # visit_stack[k][1]
       /\ \A k, l \in 1..n : visit_stack[k][1] = visit_stack[l][1] => k = l
       /\ \A i \in 1..m : blocks[i] \in visited
       /\ \A i, j \in 1..m : blocks[i] = blocks[j] => i = j
       /\ body.start \in visited
  BY DEF PostorderInv, VisitedOnce, OnStack, Yielded, n, m
<1>14. VisitedOnce'
  <2>1. ASSUME NEW b \in visited' PROVE OnStack(b)' \/ Yielded(b)'
    <3>1. CASE b = c
      BY <1>8, <1>11, <3>1 DEF OnStack
    <3>2. CASE \E k \in 1..n : visit_stack[k][1] = b
      BY <1>8, <1>11, <3>2 DEF OnStack
    <3>3. CASE \E i \in 1..m : blocks[i] = b
      BY <1>1, <3>3 DEF Yielded, m
    <3> QED BY <1>6, <1>13, <3>1, <3>2, <3>3
  <2>2. ASSUME NEW k \in 1..(n + 1)
        PROVE  visit_stack'[k][1] \in visited' /\ ~Yielded(visit_stack[k][1])'
    <3>1. visit_stack'[k][1] \in visited' /\ \A i \in 1..m : blocks[i] # visit_stack'[k][1]
      <4>1. CASE k \in 1..n
        <5>1. visit_stack'[k][1] = visit_stack[k][1]
          BY <1>11, <4>1
        <5> QED BY <1>6, <1>13, <4>1, <5>1
      <4>2. CASE k = n + 1
        <5>1. visit_stack'[k][1] = c
          BY <1>11, <4>2
        <5> QED BY <1>6, <1>13, <5>1
      <4> QED BY <1>11, <4>1, <4>2
    <3> QED BY <1>1, <3>1 DEF Yielded, m
  <2>3. ASSUME NEW k \in 1..(n + 1), NEW l \in 1..(n + 1), visit_stack'[k][1] = visit_stack'[l][1]
        PROVE  k = l
    <3>1. CASE k \in 1..n /\ l \in 1..n
      BY <1>11, <1>13, <2>3, <3>1
    <3>2. CASE k \in 1..n /\ l = n + 1
      <4>1. visit_stack'[k][1] \in visited /\ visit_stack'[l][1] = c
        BY <1>11, <1>13, <3>2
      <4> QED BY <1>6, <2>3, <4>1
    <3>3. CASE k = n + 1 /\ l \in 1..n
      <4>1. visit_stack'[l][1] \in visited /\ visit_stack'[k][1] = c
        BY <1>11, <1>13, <3>3
      <4> QED BY <1>6, <2>3, <4>1
    <3> QED BY <1>11, <3>1, <3>2, <3>3
  <2>4. \A i \in 1..Len(blocks') : blocks'[i] \in visited'
    BY <1>1, <1>6, <1>13 DEF m
  <2>5. \A i, j \in 1..Len(blocks') : blocks'[i] = blocks'[j] => i = j
    BY <1>1, <1>13 DEF m
  <2>6. body'.start \in visited'
    BY <1>1, <1>6, <1>13
  <2> QED BY <1>8, <2>1, <2>2, <2>3, <2>4, <2>5, <2>6 DEF VisitedOnce
<1>15. /\ \A k \in 1..n : \A d \in Blocks : Edge(visit_stack[k][1], d) =>
            d \in visited \/ \E l \in 1..Len(visit_stack[k][2]) : visit_stack[k][2][l] = d
       /\ \A k \in 1..n : \A l \in 1..Len(visit_stack[k][2]) :
            Edge(visit_stack[k][1], visit_stack[k][2][l])
       /\ \A i \in 1..m : \A d \in Blocks : Edge(blocks[i], d) => d \in visited
  BY DEF PostorderInv, SuccessorsInv, n, m
<1>16. SuccessorsInv'
  <2>1. ASSUME NEW k \in 1..(n + 1)
        PROVE  /\ \A d \in Blocks : Edge(visit_stack'[k][1], d) =>
                    d \in visited' \/ \E l \in 1..Len(visit_stack'[k][2]) : visit_stack'[k][2][l] = d
               /\ \A l \in 1..Len(visit_stack'[k][2]) : Edge(visit_stack'[k][1], visit_stack'[k][2][l])
    <3>1. CASE k \in 1..(n - 1)
      <4>1. visit_stack'[k] = visit_stack[k] /\ k \in 1..n
        BY <1>4, <1>8, <3>1
      <4> QED BY <1>6, <1>15, <4>1
    <3>2. CASE k = n
      <4>1. visit_stack'[k][1] = t /\ visit_stack'[k][2] = Tail(s)
        BY <1>9, <1>11, <3>2
      <4>2. /\ \A d \in Blocks : Edge(t, d) => d \in visited \/ \E l \in 1..Len(s) : s[l] = d
            /\ \A l \in 1..Len(s) : Edge(t, s[l])
        BY <1>9, <1>11, <1>15
      <4>3. ASSUME NEW d \in Blocks, Edge(t, d), d \notin visited'
            PROVE  \E l \in 1..Len(Tail(s)) : Tail(s)[l] = d
        <5>1. PICK l \in 1..Len(s) : s[l] = d
          BY <1>6, <4>2, <4>3
        <5>2. l # 1
          BY <1>5, <1>6, <4>3, <5>1
        <5>3. l - 1 \in 1..Len(Tail(s)) /\ (l - 1) + 1 = l
          BY <1>5, <5>2
        <5> QED BY <1>5, <5>1, <5>3
      <4>4. \A l \in 1..Len(Tail(s)) : Edge(t, Tail(s)[l])
        BY <1>5, <4>2
      <4> QED BY <4>1, <4>3, <4>4
    <3>3. CASE k = n + 1
      <4>1. visit_stack'[k][1] = c /\ visit_stack'[k][2] = body.succ[c]
        BY <1>11, <3>3
      <4> QED BY <4>1 DEF Edge
    <3> QED BY <1>4, <3>1, <3>2, <3>3
  <2>2. Len(visit_stack') = n + 1
    BY <1>8
  <2>3. \A k \in 1..Len(visit_stack') : \A d \in Blocks' : Edge(visit_stack[k][1], d)' =>
          d \in visited' \/ \E l \in 1..Len(visit_stack'[k][2]) : visit_stack'[k][2][l] = d
    BY <1>3, <2>1, <2>2
  <2>4. \A k \in 1..Len(visit_stack') : \A l \in 1..Len(visit_stack'[k][2]) :
          Edge(visit_stack[k][1], visit_stack[k][2][l])'
    BY <1>3, <2>1, <2>2
  <2>5. \A i \in 1..Len(blocks') : \A d \in Blocks' : Edge(blocks[i], d)' => d \in visited'
    BY <1>1, <1>3, <1>6, <1>15 DEF m
  <2> QED BY <2>3, <2>4, <2>5 DEF SuccessorsInv
<1>17. /\ \A b \in visited : Leads(body.start, b)
       /\ \A k, l \in 1..n : k < l => Leads(visit_stack[k][1], visit_stack[l][1])
       /\ \A i \in 1..m : \A k \in 1..n :
            Edge(blocks[i], visit_stack[k][1]) => Leads(visit_stack[k][1], blocks[i])
       /\ \A i, j \in 1..m : i < j /\ Edge(blocks[i], blocks[j]) => Leads(blocks[j], blocks[i])
  BY DEF PostorderInv, PathInv, n, m
<1>18. Leads(t, c)
  BY <1>2, <1>4, <1>5, <1>10, LeadsFacts
<1>19. PathInv'
  <2>1. ASSUME NEW b \in visited' PROVE Leads(body.start, b)
    BY <1>2, <1>6, <1>9, <1>11, <1>13, <1>17, <1>18, LeadsFacts
  <2>2. ASSUME NEW k \in 1..(n + 1), NEW l \in 1..(n + 1), k < l
        PROVE  Leads(visit_stack'[k][1], visit_stack'[l][1])
    <3>1. k \in 1..n /\ visit_stack'[k][1] = visit_stack[k][1]
      BY <1>4, <1>11, <2>2
    <3>2. CASE l \in 1..n
      BY <1>11, <1>17, <2>2, <3>1, <3>2
    <3>3. CASE l = n + 1
      <4>1. Leads(visit_stack[k][1], t)
        <5>1. CASE k = n
          BY <1>2, <1>9, <5>1, LeadsFacts
        <5>2. CASE k # n
          BY <1>4, <1>9, <1>11, <1>17, <3>1, <5>2
        <5> QED BY <5>1, <5>2
      <4> QED BY <1>2, <1>11, <1>18, <3>1, <3>3, <4>1, LeadsFacts
    <3> QED BY <1>11, <3>2, <3>3
  <2>3. ASSUME NEW i \in 1..m, NEW k \in 1..(n + 1), Edge(blocks[i], visit_stack'[k][1])
        PROVE  Leads(visit_stack'[k][1], blocks[i])
    <3>1. CASE k \in 1..n
      BY <1>11, <1>17, <2>3, <3>1
    <3>2. CASE k = n + 1
      BY <1>5, <1>6, <1>11, <1>15, <2>3, <3>2
    <3> QED BY <1>11, <3>1, <3>2
  <2>4. \A b \in visited' : Leads(body.start, b)'
    BY <1>1, <1>3, <2>1
  <2>5. \A k, l \in 1..Len(visit_stack') : k < l => Leads(visit_stack[k][1], visit_stack[l][1])'
    BY <1>3, <1>8, <2>2
  <2>6. \A i \in 1..Len(blocks') : \A k \in 1..Len(visit_stack') :
          Edge(blocks[i], visit_stack[k][1])' => Leads(visit_stack[k][1], blocks[i])'
    BY <1>1, <1>3, <1>8, <2>3 DEF m
  <2>7. \A i, j \in 1..Len(blocks') :
          i < j /\ Edge(blocks[i], blocks[j])' => Leads(blocks[j], blocks[i])'
    BY <1>1, <1>3, <1>17 DEF m
  <2> QED BY <2>4, <2>5, <2>6, <2>7 DEF PathInv
<1> QED BY <1>12, <1>14, <1>16, <1>19 DEF PostorderInv


-----------------------------------------------------------------------------
(* The traversal is done.                                                   *)

\* When a step leaves the traversal alone, its invariant stays.
LEMMA TraversalKept ==
  ASSUME PostorderInv, body' = body, UNCHANGED traversal
  PROVE  PostorderInv'
<1>1. visited' = visited /\ visit_stack' = visit_stack /\ blocks' = blocks
  BY DEF traversal
<1>2. /\ Blocks' = Blocks
      /\ \A b, d : Edge(b, d)' <=> Edge(b, d)
      /\ \A b, d : Leads(b, d)' <=> Leads(b, d)
  BY BodyFixed
<1>3. VisitedOnce'
  BY <1>1 DEF PostorderInv, VisitedOnce, OnStack, Yielded
<1>4. SuccessorsInv'
  BY <1>1, <1>2 DEF PostorderInv, SuccessorsInv
<1>5. PathInv'
  BY <1>1, <1>2 DEF PostorderInv, PathInv
<1> QED BY <1>3, <1>4, <1>5 DEF PostorderInv

\* visit_terminator, the loop that merges, and their ends.
VisitStep ==
  \/ PostorderDone
  \/ VisitLock \/ VisitUnlock \/ DoubleUnlock \/ VisitCall \/ VisitOther \/ VisitDone
  \/ \E term \in BlocksOf(body) : MergeTerminator(term)
  \/ MergeDone

\* They go through the blocks that were yielded.
LEMMA VisitShape ==
  ASSUME MapShape, VisitStep
  PROVE  MapShape' /\ body' = body /\ UNCHANGED traversal
<1>1. body' = body /\ UNCHANGED traversal
  BY DEF VisitStep, PostorderDone, VisitLock, VisitUnlock, DoubleUnlock, VisitCall, VisitOther,
         VisitDone, MergeTerminator, MergeDone, Visiting, input
<1>2. Len(blocks) \in Nat
  BY LenProperties DEF MapShape
<1>3. /\ idx' \in 0..Len(blocks)
      /\ pc' \in {"visit", "merge", "done", "panic"}
      /\ visit_stack = <<>>
  <2>1. CASE PostorderDone
    BY <1>2, <2>1 DEF PostorderDone
  <2>2. CASE VisitLock \/ VisitUnlock \/ DoubleUnlock \/ VisitCall \/ VisitOther
    <3>1. \E kind \in Kinds : Visiting(kind)
      BY <2>2 DEF VisitLock, VisitUnlock, DoubleUnlock, VisitCall, VisitOther, Kinds
    <3>2. pc = "visit" /\ idx > 0 /\ idx' = idx - 1 /\ pc' = pc /\ idx \in 0..Len(blocks)
      BY <3>1 DEF Visiting, MapShape
    <3>3. visit_stack = <<>>
      BY <3>2 DEF MapShape
    <3> QED BY <1>2, <3>2, <3>3
  <2>3. CASE VisitDone \/ MergeDone \/ \E term \in BlocksOf(body) : MergeTerminator(term)
    BY <2>3 DEF VisitDone, MergeDone, MergeTerminator, MapShape
  <2> QED BY <2>1, <2>2, <2>3 DEF VisitStep
<1>4. Blocks' = Blocks
  BY <1>1, BodyFixed
<1> QED BY <1>1, <1>3, <1>4 DEF MapShape, traversal

\* The maps keep their keys among the UniqueIds of the body, whatever is
\* visited and merged.
LEMMA MapsKept ==
  ASSUME MapShape, MapsInv, MapStep
  PROVE  MapsInv'
<1>1. body' = body /\ Blocks' = Blocks
  <2>1. body' = body
    BY DEF MapStep, TraverseSuccessor, NextInPostorder, PostorderDone, VisitLock, VisitUnlock,
           DoubleUnlock, VisitCall, VisitOther, VisitDone, MergeTerminator, MergeDone, Visiting, input
  <2> QED BY <2>1, BodyFixed
<1>2. ASSUME pc = "visit", idx > 0 PROVE blocks[idx] \in Blocks
  <2>1. Len(blocks) \in Nat /\ blocks \in Seq(Blocks) /\ idx \in 0..Len(blocks)
    BY LenProperties DEF MapShape
  <2>2. idx \in 1..Len(blocks)
    BY <1>2, <2>1
  <2> QED BY <2>1, <2>2, ElementOfSeq
<1>3. CASE TraverseSuccessor \/ NextInPostorder \/ PostorderDone \/ VisitOther \/ MergeDone
  BY <1>1, <1>3 DEF TraverseSuccessor, NextInPostorder, PostorderDone, VisitOther, MergeDone,
                    Visiting, maps, MapsInv
<1>4. CASE VisitLock
  BY <1>1, <1>2, <1>4 DEF VisitLock, Visiting, MapsInv
<1>5. CASE VisitUnlock
  <2>1. PICK lock \in transaction_id : lock_to_unlock' = Put(lock_to_unlock, lock, blocks[idx])
    BY <1>5 DEF VisitUnlock
  <2>2. lock \in Blocks \cup {OuterLock}
    BY <2>1 DEF MapsInv
  <2>3. DOMAIN lock_to_unlock' \subseteq Blocks \cup {OuterLock}
    BY <2>1, <2>2 DEF MapsInv, Put
  <2> QED BY <1>1, <1>5, <2>3 DEF VisitUnlock, Visiting, MapsInv
<1>6. CASE DoubleUnlock
  BY <1>1, <1>6 DEF DoubleUnlock, Visiting, maps, MapsInv
<1>7. CASE VisitCall
  <2>1. DOMAIN terminator_to_lock' \subseteq Blocks
    BY <1>2, <1>7 DEF VisitCall, Visiting, MapsInv, Put
  <2> QED BY <1>1, <1>7, <2>1 DEF VisitCall, Visiting, MapsInv
<1>8. CASE VisitDone
  BY <1>1, <1>8 DEF VisitDone, maps, MapsInv
<1>9. CASE \E term \in BlocksOf(body) : MergeTerminator(term)
  <2>1. PICK term \in BlocksOf(body) : MergeTerminator(term)
    BY <1>9
  <2>2. DOMAIN terminator_to_tx' \subseteq Blocks
    BY <2>1 DEF MergeTerminator, MapsInv, Blocks, Put
  <2> QED BY <1>1, <2>1, <2>2 DEF MergeTerminator, MapsInv
<1> QED BY <1>3, <1>4, <1>5, <1>6, <1>7, <1>8, <1>9 DEF MapStep

-----------------------------------------------------------------------------
\* The invariant holds for every body, every caller's transaction and every
\* map that is passed down.
THEOREM MapCorrect == MapSpec => []MapInv
<1>1. MapInit => MapInv
  <2> SUFFICES ASSUME MapInit PROVE MapInv
    OBVIOUS
  <2> DEFINE e == <<body.start, body.succ[body.start]>>
  <2>1. /\ body \in Bodies /\ seed \in Seeds[body] /\ pc = "postorder" /\ idx = 0
        /\ visited = {body.start} /\ visit_stack = <<e>> /\ blocks = <<>>
    BY DEF MapInit, PostorderInit
  <2>2. body.start \in Blocks /\ body.succ[body.start] \in Seq(Blocks)
    BY <2>1, BodyFacts
  <2>3. e \in Blocks \X Seq(Blocks)
    BY <2>2
  <2>4. visit_stack \in Seq(Blocks \X Seq(Blocks)) /\ blocks \in Seq(Blocks)
    <3> HIDE DEF e
    <3> QED BY <2>1, <2>3
  <2>5. Len(visit_stack) = 1 /\ visit_stack[1] = e /\ Len(blocks) = 0
    BY <2>1
  <2>6. visit_stack[1][1] = body.start /\ visit_stack[1][2] = body.succ[body.start]
    BY <2>5
  <2> HIDE DEF e
  <2>7. MapShape
    BY <2>1, <2>2, <2>4, <2>5 DEF MapShape
  <2>8. VisitedOnce
    BY <2>1, <2>5, <2>6 DEF VisitedOnce, OnStack, Yielded
  <2>9. SuccessorsInv
    BY <2>1, <2>5, <2>6 DEF SuccessorsInv, Edge
  <2>10. PathInv
    BY <2>1, <2>5, <2>6, LeadsFacts DEF PathInv
  <2>11. MapsInv
    <3>1. seed = {} \/ seed = {OuterLock}
      BY <2>1, BodyFacts
    <3>2. DOMAIN terminator_to_tx \subseteq Blocks
      BY <2>1, BodyFacts DEF MapInit
    <3>3. /\ transaction_id = seed /\ DOMAIN lock_to_unlock = seed /\ terminator_to_lock = <<>>
          /\ merge_todo = {} /\ double_unlock = FALSE
      BY DEF MapInit
    <3>4. DOMAIN terminator_to_lock = {}
      BY <3>3
    <3> QED BY <3>1, <3>2, <3>3, <3>4 DEF MapsInv
  <2> QED BY <2>7, <2>8, <2>9, <2>10, <2>11 DEF MapInv, PostorderInv
<1>2. MapInv /\ [MapNext]_map_vars => MapInv'
  <2> SUFFICES ASSUME MapInv, [MapNext]_map_vars PROVE MapInv'
    OBVIOUS
  <2> USE DEF MapInv
  <2>1. CASE TraverseSuccessor
    BY <2>1, SkipKeeps, PushKeeps, MapsKept DEF MapStep
  <2>2. CASE NextInPostorder
    BY <2>2, YieldKeeps, MapsKept DEF MapStep
  <2>3. CASE VisitStep
    <3>1. MapStep
      BY <2>3 DEF VisitStep, MapStep
    <3> QED BY <2>3, <3>1, VisitShape, TraversalKept, MapsKept
  <2>4. CASE UNCHANGED map_vars
    <3>1. body' = body /\ UNCHANGED traversal /\ Blocks' = Blocks
      BY <2>4, BodyFixed DEF map_vars, input
    <3>2. MapShape'
      BY <2>4, <3>1 DEF map_vars, MapShape, traversal
    <3>3. MapsInv'
      BY <2>4, <3>1 DEF map_vars, maps, MapsInv
    <3> QED BY <3>1, <3>2, <3>3, TraversalKept
  <2> QED BY <2>1, <2>2, <2>3, <2>4 DEF MapNext, MapStep, MapEnded, VisitStep
<1> QED BY <1>1, <1>2, PTL DEF MapSpec

(* The traversal and the maps keep their types: no block is visited twice,  *)
(* and `perform` is under one lock at most.                                 *)
THEOREM MapTypes == MapSpec => []MapTypeOK
<1>1. MapInv => MapTypeOK
  <2> SUFFICES ASSUME MapInv PROVE MapTypeOK
    OBVIOUS
  <2>1. /\ blocks \in Seq(Blocks) /\ visit_stack \in Seq(Blocks \X Seq(Blocks))
        /\ DOMAIN blocks = 1..Len(blocks) /\ DOMAIN visit_stack = 1..Len(visit_stack)
    BY LenProperties DEF MapInv, MapShape
  <2>2. /\ \A i \in DOMAIN visit_stack : visit_stack[i][1] \in visited
        /\ ToSet(blocks) \subseteq visited
        /\ IsInjective(blocks)
    BY <2>1 DEF MapInv, PostorderInv, VisitedOnce, ToSet, IsInjective
  <2>3. Cardinality(transaction_id) <= 1
    <3>1. CASE transaction_id = {}
      BY <3>1, FS_EmptySet
    <3>2. CASE \E x \in Blocks \cup {OuterLock} : transaction_id = {x}
      BY <3>2, FS_Singleton
    <3> QED BY <3>1, <3>2 DEF MapInv, MapsInv
  <2>4. transaction_id \cup DOMAIN lock_to_unlock \subseteq Blocks \cup {OuterLock}
    BY DEF MapInv, MapsInv
  <2>5. DOMAIN terminator_to_lock \cup DOMAIN terminator_to_tx \cup merge_todo \subseteq Blocks
    BY DEF MapInv, MapsInv
  <2> QED BY <2>2, <2>3, <2>4, <2>5 DEF MapInv, MapShape, MapsInv, MapTypeOK, Blocks
<1> QED BY <1>1, MapCorrect, PTL

(* ReversePostorder visits exactly the blocks that can be reached, and an   *)
(* edge that does not go forward in its order leads back to a block from    *)
(* which the edge can be reached, for every control-flow graph.             *)
THEOREM TopologicalOrder == MapSpec => []ReversePostorderIsTopological
<1>1. MapInv => ReversePostorderIsTopological
  <2> SUFFICES ASSUME MapInv, pc = "visit" PROVE
          /\ body.start \in ToSet(blocks) /\ Closed(ToSet(blocks))
          /\ \A S \in SUBSET ToSet(blocks) : body.start \in S /\ Closed(S) => S = ToSet(blocks)
          /\ \A i, j \in DOMAIN blocks :
               blocks[j] \in ToSet(body.succ[blocks[i]]) /\ i < j => Leads(blocks[j], blocks[i])
    BY DEF ReversePostorderIsTopological
  <2>1. /\ body \in Bodies /\ visit_stack = <<>> /\ blocks \in Seq(Blocks) /\ visited \subseteq Blocks
        /\ DOMAIN blocks = 1..Len(blocks)
    BY LenProperties DEF MapInv, MapShape
  <2>2. Len(visit_stack) = 0
    BY <2>1
  <2>3. \A b : b \in ToSet(blocks) <=> \E i \in 1..Len(blocks) : blocks[i] = b
    BY <2>1 DEF ToSet
  <2>4. ToSet(blocks) = visited
    <3>1. \A b \in visited : \E i \in 1..Len(blocks) : blocks[i] = b
      BY <2>2 DEF MapInv, PostorderInv, VisitedOnce, OnStack, Yielded
    <3>2. \A i \in 1..Len(blocks) : blocks[i] \in visited
      BY DEF MapInv, PostorderInv, VisitedOnce
    <3> QED BY <2>3, <3>1, <3>2
  <2>5. body.start \in visited
    BY DEF MapInv, PostorderInv, VisitedOnce
  <2>6. Closed(visited)
    <3>1. ASSUME NEW b \in visited, NEW d \in Blocks, Edge(b, d) PROVE d \in visited
      BY <2>3, <2>4, <3>1 DEF MapInv, PostorderInv, SuccessorsInv
    <3> QED BY <2>1, <3>1, ClosedFacts
  <2>7. ASSUME NEW S \in SUBSET visited, body.start \in S, Closed(S) PROVE S = visited
    <3>1. \A b \in visited : Leads(body.start, b)
      BY DEF MapInv, PostorderInv, PathInv
    <3> QED BY <2>1, <2>7, <3>1 DEF Leads, Blocks
  <2>8. ASSUME NEW i \in 1..Len(blocks), NEW j \in 1..Len(blocks), i < j,
               blocks[j] \in ToSet(body.succ[blocks[i]])
        PROVE  Leads(blocks[j], blocks[i])
    <3>1. blocks[i] \in Blocks /\ body.succ[blocks[i]] \in Seq(Blocks)
      BY <2>1, BodyFacts, ElementOfSeq
    <3>2. DOMAIN body.succ[blocks[i]] = 1..Len(body.succ[blocks[i]])
      BY <3>1, LenProperties
    <3>3. Edge(blocks[i], blocks[j])
      BY <2>8, <3>2 DEF Edge, ToSet
    <3> QED BY <2>8, <3>3 DEF MapInv, PostorderInv, PathInv
  <2> QED BY <2>1, <2>4, <2>5, <2>6, <2>7, <2>8
<1> QED BY <1>1, MapCorrect, PTL

-----------------------------------------------------------------------------
(* What the maps are, in terms of the order: the operator MapOf of UseDef   *)
(* for an arbitrary body.                                                   *)

Ids == BlocksOf(body) \cup {OuterLock}

IsMark(i) == body.term[blocks[i]] \in {"lock", "unlock"}

\* In the order of the visit, which is that of falling positions, the lock
\* call l comes before position i and no other lock or unlock call comes in
\* between; before the first of them, the caller's transaction goes on.
Under(i, l) ==
  \/ \E j \in (i + 1) .. Len(blocks) :
       /\ body.term[blocks[j]] = "lock" /\ blocks[j] = l
       /\ \A k \in (i + 1) .. (j - 1) : ~IsMark(k)
  \/ l \in seed /\ \A k \in (i + 1) .. Len(blocks) : ~IsMark(k)

\* u releases l.
Closes(u, l) ==
  \/ l \in seed /\ u = OuterUnlock
  \/ \E k \in 1 .. Len(blocks) :
       body.term[blocks[k]] = "unlock" /\ blocks[k] = u /\ Under(k, l)

(* `perform` maps a call to the lock and unlock calls around it in the      *)
(* order of the visit, and to none if there is no lock before it: what is   *)
(* wrong with the map for some body is wrong with the order (loop_left).    *)
MapFollowsTheOrder ==
  pc = "done" =>
    \A i \in 1 .. Len(blocks) : body.term[blocks[i]] = "call" =>
      /\ \A l \in Ids : Under(i, l) =>
           /\ blocks[i] \in DOMAIN terminator_to_tx
           /\ terminator_to_tx[blocks[i]][1] = l
           /\ Closes(terminator_to_tx[blocks[i]][2], l)
      /\ (\A l \in Ids : ~Under(i, l)) => blocks[i] \notin DOMAIN terminator_to_lock

\* The positions from idx + 1 on have been visited.
VisitInv ==
  /\ \A l : l \in transaction_id <=> Under(idx, l)
  /\ \A i \in (idx + 1) .. Len(blocks) : body.term[blocks[i]] = "call" =>
       \A l : Under(i, l) =>
         blocks[i] \in DOMAIN terminator_to_lock /\ terminator_to_lock[blocks[i]] = l
  /\ \A b \in DOMAIN terminator_to_lock :
       \E i \in (idx + 1) .. Len(blocks) : blocks[i] = b /\ Under(i, terminator_to_lock[b])

OrderInv ==
  /\ seed \subseteq {OuterLock}
  /\ pc = "postorder" =>
       /\ transaction_id = seed /\ DOMAIN terminator_to_lock = {}
       /\ \A l \in DOMAIN lock_to_unlock : l \in seed /\ lock_to_unlock[l] = OuterUnlock
  /\ pc # "postorder" => VisitInv
  /\ \A l \in DOMAIN lock_to_unlock : Closes(lock_to_unlock[l], l)
  /\ pc \in {"merge", "done"} =>
       /\ idx = 0
       /\ \A b \in DOMAIN terminator_to_lock \ merge_todo :
            /\ b \in DOMAIN terminator_to_tx /\ terminator_to_lock[b] \in DOMAIN lock_to_unlock
            /\ terminator_to_tx[b] = <<terminator_to_lock[b], lock_to_unlock[terminator_to_lock[b]]>>
  /\ pc = "done" => merge_todo = {}

\* One position further on.
LEMMA UnderStep ==
  ASSUME MapInv, NEW i \in 1 .. Len(blocks), NEW l
  PROVE  /\ body.term[blocks[i]] = "lock" => (Under(i - 1, l) <=> l = blocks[i])
         /\ body.term[blocks[i]] = "unlock" => ~Under(i - 1, l)
         /\ ~IsMark(i) => (Under(i - 1, l) <=> Under(i, l))
<1>1. Len(blocks) \in Nat
  BY LenProperties DEF MapInv, MapShape
<1>2. (i - 1) + 1 = i /\ i \in i .. Len(blocks) /\ i \in Nat
  BY <1>1
<1> DEFINE n == Len(blocks)
           Free(a, b) == \A k \in a .. b : ~IsMark(k)
           LockAt(j) == body.term[blocks[j]] = "lock" /\ blocks[j] = l
<1>3. Under(i - 1, l) <=> (\E j \in i .. n : LockAt(j) /\ Free(i, j - 1)) \/ (l \in seed /\ Free(i, n))
  BY <1>2 DEF Under
<1>4. Under(i, l) <=> (\E j \in (i + 1) .. n : LockAt(j) /\ Free(i + 1, j - 1))
                      \/ (l \in seed /\ Free(i + 1, n))
  BY DEF Under
<1>5. ASSUME IsMark(i) PROVE Under(i - 1, l) <=> LockAt(i)
  <2>1. \A b \in Nat : b >= i => ~Free(i, b)
    BY <1>2, <1>5
  <2>2. ~Free(i, n)
    BY <1>1, <1>2, <2>1
  <2>3. ASSUME NEW j \in i .. n, Free(i, j - 1) PROVE j = i
    <3>1. j \in Nat /\ j >= i /\ (j # i => j - 1 \in Nat /\ j - 1 >= i)
      BY <1>1, <1>2
    <3> HIDE DEF Free
    <3> QED BY <2>1, <2>3, <3>1
  <2>4. Free(i, i - 1)
    BY <1>2
  <2> HIDE DEF Free, n, LockAt
  <2> QED BY <1>2, <1>3, <2>2, <2>3, <2>4 DEF n
<1>6. ASSUME ~IsMark(i) PROVE Under(i - 1, l) <=> Under(i, l)
  <2>1. \A b \in Nat : Free(i, b) <=> Free(i + 1, b)
    <3> SUFFICES ASSUME NEW b \in Nat PROVE Free(i, b) <=> Free(i + 1, b)
      OBVIOUS
    <3>1. \A k \in i .. b : k = i \/ k \in (i + 1) .. b
      BY <1>2
    <3>2. \A k \in (i + 1) .. b : k \in i .. b
      BY <1>2
    <3> QED BY <1>6, <3>1, <3>2
  <2>2. \A j \in i .. n : LockAt(j) => j \in (i + 1) .. n
    BY <1>1, <1>2, <1>6 DEF IsMark
  <2>3. \A j \in (i + 1) .. n : j \in i .. n /\ j - 1 \in Nat
    BY <1>1, <1>2
  <2> HIDE DEF Free, LockAt
  <2> QED BY <1>1, <1>3, <1>4, <2>1, <2>2, <2>3
<1>7. IsMark(i) <=> body.term[blocks[i]] \in {"lock", "unlock"}
  BY DEF IsMark
<1> QED BY <1>5, <1>6, <1>7

\* Steps that leave the blocks where they are.
LEMMA OrderFixed ==
  ASSUME UNCHANGED <<body, seed, blocks>>
  PROVE  /\ \A i : IsMark(i)' <=> IsMark(i)
         /\ \A i, l : Under(i, l)' <=> Under(i, l)
         /\ \A u, l : Closes(u, l)' <=> Closes(u, l)
<1>1. \A i : IsMark(i)' <=> IsMark(i)
  BY DEF IsMark
<1>2. \A i, l : Under(i, l)' <=> Under(i, l)
  BY <1>1 DEF Under
<1>3. \A u, l : Closes(u, l)' <=> Closes(u, l)
  BY <1>2 DEF Closes
<1> QED BY <1>1, <1>2, <1>3

\* Before the first lock or unlock call.
LEMMA UnderAtFirst ==
  ASSUME MapInv, NEW l
  PROVE  Under(Len(blocks), l) <=> l \in seed
<1>1. Len(blocks) \in Nat
  BY LenProperties DEF MapInv, MapShape
<1>2. \A j \in (Len(blocks) + 1) .. Len(blocks) : FALSE
  BY <1>1
<1> QED BY <1>2 DEF Under

\* A visit of the block at idx: what each kind of block has to do.
LEMMA VisitKeepsOrder ==
  ASSUME MapInv, OrderInv, NEW kind \in Kinds, Visiting(kind),
         \A l : l \in transaction_id' <=> Under(idx - 1, l),
         \/ terminator_to_lock' = terminator_to_lock
            /\ (kind = "call" => transaction_id = {})
         \/ \E x : /\ kind = "call" /\ transaction_id = {x}
                   /\ terminator_to_lock' = Put(terminator_to_lock, blocks[idx], x),
         \A l \in DOMAIN lock_to_unlock' : Closes(lock_to_unlock'[l], l)
  PROVE  OrderInv'
<1>1. /\ pc = "visit" /\ pc' = "visit" /\ idx' = idx - 1 /\ body.term[blocks[idx]] = kind
      /\ UNCHANGED <<body, seed, blocks>>
  BY DEF Visiting, input, traversal
<1>2. Len(blocks) \in Nat /\ idx \in 1 .. Len(blocks) /\ (idx - 1) + 1 = idx
  <2>1. Len(blocks) \in Nat /\ idx \in 0 .. Len(blocks) /\ idx > 0
    BY LenProperties DEF MapInv, MapShape, Visiting
  <2> QED BY <2>1
<1>3. /\ \A i, l : Under(i, l)' <=> Under(i, l)
      /\ \A u, l : Closes(u, l)' <=> Closes(u, l)
  BY <1>1, OrderFixed
<1>4. VisitInv
  BY <1>1 DEF OrderInv
<1>5. \A i \in idx .. Len(blocks) : i = idx \/ i \in (idx + 1) .. Len(blocks)
  BY <1>2
<1>6. \A i \in (idx + 1) .. Len(blocks) : i \in idx .. Len(blocks) /\ i # idx
  BY <1>2
<1>7. \A i, j \in 1 .. Len(blocks) : blocks[i] = blocks[j] => i = j
  BY DEF MapInv, PostorderInv, VisitedOnce
<1>8. \A i \in idx .. Len(blocks) : i \in 1 .. Len(blocks)
  BY <1>2
<1>9. ASSUME NEW i \in idx .. Len(blocks), body.term[blocks[i]] = "call", NEW l, Under(i, l)
      PROVE  blocks[i] \in DOMAIN terminator_to_lock' /\ terminator_to_lock'[blocks[i]] = l
  <2>1. CASE i = idx
    <3>1. l \in transaction_id /\ kind = "call"
      BY <1>1, <1>4, <1>9, <2>1 DEF VisitInv
    <3>2. PICK x : transaction_id = {x} /\ terminator_to_lock' = Put(terminator_to_lock, blocks[idx], x)
      BY <3>1
    <3> QED BY <2>1, <3>1, <3>2 DEF Put
  <2>2. CASE i \in (idx + 1) .. Len(blocks)
    <3>1. blocks[i] \in DOMAIN terminator_to_lock /\ terminator_to_lock[blocks[i]] = l
      BY <1>4, <1>9, <2>2 DEF VisitInv
    <3>2. i # idx /\ i \in 1 .. Len(blocks)
      BY <1>6, <1>8, <2>2
    <3>3. blocks[i] # blocks[idx]
      BY <1>2, <1>7, <3>2
    <3> QED BY <3>1, <3>3 DEF Put
  <2> QED BY <1>5, <2>1, <2>2
<1>10. ASSUME NEW b \in DOMAIN terminator_to_lock'
       PROVE  \E i \in idx .. Len(blocks) : blocks[i] = b /\ Under(i, terminator_to_lock'[b])
  <2>1. CASE b \in DOMAIN terminator_to_lock /\ terminator_to_lock'[b] = terminator_to_lock[b]
    <3>1. PICK i \in (idx + 1) .. Len(blocks) : blocks[i] = b /\ Under(i, terminator_to_lock[b])
      BY <1>4, <2>1 DEF VisitInv
    <3> QED BY <1>6, <2>1, <3>1
  <2>2. CASE ~(b \in DOMAIN terminator_to_lock /\ terminator_to_lock'[b] = terminator_to_lock[b])
    <3>1. PICK x : /\ transaction_id = {x}
                   /\ terminator_to_lock' = Put(terminator_to_lock, blocks[idx], x)
      BY <1>10, <2>2
    <3>2. b = blocks[idx] /\ terminator_to_lock'[b] = x
      BY <1>10, <2>2, <3>1 DEF Put
    <3>3. Under(idx, x)
      BY <1>4, <3>1 DEF VisitInv
    <3>4. idx \in idx .. Len(blocks)
      BY <1>2
    <3> QED BY <3>2, <3>3, <3>4
  <2> QED BY <2>1, <2>2
<1>11. VisitInv'
  BY <1>1, <1>2, <1>3, <1>9, <1>10 DEF VisitInv
<1> QED BY <1>1, <1>3, <1>11 DEF OrderInv

LEMMA OrderKept ==
  ASSUME MapInv, OrderInv, [MapNext]_map_vars
  PROVE  OrderInv'
<1>1. CASE UNCHANGED map_vars
  <2>1. /\ UNCHANGED <<body, seed, pc, blocks, idx, transaction_id, terminator_to_lock>>
        /\ UNCHANGED <<lock_to_unlock, terminator_to_tx, merge_todo>>
    BY <1>1 DEF map_vars, input, traversal, maps
  <2>2. /\ \A i, l : Under(i, l)' <=> Under(i, l)
        /\ \A u, l : Closes(u, l)' <=> Closes(u, l)
    BY <2>1, OrderFixed
  <2>3. VisitInv' <=> VisitInv
    BY <2>1, <2>2 DEF VisitInv
  <2> QED BY <2>1, <2>2, <2>3 DEF OrderInv
<1>2. CASE TraverseSuccessor \/ NextInPostorder
  <2>1. /\ pc = "postorder" /\ pc' = "postorder" /\ seed' = seed
        /\ UNCHANGED <<transaction_id, terminator_to_lock, lock_to_unlock>>
    BY <1>2 DEF TraverseSuccessor, NextInPostorder, maps, input
  <2>2. \A l \in DOMAIN lock_to_unlock : l \in seed /\ lock_to_unlock[l] = OuterUnlock
    BY <2>1 DEF OrderInv
  <2>3. \A l \in DOMAIN lock_to_unlock' : Closes(lock_to_unlock[l], l)'
    BY <2>1, <2>2 DEF Closes
  <2> QED BY <2>1, <2>2, <2>3 DEF OrderInv
<1>3. CASE PostorderDone
  <2>1. /\ pc = "postorder" /\ pc' = "visit" /\ idx' = Len(blocks)
        /\ UNCHANGED <<body, seed, blocks, transaction_id, terminator_to_lock, lock_to_unlock>>
    BY <1>3 DEF PostorderDone, maps, input, traversal
  <2>2. /\ \A i, l : Under(i, l)' <=> Under(i, l)
        /\ \A u, l : Closes(u, l)' <=> Closes(u, l)
    BY <2>1, OrderFixed
  <2>3. \A j \in (Len(blocks) + 1) .. Len(blocks) : FALSE
    BY LenProperties DEF MapInv, MapShape
  <2>4. transaction_id = seed /\ DOMAIN terminator_to_lock = {}
    BY <2>1 DEF OrderInv
  <2>5. VisitInv'
    BY <2>1, <2>2, <2>3, <2>4, UnderAtFirst DEF VisitInv
  <2> QED BY <2>1, <2>2, <2>5 DEF OrderInv
<1>4. ASSUME NEW kind \in Kinds, Visiting(kind)
      PROVE  /\ pc = "visit" /\ VisitInv /\ idx \in 1 .. Len(blocks)
             /\ body.term[blocks[idx]] = kind
             /\ \A l \in DOMAIN lock_to_unlock : Closes(lock_to_unlock[l], l)
  <2>1. Len(blocks) \in Nat /\ idx \in 0 .. Len(blocks) /\ idx > 0 /\ pc = "visit"
    BY <1>4, LenProperties DEF MapInv, MapShape, Visiting
  <2> QED BY <1>4, <2>1 DEF OrderInv, Visiting
<1>5. CASE VisitLock
  <2>1. Visiting("lock") /\ "lock" \in Kinds
    BY <1>5 DEF VisitLock, Kinds
  <2>2. /\ transaction_id' = {blocks[idx]}
        /\ UNCHANGED <<terminator_to_lock, lock_to_unlock>>
    BY <1>5 DEF VisitLock
  <2>3. \A l : l \in transaction_id' <=> Under(idx - 1, l)
    BY <1>4, <2>1, <2>2, UnderStep
  <2> QED BY <1>4, <2>1, <2>2, <2>3, VisitKeepsOrder
<1>6. CASE VisitUnlock
  <2>1. Visiting("unlock") /\ "unlock" \in Kinds
    BY <1>6 DEF VisitUnlock, Kinds
  <2>2. PICK lock \in transaction_id : lock_to_unlock' = Put(lock_to_unlock, lock, blocks[idx])
    BY <1>6 DEF VisitUnlock
  <2>3. transaction_id' = {} /\ UNCHANGED terminator_to_lock
    BY <1>6 DEF VisitUnlock
  <2>4. \A l : l \in transaction_id' <=> Under(idx - 1, l)
    BY <1>4, <2>1, <2>3, UnderStep
  <2>5. Closes(blocks[idx], lock)
    BY <1>4, <2>1, <2>2 DEF Closes, VisitInv
  <2>6. \A l \in DOMAIN lock_to_unlock' : Closes(lock_to_unlock'[l], l)
    BY <1>4, <2>1, <2>2, <2>5 DEF Put
  <2> QED BY <2>1, <2>3, <2>4, <2>6, VisitKeepsOrder
<1>7. CASE DoubleUnlock
  <2>1. Visiting("unlock") /\ "unlock" \in Kinds
    BY <1>7 DEF DoubleUnlock, Kinds
  <2>2. transaction_id = {} /\ UNCHANGED <<transaction_id, terminator_to_lock, lock_to_unlock>>
    BY <1>7 DEF DoubleUnlock, maps
  <2>3. \A l : l \in transaction_id' <=> Under(idx - 1, l)
    BY <1>4, <2>1, <2>2, UnderStep
  <2> QED BY <1>4, <2>1, <2>2, <2>3, VisitKeepsOrder
<1>8. ASSUME NEW kind \in {"call", "other"}, Visiting(kind)
      PROVE  \A l : l \in transaction_id <=> Under(idx - 1, l)
  <2>1. kind \in Kinds
    BY DEF Kinds
  <2>2. ~IsMark(idx) /\ idx \in 1 .. Len(blocks) /\ VisitInv
    BY <1>4, <1>8, <2>1 DEF IsMark
  <2> QED BY <2>2, UnderStep DEF VisitInv
<1>9. CASE VisitCall
  <2>1. Visiting("call") /\ "call" \in Kinds
    BY <1>9 DEF VisitCall, Kinds
  <2>2. /\ UNCHANGED <<transaction_id, lock_to_unlock>>
        /\ terminator_to_lock' =
             IF transaction_id = {} THEN terminator_to_lock
             ELSE Put(terminator_to_lock, blocks[idx], CHOOSE lock \in transaction_id : TRUE)
    BY <1>9 DEF VisitCall
  <2>3. \A l : l \in transaction_id' <=> Under(idx - 1, l)
    BY <1>8, <2>1, <2>2
  <2>4. \/ terminator_to_lock' = terminator_to_lock /\ transaction_id = {}
        \/ \E x : /\ transaction_id = {x}
                  /\ terminator_to_lock' = Put(terminator_to_lock, blocks[idx], x)
    <3>1. transaction_id = {} \/ \E x : transaction_id = {x}
      BY DEF MapInv, MapsInv
    <3> QED BY <2>2, <3>1
  <2> QED BY <1>4, <2>1, <2>2, <2>3, <2>4, VisitKeepsOrder
<1>10. CASE VisitOther
  <2>1. Visiting("other") /\ "other" \in Kinds
    BY <1>10 DEF VisitOther, Kinds
  <2>2. UNCHANGED <<transaction_id, terminator_to_lock, lock_to_unlock>>
    BY <1>10 DEF VisitOther, maps
  <2>3. \A l : l \in transaction_id' <=> Under(idx - 1, l)
    BY <1>8, <2>1, <2>2
  <2> QED BY <1>4, <2>1, <2>2, <2>3, VisitKeepsOrder
<1>11. ASSUME pc \notin {"postorder"}, pc' \in {"merge", "done", "panic"},
              UNCHANGED <<body, seed, blocks, idx, transaction_id>>,
              UNCHANGED <<terminator_to_lock, lock_to_unlock>>
       PROVE  /\ VisitInv'
              /\ \A l \in DOMAIN lock_to_unlock' : Closes(lock_to_unlock[l], l)'
  <2>1. /\ \A i, l : Under(i, l)' <=> Under(i, l)
        /\ \A u, l : Closes(u, l)' <=> Closes(u, l)
    BY <1>11, OrderFixed
  <2>2. VisitInv' <=> VisitInv
    BY <1>11, <2>1 DEF VisitInv
  <2> QED BY <1>11, <2>1, <2>2 DEF OrderInv
<1>12. CASE VisitDone
  <2>1. /\ pc = "visit" /\ pc' = "merge" /\ idx = 0 /\ merge_todo' = DOMAIN terminator_to_lock
        /\ UNCHANGED <<body, seed, blocks, idx, transaction_id, terminator_to_lock, lock_to_unlock>>
    BY <1>12 DEF VisitDone, maps, input, traversal
  <2> QED BY <1>11, <2>1 DEF OrderInv
<1>13. CASE \E term \in BlocksOf(body) : MergeTerminator(term)
  <2>1. PICK term \in BlocksOf(body) : MergeTerminator(term)
    BY <1>13
  <2>2. /\ pc = "merge" /\ term \in merge_todo /\ merge_todo' = merge_todo \ {term}
        /\ UNCHANGED <<body, seed, blocks, idx, transaction_id, terminator_to_lock, lock_to_unlock>>
    BY <2>1 DEF MergeTerminator, input, traversal
  <2> DEFINE lock == terminator_to_lock[term]
  <2>3. \/ /\ lock \in DOMAIN lock_to_unlock /\ pc' = "merge"
           /\ terminator_to_tx' = Put(terminator_to_tx, term, <<lock, lock_to_unlock[lock]>>)
        \/ pc' = "panic"
    BY <2>1, <2>2 DEF MergeTerminator
  <2>4. /\ VisitInv'
        /\ \A l \in DOMAIN lock_to_unlock' : Closes(lock_to_unlock[l], l)'
    BY <1>11, <2>2, <2>3
  <2>5. CASE pc' = "panic"
    <3>1. seed' \subseteq {OuterLock}
      BY <2>2 DEF OrderInv
    <3> QED BY <2>4, <2>5, <3>1 DEF OrderInv
  <2>6. CASE /\ lock \in DOMAIN lock_to_unlock /\ pc' = "merge"
             /\ terminator_to_tx' = Put(terminator_to_tx, term, <<lock, lock_to_unlock[lock]>>)
    <3>1. ASSUME NEW b \in DOMAIN terminator_to_lock \ merge_todo'
          PROVE  /\ b \in DOMAIN terminator_to_tx' /\ terminator_to_lock[b] \in DOMAIN lock_to_unlock
                 /\ terminator_to_tx'[b] =
                      <<terminator_to_lock[b], lock_to_unlock[terminator_to_lock[b]]>>
      <4>1. CASE b = term
        BY <2>6, <4>1 DEF Put
      <4>2. CASE b # term
        <5>1. b \in DOMAIN terminator_to_lock \ merge_todo
          BY <2>2, <3>1, <4>2
        <5> QED BY <2>2, <2>6, <4>2, <5>1 DEF Put, OrderInv
      <4> QED BY <4>1, <4>2
    <3>2. idx' = 0
      BY <2>2 DEF OrderInv
    <3> QED BY <2>2, <2>4, <2>6, <3>1, <3>2 DEF OrderInv
  <2> QED BY <2>3, <2>5, <2>6
<1>14. CASE MergeDone
  <2>1. /\ pc = "merge" /\ pc' = "done" /\ merge_todo = {}
        /\ UNCHANGED <<body, seed, blocks, idx, transaction_id, terminator_to_lock, lock_to_unlock>>
        /\ UNCHANGED <<terminator_to_tx, merge_todo>>
    BY <1>14 DEF MergeDone, maps, input, traversal
  <2> QED BY <1>11, <2>1 DEF OrderInv
<1> QED BY <1>1, <1>2, <1>3, <1>5, <1>6, <1>7, <1>9, <1>10, <1>12, <1>13, <1>14
        DEF MapNext, MapStep, MapEnded

(* For every control-flow graph, caller and inherited map, the calls are    *)
(* mapped to the transactions around them in the order of the visit, and    *)
(* to the unlock calls that release them.                                   *)
THEOREM CallsFollowTheOrder == MapSpec => []MapFollowsTheOrder
<1>1. MapInit => OrderInv
  <2> SUFFICES ASSUME MapInit PROVE OrderInv
    OBVIOUS
  <2>1. /\ pc = "postorder" /\ transaction_id = seed /\ terminator_to_lock = <<>>
        /\ lock_to_unlock = [l \in seed |-> OuterUnlock]
    BY DEF MapInit
  <2>2. DOMAIN terminator_to_lock = {}
    BY <2>1
  <2>3. \A l \in DOMAIN lock_to_unlock : l \in seed /\ lock_to_unlock[l] = OuterUnlock
    BY <2>1
  <2>4. \A l \in DOMAIN lock_to_unlock : Closes(lock_to_unlock[l], l)
    BY <2>3 DEF Closes
  <2>5. seed \subseteq {OuterLock}
    BY BodyFacts DEF MapInit
  <2> QED BY <2>1, <2>2, <2>3, <2>4, <2>5 DEF OrderInv
<1>2. MapInv /\ OrderInv => MapFollowsTheOrder
  <2> SUFFICES ASSUME MapInv, OrderInv, pc = "done", NEW i \in 1 .. Len(blocks),
                      body.term[blocks[i]] = "call"
               PROVE  /\ \A l \in Ids : Under(i, l) =>
                           /\ blocks[i] \in DOMAIN terminator_to_tx
                           /\ terminator_to_tx[blocks[i]][1] = l
                           /\ Closes(terminator_to_tx[blocks[i]][2], l)
                      /\ (\A l \in Ids : ~Under(i, l)) => blocks[i] \notin DOMAIN terminator_to_lock
    BY DEF MapFollowsTheOrder
  <2>1. VisitInv /\ idx = 0 /\ merge_todo = {}
    BY DEF OrderInv
  <2>2. i \in (idx + 1) .. Len(blocks)
    BY <2>1
  <2>3. ASSUME NEW l, Under(i, l)
        PROVE  /\ blocks[i] \in DOMAIN terminator_to_tx
               /\ terminator_to_tx[blocks[i]][1] = l
               /\ Closes(terminator_to_tx[blocks[i]][2], l)
    <3> DEFINE b == blocks[i]
    <3>1. b \in DOMAIN terminator_to_lock /\ terminator_to_lock[b] = l
      BY <2>1, <2>2, <2>3 DEF VisitInv
    <3>2. /\ b \in DOMAIN terminator_to_tx /\ l \in DOMAIN lock_to_unlock
          /\ terminator_to_tx[b] = <<l, lock_to_unlock[l]>>
      BY <2>1, <3>1 DEF OrderInv
    <3>3. Closes(lock_to_unlock[l], l)
      BY <3>2 DEF OrderInv
    <3>4. terminator_to_tx[b][1] = l /\ terminator_to_tx[b][2] = lock_to_unlock[l]
      BY <3>2
    <3> QED BY <3>2, <3>3, <3>4
  <2>4. ASSUME blocks[i] \in DOMAIN terminator_to_lock PROVE \E l \in Ids : Under(i, l)
    <3>1. PICK j \in (idx + 1) .. Len(blocks) :
            blocks[j] = blocks[i] /\ Under(j, terminator_to_lock[blocks[i]])
      BY <2>1, <2>4 DEF VisitInv
    <3>2. j = i
      <4>1. j \in 1 .. Len(blocks)
        BY <2>1, <3>1
      <4> QED BY <3>1, <4>1 DEF MapInv, PostorderInv, VisitedOnce
    <3>3. \A l : Under(i, l) => l \in Ids
      <4> SUFFICES ASSUME NEW l, Under(i, l) PROVE l \in Ids
        OBVIOUS
      <4>1. CASE l \in seed
        BY <4>1 DEF OrderInv, Ids
      <4>2. CASE \E k \in (i + 1) .. Len(blocks) : blocks[k] = l
        <5>1. Len(blocks) \in Nat /\ blocks \in Seq(Blocks)
          BY LenProperties DEF MapInv, MapShape
        <5>2. PICK k \in (i + 1) .. Len(blocks) : blocks[k] = l
          BY <4>2
        <5>3. k \in 1 .. Len(blocks)
          BY <5>1
        <5> QED BY <5>1, <5>2, <5>3, ElementOfSeq DEF Ids, Blocks
      <4> QED BY <4>1, <4>2 DEF Under
    <3> QED BY <3>1, <3>2, <3>3
  <2> QED BY <2>3, <2>4
<1>3. MapInv /\ OrderInv /\ [MapNext]_map_vars => OrderInv'
  BY OrderKept
<1> QED BY <1>1, <1>2, <1>3, MapCorrect, PTL DEF MapSpec
=============================================================================
