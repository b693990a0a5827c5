----------------------------- MODULE UseDefProofs -----------------------------
(***************************************************************************)
(* Proofs about UseDef, for every crate.                                   *)
(*                                                                         *)
(* Visitors and activations of trace share one stack, and most steps read  *)
(* the current allocation of a visitor somewhere below the top.  The       *)
(* invariant UseInv says how a stack is built: a visitor that was entered  *)
(* for an argument starts with the allocation its caller was tracing, and  *)
(* it loses it only behind an allocation of its own, so that it still has  *)
(* one whenever it traces, unless the function it visits mentions the      *)
(* argument after an allocation (ForgetsAllocation).                       *)
(***************************************************************************)
EXTENDS UseDef, SequenceFacts, FiniteSetTheorems, TLAPS

\* A nonempty set of numbers has a least one: the intervals 1 .. n are well
\* founded by inclusion.
LEMMA LeastElement ==
  ASSUME NEW T, T \subseteq Nat, T # {}
  PROVE  \E n \in T : \A m \in T : n <= m
<1> DEFINE S == FiniteSubsetsOf(Nat)
           R == StrictSubsetOrdering(Nat)
           B == {1 .. n : n \in T}
<1>1. \A n \in T : 1 .. n \in S
  BY FS_Interval DEF FiniteSubsetsOf
<1>2. IsWellFoundedOn(R, S)
  BY FS_StrictSubsetOrderingWellFounded
<1>3. B \subseteq S /\ B # {}
  BY <1>1
<1>4. PICK x \in B : \A y \in B : ~ (<<y, x>> \in R)
  <2> HIDE DEF R, S, B
  <2> QED BY <1>2, <1>3, WFMin
<1>5. PICK n \in T : x = 1 .. n
  OBVIOUS
<1>6. ASSUME NEW m \in T PROVE n <= m
  <2> SUFFICES ASSUME m < n PROVE FALSE
    OBVIOUS
  <2>1. 1 .. m \subseteq 1 .. n /\ 1 .. m # 1 .. n
    <3>1. n \in 1 .. n /\ n \notin 1 .. m
      OBVIOUS
    <3> QED BY <3>1
  <2>2. 1 .. m \subseteq Nat /\ 1 .. n \subseteq Nat
    OBVIOUS
  <2>3. <<1 .. m, 1 .. n>> \in R
    BY <2>1, <2>2 DEF StrictSubsetOrdering
  <2> QED BY <1>4, <1>5, <2>3
<1> QED BY <1>6

\* The use that trace takes next is one of those that are left.
LEMMA MinFact ==
  ASSUME NEW T, T \subseteq Nat, T # {}
  PROVE  Min(T) \in T
BY LeastElement DEF Min

-----------------------------------------------------------------------------
(* The stack of a program p.                                                *)

Ids(p) == (DOMAIN p) \X Nat \X Nat \X Nat

EnteredIn(p, f, arg) ==
  \E g \in DOMAIN p : \E i \in DOMAIN p[g] :
    /\ p[g][i].op \in {"call", "spawn"} /\ p[g][i].to = f
    /\ arg \in DOMAIN p[g][i].src \cup {1}

Forgets(p) ==
  \E f \in DOMAIN p : \E i, j \in DOMAIN p[f] :
    /\ i < j /\ p[f][i].op = "new" /\ p[f][j].op \in Statements
    /\ \E arg \in Locals(p[f][j]) : EnteredIn(p, f, arg)

\* Visitor v has passed an allocation in its body.
NewBefore(p, v) == \E i \in DOMAIN p[v.fn] : i < v.pos /\ p[v.fn][i].op = "new"

KnowsAllocation(p, v) ==
  v.arg_id # {} =>
    /\ EnteredIn(p, v.fn, v.arg_index)
    /\ Forgets(p) \/ v.allocation # {} \/ NewBefore(p, v)

VisitorFrames(p) ==
  [kind : {"visitor"}, fn : DOMAIN p, arg_id : SUBSET Ids(p), arg_index : Nat,
   allocation : SUBSET Ids(p), pos : Nat \ {0}]
Visitors(p) == {v \in VisitorFrames(p) : KnowsAllocation(p, v)}

TraceFrames(p) ==
  [kind : {"trace"}, fn : DOMAIN p, id : Ids(p), todo : SUBSET Nat, from_new : BOOLEAN]
Traces(p) == {t \in TraceFrames(p) : t.todo \subseteq DOMAIN p[t.fn]}

Frames(p) == Visitors(p) \cup Traces(p)

\* What holds between a frame and the trace above it.
Above(p, low, high) ==
  high.kind = "trace" =>
    /\ high.from_new => low.kind = "visitor" /\ NewBefore(p, low)
    /\ low.kind = "visitor" => Forgets(p) \/ low.allocation # {}

\* A stack s that traces objects of V for the functions R.
StackOK(p, s, V, R) ==
  /\ s \in Seq(Frames(p))
  /\ s # <<>> => s[1].kind = "visitor" /\ s[1].fn \in R
  /\ \A i \in 1 .. Len(s) : s[i].kind = "visitor" => s[i].allocation \subseteq V
  /\ \A i \in 2 .. Len(s) : Above(p, s[i - 1], s[i])

UseInv ==
  /\ prog \in Programs
  /\ todo \subseteq DOMAIN prog
  /\ status \in {"idle", "running", "done", "panic", "overflow"}
  /\ status \in {"idle", "done"} => stack = <<>>
  /\ StackOK(prog, stack, vertices, root)
  /\ vertices \subseteq Ids(prog)
  /\ DOMAIN is_write \subseteq vertices
  /\ \A x \in edges : x[2] \in vertices
  /\ \A u \in allocation_set : u.shared_object \in vertices

-----------------------------------------------------------------------------
(* Pushing, popping and changing the top keep a stack in order.             *)

LEMMA PopStack ==
  ASSUME NEW p, NEW s, NEW V, NEW R, StackOK(p, s, V, R), s # <<>>
  PROVE  StackOK(p, Front(s), V, R)
<1> DEFINE S == Frames(p)
           t == Front(s)
<1>1. s \in Seq(S)
  BY DEF StackOK
<1>2. /\ Len(s) \in Nat \ {0} /\ t \in Seq(S) /\ Len(t) = Len(s) - 1
      /\ \A i \in 1 .. (Len(s) - 1) : t[i] = s[i]
  <2> HIDE DEF S
  <2> QED BY <1>1, FrontFacts
<1> HIDE DEF t
<1>3. t # <<>> => Len(t) >= 1
  BY <1>2, EmptySeq, LenProperties
<1>4. \A i \in 1 .. Len(t) : i \in 1 .. Len(s) /\ t[i] = s[i]
  BY <1>2
<1>5. t # <<>> => t[1].kind = "visitor" /\ t[1].fn \in R
  BY <1>2, <1>3, <1>4 DEF StackOK
<1>6. \A i \in 1 .. Len(t) : t[i].kind = "visitor" => t[i].allocation \subseteq V
  BY <1>4 DEF StackOK
<1>7. ASSUME NEW i \in 2 .. Len(t) PROVE Above(p, t[i - 1], t[i])
  <2>1. i \in 2 .. Len(s) /\ i \in 1 .. Len(t) /\ i - 1 \in 1 .. Len(t)
    BY <1>2
  <2>2. t[i] = s[i] /\ t[i - 1] = s[i - 1]
    BY <1>4, <2>1
  <2>3. Above(p, s[i - 1], s[i])
    BY <2>1 DEF StackOK
  <2> QED BY <2>2, <2>3
<1>8. StackOK(p, t, V, R)
  BY <1>2, <1>5, <1>6, <1>7 DEF StackOK
<1> QED BY <1>8 DEF t

LEMMA PushStack ==
  ASSUME NEW p, NEW s, NEW V, NEW R, StackOK(p, s, V, R), s # <<>>,
         NEW e \in Frames(p), Above(p, Last(s), e),
         e.kind = "visitor" => e.allocation \subseteq V
  PROVE  StackOK(p, Append(s, e), V, R)
<1> DEFINE S == Frames(p)
           t == Append(s, e)
<1>1. s \in Seq(S) /\ e \in S
  BY DEF StackOK
<1>2. /\ Len(s) \in Nat \ {0} /\ Last(s) = s[Len(s)]
      /\ t \in Seq(S) /\ Len(t) = Len(s) + 1
      /\ \A i \in 1 .. Len(s) : t[i] = s[i]
      /\ t[Len(s) + 1] = e
  <2> HIDE DEF S
  <2>1. Len(s) \in Nat \ {0} /\ Last(s) = s[Len(s)]
    BY <1>1, FrontFacts
  <2>2. /\ t \in Seq(S) /\ Len(t) = Len(s) + 1
        /\ \A i \in 1 .. Len(s) : t[i] = s[i]
        /\ t[Len(s) + 1] = e
    BY <1>1, PushFacts
  <2> QED BY <2>1, <2>2
<1> HIDE DEF t
<1>5. t[1].kind = "visitor" /\ t[1].fn \in R
  <2>1. t[1] = s[1]
    BY <1>2
  <2> QED BY <2>1 DEF StackOK
<1>6. ASSUME NEW i \in 1 .. Len(t) PROVE t[i].kind = "visitor" => t[i].allocation \subseteq V
  <2>1. CASE i \in 1 .. Len(s)
    BY <1>2, <2>1 DEF StackOK
  <2>2. CASE i = Len(s) + 1
    BY <1>2, <2>2
  <2> QED BY <1>2, <2>1, <2>2
<1>7. ASSUME NEW i \in 2 .. Len(t) PROVE Above(p, t[i - 1], t[i])
  <2>1. CASE i \in 2 .. Len(s)
    <3>1. t[i] = s[i] /\ t[i - 1] = s[i - 1]
      BY <1>2, <2>1
    <3>2. Above(p, s[i - 1], s[i])
      BY <2>1 DEF StackOK
    <3> QED BY <3>1, <3>2
  <2>2. CASE i = Len(s) + 1
    <3>1. i - 1 = Len(s) /\ Len(s) \in 1 .. Len(s)
      BY <1>2, <2>2
    <3>2. t[i] = e /\ t[i - 1] = Last(s)
      BY <1>2, <2>2, <3>1
    <3> QED BY <3>2
  <2> QED BY <1>2, <2>1, <2>2
<1>8. StackOK(p, t, V, R)
  BY <1>2, <1>5, <1>6, <1>7 DEF StackOK
<1> QED BY <1>8 DEF t

\* The top e is replaced by one that is entered for the same function, and for
\* a trace as part of the same visit; t is the stack after that.
LEMMA ReplaceTop ==
  ASSUME NEW p, NEW s, NEW V, NEW R, StackOK(p, s, V, R), s # <<>>,
         NEW W, V \subseteq W,
         NEW e \in Frames(p), e.kind = Last(s).kind, e.fn = Last(s).fn,
         e.kind = "visitor" => e.allocation \subseteq W,
         e.kind = "trace" => e.from_new = Last(s).from_new,
         NEW t \in Seq(Frames(p)), Len(t) = Len(s), t[Len(s)] = e,
         \A i \in 1 .. (Len(s) - 1) : t[i] = s[i]
  PROVE  StackOK(p, t, W, R)
<1> DEFINE S == Frames(p)
<1>1. s \in Seq(S)
  BY DEF StackOK
<1>2. Len(s) \in Nat \ {0} /\ Last(s) = s[Len(s)]
  <2> HIDE DEF S
  <2> QED BY <1>1, FrontFacts
<1>5. t[1].kind = "visitor" /\ t[1].fn \in R
  <2>1. s[1].kind = "visitor" /\ s[1].fn \in R
    BY DEF StackOK
  <2>2. CASE Len(s) = 1
    BY <1>2, <2>1, <2>2
  <2>3. CASE Len(s) # 1
    <3>1. t[1] = s[1]
      BY <1>2, <2>3
    <3> QED BY <2>1, <3>1
  <2> QED BY <2>2, <2>3
<1>6. ASSUME NEW i \in 1 .. Len(t) PROVE t[i].kind = "visitor" => t[i].allocation \subseteq W
  <2>1. CASE i \in 1 .. (Len(s) - 1)
    <3>1. t[i] = s[i] /\ i \in 1 .. Len(s)
      BY <1>2, <2>1
    <3>2. s[i].kind = "visitor" => s[i].allocation \subseteq V
      BY <3>1 DEF StackOK
    <3> QED BY <3>1, <3>2
  <2>2. CASE i = Len(s)
    BY <2>2
  <2> QED BY <1>2, <2>1, <2>2
<1>7. ASSUME NEW i \in 2 .. Len(t) PROVE Above(p, t[i - 1], t[i])
  <2>1. Above(p, s[i - 1], s[i]) /\ t[i - 1] = s[i - 1]
    BY <1>2 DEF StackOK
  <2>2. CASE i \in 2 .. (Len(s) - 1)
    <3>1. t[i] = s[i]
      BY <1>2, <2>2
    <3> QED BY <2>1, <3>1
  <2>3. CASE i = Len(s)
    BY <1>2, <2>1, <2>3 DEF Above
  <2> QED BY <1>2, <2>2, <2>3
<1> QED BY <1>5, <1>6, <1>7 DEF StackOK

-----------------------------------------------------------------------------
(* What the frames say about the program and about each other.              *)

LEMMA ProgramFacts ==
  ASSUME NEW p \in Programs, NEW f \in DOMAIN p
  PROVE  /\ "another crate" \notin DOMAIN p
         /\ DOMAIN p[f] \subseteq Nat \ {0}
         /\ \A i \in DOMAIN p[f] :
              /\ p[f][i].dst \in Nat
              /\ DOMAIN p[f][i].src \subseteq Nat
              /\ \A k \in DOMAIN p[f][i].src :
                   p[f][i].src[k].local \in Nat /\ p[f][i].src[k].field \in Nat
<1>1. Len(p[f]) \in Nat /\ DOMAIN p[f] = 1 .. Len(p[f])
  BY ProgramsAssumption
<1>2. DOMAIN p[f] \subseteq Nat \ {0}
  BY <1>1
<1>3. "another crate" \notin DOMAIN p
  BY ProgramsAssumption
<1>4. \A i \in DOMAIN p[f] :
        /\ p[f][i].dst \in Nat
        /\ DOMAIN p[f][i].src \subseteq Nat
        /\ \A k \in DOMAIN p[f][i].src :
             p[f][i].src[k].local \in Nat /\ p[f][i].src[k].field \in Nat
  BY ProgramsAssumption
<1> QED BY <1>2, <1>3, <1>4

LEMMA SameForgets == ForgetsAllocation <=> Forgets(prog)
BY DEF ForgetsAllocation, Forgets, Entered, EnteredIn

LEMMA TopFacts ==
  ASSUME UseInv, stack # <<>>
  PROVE  /\ Len(stack) \in Nat \ {0} /\ DOMAIN stack = 1 .. Len(stack)
         /\ Top = stack[Len(stack)] /\ Top \in Frames(prog)
         /\ Top.kind = "visitor" => Top \in Visitors(prog) /\ Top.allocation \subseteq vertices
         /\ Top.kind = "trace" => Top \in Traces(prog)
<1> DEFINE S == Frames(prog)
<1>1. stack \in Seq(S)
  BY DEF UseInv, StackOK
<1>2. Len(stack) \in Nat \ {0} /\ Last(stack) = stack[Len(stack)] /\ Last(stack) \in S
  <2> HIDE DEF S
  <2> QED BY <1>1, FrontFacts
<1>3. DOMAIN stack = 1 .. Len(stack)
  <2> HIDE DEF S
  <2> QED BY <1>1, LenProperties
<1>4. Top = stack[Len(stack)] /\ Top \in Frames(prog)
  BY <1>2 DEF Top
<1>5. Top.kind = "visitor" => Top \in Visitors(prog)
  BY <1>4 DEF Frames, Traces, TraceFrames
<1>6. Top.kind = "trace" => Top \in Traces(prog)
  BY <1>4 DEF Frames, Visitors, VisitorFrames
<1>7. Top.kind = "visitor" => Top.allocation \subseteq vertices
  BY <1>2, <1>4 DEF UseInv, StackOK
<1> QED BY <1>2, <1>3, <1>4, <1>5, <1>6, <1>7

\* The visitor that an activation of trace belongs to exists, and has an
\* allocation.
LEMMA SelfFacts ==
  ASSUME UseInv, stack # <<>>, Top.kind = "trace"
  PROVE  /\ CurrentAllocation \subseteq vertices
         /\ CurrentAllocation \subseteq Ids(prog)
         /\ Forgets(prog) \/ CurrentAllocation # {}
<1> DEFINE n == Len(stack)
           T == {n - i : i \in {j \in 1 .. n : stack[j].kind = "visitor"}}
<1>1. /\ n \in Nat \ {0} /\ DOMAIN stack = 1 .. n /\ stack[n].kind = "trace"
      /\ stack[1].kind = "visitor"
  BY TopFacts DEF UseInv, StackOK
<1>2. T \subseteq Nat /\ n - 1 \in T
  <2> HIDE DEF n
  <2> QED BY <1>1
<1>3. PICK k \in T : \A m \in T : k <= m
  <2> HIDE DEF T
  <2> QED BY <1>2, LeastElement
<1>4. PICK i \in 1 .. n : stack[i].kind = "visitor" /\ k = n - i
  OBVIOUS
<1> HIDE DEF n
<1>5. ASSUME NEW j \in (i + 1) .. n PROVE stack[j].kind = "trace"
  <2>1. j \in 1 .. n /\ n - j < k
    BY <1>1, <1>4
  <2>2. n - j \notin T
    <3> HIDE DEF T
    <3> QED BY <1>1, <1>2, <1>3, <2>1
  <2>3. stack[j].kind # "visitor"
    <3>1. stack[j].kind = "visitor" => n - j \in T
      BY <2>1
    <3> QED BY <2>2, <3>1
  <2>4. stack \in Seq(Frames(prog)) /\ j \in DOMAIN stack
    BY <1>1, <2>1 DEF UseInv, StackOK
  <2>5. stack[j] \in Frames(prog)
    <3> DEFINE S == Frames(prog)
    <3> HIDE DEF S
    <3>1. stack \in Seq(S)
      BY <2>4 DEF S
    <3>2. stack[j] \in S
      BY <1>1, <2>1, <3>1, ElementOfSeq DEF n
    <3> QED BY <3>2 DEF S
  <2> QED BY <2>3, <2>5 DEF Frames, Visitors, VisitorFrames, Traces, TraceFrames
<1>6. /\ Self \in DOMAIN stack /\ stack[Self].kind = "visitor"
      /\ \A j \in (Self + 1) .. Len(stack) : stack[j].kind = "trace"
  <2>1. /\ i \in DOMAIN stack /\ stack[i].kind = "visitor"
        /\ \A j \in (i + 1) .. Len(stack) : stack[j].kind = "trace"
    BY <1>1, <1>4, <1>5 DEF n
  <2> HIDE DEF T
  <2> QED BY <2>1 DEF Self
<1> DEFINE m == Self
<1>7. /\ m \in 1 .. n /\ stack[m].kind = "visitor"
      /\ \A j \in (m + 1) .. n : stack[j].kind = "trace"
  BY <1>1, <1>6 DEF n
<1> HIDE DEF m
<1>8. m # n /\ m + 1 \in 2 .. n /\ m + 1 \in (m + 1) .. n /\ (m + 1) - 1 = m
  BY <1>1, <1>7
<1>9. Above(prog, stack[m], stack[m + 1])
  <2>1. \A j \in 2 .. n : Above(prog, stack[j - 1], stack[j])
    BY DEF UseInv, StackOK, n
  <2> QED BY <1>8, <2>1
<1>10. Forgets(prog) \/ stack[m].allocation # {}
  BY <1>7, <1>8, <1>9 DEF Above
<1>11. stack[m].allocation \subseteq vertices
  BY <1>7 DEF UseInv, StackOK, n
<1>12. CurrentAllocation = stack[m].allocation
  BY DEF CurrentAllocation, m
<1> QED BY <1>10, <1>11, <1>12 DEF UseInv

\* The use an activation of trace is at.
LEMMA UseFacts ==
  ASSUME UseInv, Tracing
  PROVE  /\ Top \in Traces(prog)
         /\ Use \in DOMAIN prog[Top.fn] /\ Use \in Nat
         /\ Used.dst \in Nat
         /\ DOMAIN Used.src \subseteq Nat
<1>1. Top \in Traces(prog) /\ Top.todo # {}
  BY TopFacts DEF Tracing
<1>2. Top.fn \in DOMAIN prog /\ Top.todo \subseteq DOMAIN prog[Top.fn] /\ Top.todo \subseteq Nat
  BY <1>1 DEF Traces, TraceFrames
<1>3. Min(Top.todo) \in Top.todo
  BY <1>1, <1>2, MinFact
<1>4. Use \in DOMAIN prog[Top.fn] /\ Use \in Nat
  BY <1>2, <1>3 DEF Use
<1> QED BY <1>1, <1>2, <1>4, ProgramFacts DEF Used, UseInv

LEMMA NewIds ==
  ASSUME UseInv, Tracing
  PROVE  LeadsTo \subseteq Ids(prog) /\ CallId(Top.fn, Use) \in Ids(prog)
<1>1. /\ Top.fn \in DOMAIN prog /\ Use \in Nat /\ Used.dst \in Nat
      /\ DOMAIN Used.src \subseteq Nat
  BY UseFacts DEF Traces, TraceFrames
<1>2. \A i \in Nat : Id(Top.fn, Used.dst, Use, i) \in Ids(prog)
  BY <1>1 DEF Id, Ids
<1>3. CallId(Top.fn, Use) = Id(Top.fn, Used.dst, Use, 0)
  BY DEF CallId, Used
<1>4. Captured \subseteq Nat
  BY <1>1 DEF Captured
<1> HIDE DEF Id
<1>5. LeadsTo \subseteq Ids(prog)
  BY <1>2, <1>4 DEF LeadsTo
<1> QED BY <1>2, <1>3, <1>5

\* Going on to the next use.
LEMMA ContinuedOK ==
  ASSUME UseInv, Tracing, NEW W, vertices \subseteq W, NEW S, S \subseteq Top.todo,
         NEW s, s = Append(Front(stack), [Top EXCEPT !.todo = S])
  PROVE  /\ StackOK(prog, s, W, root) /\ s # <<>>
         /\ Last(s).kind = "trace"
<1> DEFINE F == Frames(prog)
           e == [Top EXCEPT !.todo = S]
<1>1. stack \in Seq(F) /\ stack # <<>> /\ StackOK(prog, stack, vertices, root)
  BY DEF UseInv, StackOK, Tracing
<1>2. Top \in Traces(prog) /\ Top.kind = "trace" /\ Top = Last(stack)
  BY UseFacts DEF Tracing, Top
<1>3. /\ e \in Traces(prog) /\ e.kind = "trace" /\ e.fn = Top.fn
      /\ e.from_new = Top.from_new
  BY <1>2 DEF Traces, TraceFrames
<1>4. e \in F
  BY <1>3 DEF Frames
<1> HIDE DEF e
<1>5. /\ s \in Seq(F) /\ s # <<>> /\ Len(s) = Len(stack)
      /\ \A i \in 1 .. (Len(stack) - 1) : s[i] = stack[i]
      /\ s[Len(stack)] = e
  <2>1. s = Append(Front(stack), e)
    BY DEF e
  <2> HIDE DEF F
  <2> QED BY <1>1, <1>4, <2>1, ReplaceLastFacts
<1>6. StackOK(prog, s, W, root)
  BY <1>1, <1>2, <1>3, <1>4, <1>5, ReplaceTop
<1>7. Last(s) = e
  BY <1>5 DEF Last
<1> QED BY <1>3, <1>5, <1>6, <1>7

\* A borrow is given objects that were met.
LEMMA MapFacts ==
  ASSUME UseInv, Tracing, NEW B, NEW w, MapAllocation(B, w)
  PROVE  /\ status' \in {"running", "panic"}
         /\ \A u \in allocation_set' : u.shared_object \in vertices
<1> DEFINE inside == B \cap DOMAIN terminator_to_tx
<1>1. status = "running"
  BY DEF Tracing
<1>2. CurrentAllocation \subseteq vertices
  BY SelfFacts DEF Tracing
<1>3. CASE inside # {} /\ CurrentAllocation = None
  BY <1>3 DEF MapAllocation, UseInv
<1>4. CASE ~(inside # {} /\ CurrentAllocation = None)
  <2>1. /\ status' = status
        /\ allocation_set' = allocation_set \cup
             {[tx |-> terminator_to_tx[x], shared_object |-> a, is_write |-> w[x]] :
                x \in inside, a \in CurrentAllocation}
    BY <1>4 DEF MapAllocation
  <2> QED BY <1>1, <1>2, <2>1 DEF UseInv
<1> QED BY <1>3, <1>4

-----------------------------------------------------------------------------
(* Every step keeps UseInv.                                                 *)

LEMMA UseInitOK == UseInit => UseInv
<1> SUFFICES ASSUME UseInit PROVE UseInv
  OBVIOUS
<1>1. StackOK(prog, <<>>, vertices, root)
  <2>1. Len(<<>>) = 0 /\ <<>> \in Seq(Frames(prog))
    OBVIOUS
  <2>2. \A i \in 1 .. 0 : FALSE
    OBVIOUS
  <2>3. \A i \in 2 .. 0 : FALSE
    OBVIOUS
  <2> QED BY <2>1, <2>2, <2>3 DEF StackOK
<1> QED BY <1>1 DEF UseInit, UseInv

LEMMA GetSharedObjectsOK ==
  ASSUME UseInv, NEW f \in DOMAIN prog, GetSharedObjects(f)
  PROVE  UseInv'
<1> DEFINE v == Visitor(f, None, 0, None)
           F == Frames(prog)
<1>1. v \in F /\ v.kind = "visitor" /\ v.fn = f /\ v.allocation = {}
  BY DEF Visitor, Frames, Visitors, VisitorFrames, KnowsAllocation, None
<1>2. <<v>> \in Seq(F) /\ Len(<<v>>) = 1 /\ <<v>>[1] = v
  <2> HIDE DEF v, F
  <2> QED BY <1>1
<1> HIDE DEF v
<1>3. \A i \in 1 .. 1 : i = 1
  OBVIOUS
<1>4. \A i \in 2 .. 1 : FALSE
  OBVIOUS
<1>5. StackOK(prog, <<v>>, {}, {f})
  BY <1>1, <1>2, <1>3, <1>4 DEF StackOK
<1>6. StackOK(prog', stack', vertices', root')
  BY <1>5 DEF GetSharedObjects, v
<1>7. DOMAIN is_write' \subseteq vertices'
  <2>1. DOMAIN <<>> = {}
    OBVIOUS
  <2> QED BY <2>1 DEF GetSharedObjects
<1> QED BY <1>6, <1>7 DEF GetSharedObjects, UseInv

LEMMA ExtendSharedOK ==
  ASSUME UseInv, ExtendShared
  PROVE  UseInv'
BY DEF ExtendShared, UseInv, maps

\* Moving on in the body of the function.
LEMMA AdvanceOK ==
  ASSUME UseInv, Visiting, NEW W, vertices \subseteq W,
         NEW e \in VisitorFrames(prog), e.fn = Top.fn, e.pos = Top.pos + 1,
         e.arg_id = Top.arg_id, e.arg_index = Top.arg_index,
         e.allocation = Top.allocation \/ e.allocation # {}, e.allocation \subseteq W
  PROVE  LET s == Append(Front(stack), e)
         IN  StackOK(prog, s, W, root) /\ s # <<>> /\ Last(s) = e
<1> DEFINE F == Frames(prog)
           s == Append(Front(stack), e)
<1>1. stack \in Seq(F) /\ stack # <<>> /\ StackOK(prog, stack, vertices, root)
  BY DEF UseInv, StackOK, Visiting
<1>2. Top \in Visitors(prog) /\ Top.kind = "visitor" /\ Top = Last(stack)
  BY TopFacts DEF Visiting, Top
<1>3. e.kind = "visitor"
  BY DEF VisitorFrames
<1>4. NewBefore(prog, Top) => NewBefore(prog, e)
  <2>1. Top.fn \in DOMAIN prog /\ Top.pos \in Nat
    BY <1>2 DEF Visitors, VisitorFrames
  <2>2. DOMAIN prog[Top.fn] \subseteq Nat
    BY <2>1, ProgramFacts DEF UseInv
  <2> QED BY <2>1, <2>2 DEF NewBefore
<1>5. KnowsAllocation(prog, Top)
  BY <1>2 DEF Visitors
<1>6. KnowsAllocation(prog, e)
  BY <1>4, <1>5 DEF KnowsAllocation
<1>7. e \in Visitors(prog)
  BY <1>6 DEF Visitors
<1>8. e \in F
  BY <1>7 DEF Frames
<1>9. /\ s \in Seq(F) /\ s # <<>> /\ Len(s) = Len(stack)
      /\ \A i \in 1 .. (Len(stack) - 1) : s[i] = stack[i]
      /\ s[Len(stack)] = e
  <2> HIDE DEF F
  <2> QED BY <1>1, <1>8, ReplaceLastFacts
<1> HIDE DEF s
<1>10. StackOK(prog, s, W, root)
  <2>1. /\ e \in Frames(prog) /\ s \in Seq(Frames(prog)) /\ e.kind # "trace"
        /\ e.kind = Last(stack).kind /\ e.fn = Last(stack).fn /\ e.allocation \subseteq W
    BY <1>2, <1>3, <1>8, <1>9
  <2> HIDE DEF F
  <2> QED BY <1>1, <1>9, <2>1, ReplaceTop
<1>11. Last(s) = e
  BY <1>9 DEF Last
<1> QED BY <1>9, <1>10, <1>11 DEF s

\* The record of a visitor that has moved on.
LEMMA AdvancedFrame ==
  ASSUME NEW v \in VisitorFrames(prog), NEW A, A \subseteq Ids(prog)
  PROVE  LET e == [v EXCEPT !.pos = @ + 1, !.allocation = A]
         IN  /\ e \in VisitorFrames(prog) /\ e.fn = v.fn /\ e.pos = v.pos + 1
             /\ e.kind = "visitor" /\ e.allocation = A
             /\ e.arg_id = v.arg_id /\ e.arg_index = v.arg_index
<1> DEFINE I == SUBSET Ids(prog)
           e == [v EXCEPT !.pos = @ + 1, !.allocation = A]
           F == [kind : {"visitor"}, fn : DOMAIN prog, arg_id : I, arg_index : Nat,
                 allocation : I, pos : Nat \ {0}]
<1>1. v \in F /\ A \in I
  BY DEF VisitorFrames
<1>2. v.pos + 1 \in Nat \ {0}
  BY DEF VisitorFrames
<1> HIDE DEF I
<1>3. /\ e \in F /\ e.fn = v.fn /\ e.pos = v.pos + 1
      /\ e.kind = "visitor" /\ e.allocation = A
      /\ e.arg_id = v.arg_id /\ e.arg_index = v.arg_index
  BY <1>1, <1>2
<1> QED BY <1>3 DEF VisitorFrames, I

LEMMA NewTrace ==
  ASSUME NEW f \in DOMAIN prog, prog \in Programs, NEW id \in Ids(prog), NEW b \in BOOLEAN
  PROVE  /\ Trace(f, id, b) \in Frames(prog) /\ Trace(f, id, b).kind = "trace"
         /\ Trace(f, id, b).from_new = b
<1>1. UsesOf(f, id[2]) \subseteq DOMAIN prog[f] /\ UsesOf(f, id[2]) \subseteq Nat
  BY ProgramFacts DEF UsesOf
<1> QED BY <1>1 DEF Trace, Frames, Traces, TraceFrames

LEMMA VisitNewOK ==
  ASSUME UseInv, VisitNew
  PROVE  UseInv'
<1> DEFINE id == CallId(Top.fn, Top.pos)
           me == [Top EXCEPT !.pos = @ + 1, !.allocation = {id}]
           s == Append(Front(stack), me)
           e == Trace(Top.fn, id, TRUE)
           W == vertices \cup {id}
<1>1. Visiting /\ stack # <<>> /\ prog[Top.fn][Top.pos].op = "new" /\ Top \in Visitors(prog)
  BY TopFacts DEF VisitNew, Visiting
<1>2. Top.fn \in DOMAIN prog /\ Top.pos \in Nat \ {0} /\ prog \in Programs
  BY <1>1 DEF Visitors, VisitorFrames, UseInv
<1>3. Top.pos \in DOMAIN prog[Top.fn]
  <2>1. Len(prog[Top.fn]) \in Nat /\ DOMAIN prog[Top.fn] = 1 .. Len(prog[Top.fn])
    BY <1>2, ProgramsAssumption
  <2>2. Top.pos <= Len(prog[Top.fn])
    BY <1>1 DEF Visiting
  <2> QED BY <1>2, <2>1, <2>2
<1>4. id \in Ids(prog)
  <2>1. prog[Top.fn][Top.pos].dst \in Nat
    BY <1>2, <1>3, ProgramFacts
  <2> QED BY <1>2, <2>1 DEF CallId, Id, Ids
<1> HIDE DEF id
<1>5. vertices \subseteq W /\ {id} \subseteq W /\ {id} # {} /\ {id} \subseteq Ids(prog)
  BY <1>4
<1>6. /\ me \in VisitorFrames(prog) /\ me.kind = "visitor" /\ me.allocation = {id}
      /\ me.fn = Top.fn /\ me.pos = Top.pos + 1
      /\ me.arg_id = Top.arg_id /\ me.arg_index = Top.arg_index
  <2> DEFINE A == {id}
  <2>1. Top \in VisitorFrames(prog) /\ A \subseteq Ids(prog)
    BY <1>1, <1>5 DEF Visitors
  <2> HIDE DEF A
  <2>2. LET m == [Top EXCEPT !.pos = @ + 1, !.allocation = A]
        IN  /\ m \in VisitorFrames(prog) /\ m.fn = Top.fn /\ m.pos = Top.pos + 1
            /\ m.kind = "visitor" /\ m.allocation = A
            /\ m.arg_id = Top.arg_id /\ m.arg_index = Top.arg_index
    BY <2>1, AdvancedFrame
  <2> QED BY <2>2 DEF A
<1>15. StackOK(prog, s, W, root) /\ s # <<>> /\ Last(s) = me
  <2> HIDE DEF me, W
  <2> QED BY <1>1, <1>5, <1>6, AdvanceOK
<1>7. e \in Frames(prog) /\ e.kind = "trace"
  BY <1>2, <1>4, NewTrace
<1>8. NewBefore(prog, me)
  <2>1. Top.pos < Top.pos + 1
    BY <1>2
  <2> HIDE DEF me
  <2> QED BY <1>1, <1>3, <1>6, <2>1 DEF NewBefore
<1> HIDE DEF me, s, e
<1>9. Above(prog, Last(s), e)
  BY <1>6, <1>15, <1>8 DEF Above
<1>10. StackOK(prog, Append(s, e), W, root)
  <2> HIDE DEF W
  <2> QED BY <1>15, <1>7, <1>9, PushStack
<1>11. /\ stack' = Append(s, e) /\ vertices' = W
       /\ UNCHANGED <<crate, edges, is_write, allocation_set, status>>
  BY DEF VisitNew, id, me, s, e
<1>12. StackOK(prog', stack', vertices', root')
  BY <1>10, <1>11 DEF crate
<1>13. vertices' \subseteq Ids(prog')
  BY <1>4, <1>11 DEF crate, UseInv
<1>14. status' = "running"
  BY <1>1, <1>11 DEF Visiting
<1> QED BY <1>11, <1>12, <1>13, <1>14 DEF UseInv, crate

\* A visitor that only moves on keeps its allocation.
LEMMA AdvancedFacts ==
  ASSUME UseInv, Visiting
  PROVE  /\ \A W : vertices \subseteq W => StackOK(prog, Advanced, W, root)
         /\ Advanced # <<>> /\ Last(Advanced).kind = "visitor"
         /\ Last(Advanced).allocation = Top.allocation
<1> DEFINE A == Top.allocation
           m == [Top EXCEPT !.pos = @ + 1, !.allocation = A]
<1>1. Top \in Visitors(prog) /\ A \subseteq vertices
  BY TopFacts DEF Visiting
<1>2. m = [Top EXCEPT !.pos = @ + 1]
  BY <1>1 DEF Visitors, VisitorFrames
<1>3. Advanced = Append(Front(stack), m)
  BY <1>2 DEF Advanced
<1>4. /\ m \in VisitorFrames(prog) /\ m.kind = "visitor" /\ m.allocation = A
      /\ m.fn = Top.fn /\ m.pos = Top.pos + 1
      /\ m.arg_id = Top.arg_id /\ m.arg_index = Top.arg_index
  <2>1. Top \in VisitorFrames(prog) /\ A \subseteq Ids(prog)
    BY <1>1 DEF Visitors, VisitorFrames
  <2> HIDE DEF A
  <2> QED BY <2>1, AdvancedFrame
<1> HIDE DEF m
<1>5. ASSUME NEW W, vertices \subseteq W
      PROVE  /\ StackOK(prog, Advanced, W, root) /\ Advanced # <<>>
             /\ Last(Advanced) = m
  <2>1. m.allocation \subseteq W
    BY <1>1, <1>4, <1>5
  <2> QED BY <1>3, <1>4, <1>5, <2>1, AdvanceOK
<1> QED BY <1>4, <1>5

LEMMA VisitArgOK ==
  ASSUME UseInv, VisitArg
  PROVE  UseInv'
<1>1. PICK old \in Top.arg_id :
        LET new == Id(Top.fn, Top.arg_index, Top.pos, old[4])
        IN /\ edges' = edges \cup {<<old, new>>}
           /\ vertices' = vertices \cup {new}
           /\ stack' = Append(Advanced, Trace(Top.fn, new, FALSE))
  BY DEF VisitArg
<1> DEFINE new == Id(Top.fn, Top.arg_index, Top.pos, old[4])
           e == Trace(Top.fn, new, FALSE)
           W == vertices \cup {new}
<1>2. /\ Visiting /\ MentionsArg /\ stack # <<>> /\ Top \in Visitors(prog)
      /\ UNCHANGED <<crate, is_write, allocation_set, status>>
  BY TopFacts DEF VisitArg, Visiting
<1>3. /\ Top.fn \in DOMAIN prog /\ Top.pos \in Nat \ {0} /\ prog \in Programs
      /\ Top.arg_index \in Nat /\ Top.arg_id \subseteq Ids(prog)
  BY <1>2 DEF Visitors, VisitorFrames, UseInv
<1>4. new \in Ids(prog)
  <2>1. old[4] \in Nat
    BY <1>3 DEF Ids
  <2> QED BY <1>3, <2>1 DEF Id, Ids
<1>5. edges' = edges \cup {<<old, new>>} /\ vertices' = W /\ stack' = Append(Advanced, e)
  BY <1>1
<1> HIDE DEF new
<1>6. e \in Frames(prog) /\ e.kind = "trace" /\ e.from_new = FALSE
  BY <1>3, <1>4, NewTrace
<1> HIDE DEF e
<1>7. Forgets(prog) \/ Top.allocation # {}
  <2>1. SUFFICES ASSUME NewBefore(prog, Top) PROVE Forgets(prog)
    BY <1>2 DEF Visitors, KnowsAllocation, MentionsArg, None
  <2>2. EnteredIn(prog, Top.fn, Top.arg_index)
    BY <1>2 DEF Visitors, KnowsAllocation, MentionsArg, None
  <2>3. Top.pos \in DOMAIN prog[Top.fn]
    <3>1. Len(prog[Top.fn]) \in Nat /\ DOMAIN prog[Top.fn] = 1 .. Len(prog[Top.fn])
      BY <1>3, ProgramsAssumption
    <3>2. Top.pos <= Len(prog[Top.fn])
      BY <1>2 DEF Visiting
    <3> QED BY <1>3, <3>1, <3>2
  <2>4. /\ prog[Top.fn][Top.pos].op \in Statements
        /\ Top.arg_index \in Locals(prog[Top.fn][Top.pos])
    BY <1>2 DEF MentionsArg
  <2>5. PICK i \in DOMAIN prog[Top.fn] : i < Top.pos /\ prog[Top.fn][i].op = "new"
    BY <2>1 DEF NewBefore
  <2> QED BY <1>3, <2>2, <2>3, <2>4, <2>5 DEF Forgets
<1>8. /\ StackOK(prog, Advanced, W, root) /\ Advanced # <<>>
      /\ Last(Advanced).kind = "visitor" /\ Last(Advanced).allocation = Top.allocation
  BY <1>2, AdvancedFacts
<1>9. Above(prog, Last(Advanced), e)
  BY <1>6, <1>7, <1>8 DEF Above
<1>10. StackOK(prog, Append(Advanced, e), W, root)
  <2> HIDE DEF W
  <2> QED BY <1>6, <1>8, <1>9, PushStack
<1>12. StackOK(prog', stack', vertices', root')
  BY <1>2, <1>5, <1>10 DEF crate
<1>13. vertices' \subseteq Ids(prog')
  BY <1>2, <1>4, <1>5 DEF crate, UseInv
<1>14. status' = "running"
  BY <1>2 DEF Visiting
<1>15. \A x \in edges' : x[2] \in vertices'
  BY <1>5 DEF UseInv
<1> QED BY <1>2, <1>5, <1>12, <1>13, <1>14, <1>15 DEF UseInv, crate

LEMMA VisitOtherOK ==
  ASSUME UseInv, VisitOther
  PROVE  UseInv'
<1>1. /\ Visiting /\ status = "running" /\ stack' = Advanced
      /\ UNCHANGED <<crate, maps, status>>
  BY DEF VisitOther, Visiting
<1>2. StackOK(prog, Advanced, vertices, root)
  BY <1>1, AdvancedFacts
<1>3. StackOK(prog', stack', vertices', root')
  BY <1>1, <1>2 DEF crate, maps
<1> QED BY <1>1, <1>3 DEF UseInv, crate, maps

LEMMA VisitorReturnsOK ==
  ASSUME UseInv, VisitorReturns
  PROVE  UseInv'
<1>1. /\ stack # <<>> /\ stack' = Front(stack) /\ UNCHANGED <<crate, maps>>
      /\ status' = IF Len(stack) = 1 THEN "done" ELSE "running"
  BY DEF VisitorReturns
<1>2. StackOK(prog, Front(stack), vertices, root)
  BY <1>1, PopStack DEF UseInv
<1>3. StackOK(prog', stack', vertices', root')
  BY <1>1, <1>2 DEF crate, maps
<1>4. Len(stack) = 1 => stack' = <<>>
  <2> DEFINE S == Frames(prog)
  <2>1. stack \in Seq(S)
    BY DEF UseInv, StackOK
  <2> HIDE DEF S
  <2>2. Front(stack) \in Seq(S) /\ Len(Front(stack)) = Len(stack) - 1
    BY <1>1, <2>1, FrontFacts
  <2> QED BY <1>1, <2>2, EmptySeq
<1> QED BY <1>1, <1>3, <1>4 DEF UseInv, crate, maps

\* Going on to the next use, with more vertices.
LEMMA ContinuedFacts ==
  ASSUME UseInv, Tracing, NEW W, vertices \subseteq W
  PROVE  StackOK(prog, Continued, W, root) /\ Continued # <<>> /\ Last(Continued).kind = "trace"
<1> DEFINE S == Top.todo \ {Use}
           s == Append(Front(stack), [Top EXCEPT !.todo = S])
<1>1. Continued = s
  BY DEF Continued
<1>2. S \subseteq Top.todo
  OBVIOUS
<1> HIDE DEF S
<1>3. s = Append(Front(stack), [Top EXCEPT !.todo = S])
  OBVIOUS
<1> HIDE DEF s
<1>4. StackOK(prog, s, W, root) /\ s # <<>> /\ Last(s).kind = "trace"
  BY <1>2, <1>3, ContinuedOK
<1> QED BY <1>1, <1>4

LEMMA TraceNewUseOK ==
  ASSUME UseInv, TraceNewUse
  PROVE  UseInv'
<1>1. /\ Tracing /\ status = "running"
      /\ UNCHANGED <<crate, is_write, allocation_set, status>>
  BY DEF TraceNewUse, Tracing
<1>2. PICK new \in LeadsTo \ vertices :
        /\ edges' = edges \cup {<<Top.id, new>>}
        /\ vertices' = vertices \cup {new}
        /\ stack' = Append(Continued, Trace(Top.fn, new, FALSE))
  BY DEF TraceNewUse
<1> DEFINE W == vertices \cup {new}
           e == Trace(Top.fn, new, FALSE)
<1>3. new \in Ids(prog) /\ Top.fn \in DOMAIN prog /\ prog \in Programs
  BY <1>1, NewIds, UseFacts DEF Traces, TraceFrames, UseInv
<1>4. e \in Frames(prog) /\ e.kind = "trace" /\ e.from_new = FALSE
  BY <1>3, NewTrace
<1> HIDE DEF e
<1>5. StackOK(prog, Continued, W, root) /\ Continued # <<>> /\ Last(Continued).kind = "trace"
  BY <1>1, ContinuedFacts
<1>6. Above(prog, Last(Continued), e)
  BY <1>4, <1>5 DEF Above
<1>7. StackOK(prog, Append(Continued, e), W, root)
  <2> HIDE DEF W
  <2> QED BY <1>4, <1>5, <1>6, PushStack
<1>8. StackOK(prog', stack', vertices', root')
  BY <1>1, <1>2, <1>7 DEF crate, e
<1>9. vertices' \subseteq Ids(prog')
  BY <1>1, <1>2, <1>3 DEF crate, UseInv
<1>10. \A x \in edges' : x[2] \in vertices'
  BY <1>2 DEF UseInv
<1>11. /\ DOMAIN is_write' \subseteq vertices'
       /\ \A u \in allocation_set' : u.shared_object \in vertices'
  BY <1>1, <1>2 DEF UseInv
<1> QED BY <1>1, <1>8, <1>9, <1>10, <1>11 DEF UseInv, crate

LEMMA TraceKnownUseOK ==
  ASSUME UseInv, TraceKnownUse
  PROVE  UseInv'
<1>1. /\ Tracing /\ status = "running"
      /\ UNCHANGED <<crate, vertices, is_write>>
  BY DEF TraceKnownUse, Tracing
<1>2. PICK new \in LeadsTo \cap vertices :
        LET E == edges \cup {<<Top.id, new>>}
        IN /\ edges' = E
           /\ stack' = Continued
           /\ CASE Next1({new}, E) = {} -> status' = "panic" /\ UNCHANGED allocation_set
                [] Cyclic(new, E) -> status' = "overflow" /\ UNCHANGED allocation_set
                [] ~(UseSet(new, E) \subseteq DOMAIN is_write) ->
                     status' = "panic" /\ UNCHANGED allocation_set
                [] OTHER -> MapAllocation(UseSet(new, E), is_write)
  BY DEF TraceKnownUse
<1> DEFINE E == edges \cup {<<Top.id, new>>}
<1>3. edges' = E /\ stack' = Continued
  BY <1>2
<1>4. \/ status' \in {"panic", "overflow"} /\ UNCHANGED allocation_set
      \/ MapAllocation(UseSet(new, E), is_write)
  <2> DEFINE none == Next1({new}, E) = {}
             cyclic == Cyclic(new, E)
             other == UseSet(new, E) \subseteq DOMAIN is_write
             map == MapAllocation(UseSet(new, E), is_write)
  <2>1. (CASE none -> status' = "panic" /\ UNCHANGED allocation_set
           [] cyclic -> status' = "overflow" /\ UNCHANGED allocation_set
           [] ~other -> status' = "panic" /\ UNCHANGED allocation_set
           [] OTHER -> map)
    BY <1>2
  <2>2. map => MapAllocation(UseSet(new, E), is_write)
    OBVIOUS
  <2> HIDE DEF none, cyclic, other, map
  <2> QED BY <2>1, <2>2
<1>5. /\ status' \in {"running", "panic", "overflow"}
      /\ \A u \in allocation_set' : u.shared_object \in vertices
  <2>1. CASE status' \in {"panic", "overflow"} /\ UNCHANGED allocation_set
    BY <2>1 DEF UseInv
  <2>2. CASE MapAllocation(UseSet(new, E), is_write)
    <3> DEFINE B == UseSet(new, E)
    <3>1. MapAllocation(B, is_write)
      BY <2>2
    <3> HIDE DEF B
    <3> QED BY <1>1, <3>1, MapFacts
  <2> QED BY <1>4, <2>1, <2>2
<1>6. StackOK(prog, Continued, vertices, root)
  BY <1>1, ContinuedFacts
<1>7. StackOK(prog', stack', vertices', root')
  BY <1>1, <1>3, <1>6 DEF crate
<1>8. \A x \in edges' : x[2] \in vertices'
  BY <1>1, <1>2, <1>3 DEF UseInv
<1> QED BY <1>1, <1>5, <1>7, <1>8 DEF UseInv, crate

LEMMA TraceBorrowOK ==
  ASSUME UseInv, TraceBorrow
  PROVE  UseInv'
<1> DEFINE id == CallId(Top.fn, Use)
           W == vertices \cup {id}
<1>1. /\ Tracing /\ status = "running" /\ UNCHANGED crate
      /\ is_write' = Put(is_write, id, Used.op = "write")
      /\ MapAllocation({id}, is_write')
      /\ edges' = edges \cup {<<Top.id, id>>}
      /\ vertices' = W /\ stack' = Continued
  BY DEF TraceBorrow, Tracing
<1>2. id \in Ids(prog)
  BY <1>1, NewIds
<1> HIDE DEF id
<1>3. /\ status' \in {"running", "panic"}
      /\ \A u \in allocation_set' : u.shared_object \in vertices
  <2>1. PICK B, w : B = {id} /\ w = is_write'
    OBVIOUS
  <2>2. MapAllocation(B, w)
    BY <1>1, <2>1
  <2> QED BY <1>1, <2>2, MapFacts
<1>4. StackOK(prog, Continued, W, root)
  <2>1. vertices \subseteq W
    OBVIOUS
  <2> HIDE DEF W
  <2> QED BY <1>1, <2>1, ContinuedFacts
<1>5. StackOK(prog', stack', vertices', root')
  BY <1>1, <1>4 DEF crate
<1>6. DOMAIN is_write' \subseteq vertices'
  BY <1>1 DEF Put, UseInv
<1>7. \A x \in edges' : x[2] \in vertices'
  BY <1>1 DEF UseInv
<1>8. vertices' \subseteq Ids(prog')
  BY <1>1, <1>2 DEF crate, UseInv
<1>9. \A u \in allocation_set' : u.shared_object \in vertices'
  BY <1>1, <1>3
<1> QED BY <1>1, <1>3, <1>5, <1>6, <1>7, <1>8, <1>9 DEF UseInv, crate

LEMMA TraceCallOK ==
  ASSUME UseInv, TraceCall
  PROVE  UseInv'
<1>1. /\ Tracing /\ status = "running" /\ stack # <<>> /\ Top.kind = "trace"
      /\ UNCHANGED <<crate, edges, vertices, is_write, allocation_set, status>>
  BY DEF TraceCall, Tracing
<1>2. PICK call \in Enters :
        /\ call[1] \in DOMAIN prog
        /\ stack' = Append(Continued, Visitor(call[1], {Top.id}, call[2], CurrentAllocation))
  BY DEF TraceCall
<1> DEFINE e == Visitor(call[1], {Top.id}, call[2], CurrentAllocation)
<1>3. /\ CurrentAllocation \subseteq vertices /\ CurrentAllocation \subseteq Ids(prog)
      /\ Forgets(prog) \/ CurrentAllocation # {}
  BY <1>1, SelfFacts
<1>4. /\ Top.id \in Ids(prog) /\ Top.fn \in DOMAIN prog /\ prog \in Programs
      /\ Use \in DOMAIN prog[Top.fn] /\ DOMAIN Used.src \subseteq Nat
      /\ Used = prog[Top.fn][Use]
  BY <1>1, UseFacts DEF Traces, TraceFrames, Used, UseInv
<1>5. /\ Used.op \in {"call", "spawn"} /\ Used.to = call[1]
      /\ call[2] \in DOMAIN Used.src \cup {1}
  <2>1. "another crate" # call[1]
    BY <1>2, <1>4, ProgramFacts
  <2> HIDE DEF Used
  <2>2. CASE Used.op = "call"
    <3>1. PICK i \in DOMAIN Used.src :
            call = <<Used.to, IF Top.id[4] # 0 THEN 1 ELSE i>>
      BY <1>2, <2>2 DEF Enters, PassedAs
    <3>2. call[1] = Used.to /\ call[2] \in {1, i}
      BY <3>1
    <3> QED BY <2>2, <3>2
  <2>3. CASE Used.op = "spawn"
    <3>1. call \in {<<Used.to, 1>>, <<"another crate", 1>>}
      BY <1>2, <2>3 DEF Enters, PassedAs
    <3>2. call = <<Used.to, 1>>
      <4>1. ASSUME call = <<"another crate", 1>> PROVE FALSE
        BY <2>1, <4>1
      <4> QED BY <3>1, <4>1
    <3>3. call[1] = Used.to /\ call[2] = 1
      BY <3>2
    <3> QED BY <2>3, <3>3
  <2>4. CASE Used.op \notin {"call", "spawn"}
    BY <1>2, <2>4 DEF Enters, PassedAs
  <2> QED BY <2>2, <2>3, <2>4
<1>6. EnteredIn(prog, call[1], call[2]) /\ call[2] \in Nat
  BY <1>4, <1>5 DEF EnteredIn
<1>7. e \in Visitors(prog) /\ e.kind = "visitor" /\ e.allocation \subseteq vertices
  <2>1. /\ e \in VisitorFrames(prog) /\ e.kind = "visitor" /\ e.allocation = CurrentAllocation
        /\ e.fn = call[1] /\ e.arg_index = call[2]
    <3> DEFINE I == Ids(prog)
               x == Top.id
               A == CurrentAllocation
               f == call[1]
               k == call[2]
    <3>1. x \in I /\ A \subseteq I /\ f \in DOMAIN prog /\ k \in Nat
      BY <1>2, <1>3, <1>4, <1>6
    <3>2. e = [kind |-> "visitor", fn |-> f, arg_id |-> {x}, arg_index |-> k,
               allocation |-> A, pos |-> 1]
      BY DEF Visitor
    <3> HIDE DEF x, A, f, k, e, I
    <3>3. /\ e \in [kind : {"visitor"}, fn : DOMAIN prog, arg_id : SUBSET I, arg_index : Nat,
                    allocation : SUBSET I, pos : Nat \ {0}]
          /\ e.kind = "visitor" /\ e.allocation = A /\ e.fn = f /\ e.arg_index = k
      BY <3>1, <3>2
    <3> QED BY <3>3 DEF VisitorFrames, I, A, f, k
  <2> HIDE DEF e
  <2>2. KnowsAllocation(prog, e)
    BY <1>3, <1>6, <2>1 DEF KnowsAllocation
  <2> QED BY <1>3, <2>1, <2>2 DEF Visitors
<1> HIDE DEF e
<1>8. e \in Frames(prog) /\ e.kind # "trace"
  BY <1>7 DEF Frames
<1>9. StackOK(prog, Continued, vertices, root) /\ Continued # <<>>
  BY <1>1, ContinuedFacts
<1>10. Above(prog, Last(Continued), e)
  BY <1>8 DEF Above
<1>11. StackOK(prog, Append(Continued, e), vertices, root)
  BY <1>7, <1>8, <1>9, <1>10, PushStack
<1>12. StackOK(prog', stack', vertices', root')
  BY <1>1, <1>2, <1>11 DEF crate, e
<1> QED BY <1>1, <1>12 DEF UseInv, crate

LEMMA TraceNonLocalCallOK ==
  ASSUME UseInv, TraceNonLocalCall
  PROVE  UseInv'
<1>1. /\ Tracing /\ status = "running" /\ UNCHANGED <<crate, maps, status>>
      /\ stack' = Append(Front(stack), [Top EXCEPT !.todo = {}])
  BY DEF TraceNonLocalCall, Tracing
<1> DEFINE s == Append(Front(stack), [Top EXCEPT !.todo = {}])
<1>2. StackOK(prog, s, vertices, root)
  <2>1. PICK S, q : S = {} /\ q = Append(Front(stack), [Top EXCEPT !.todo = S])
    OBVIOUS
  <2>2. S \subseteq Top.todo /\ q = s
    BY <2>1
  <2>3. StackOK(prog, q, vertices, root)
    BY <1>1, <2>1, <2>2, ContinuedOK
  <2> QED BY <2>2, <2>3
<1>3. StackOK(prog', stack', vertices', root')
  BY <1>1, <1>2 DEF crate, maps
<1> QED BY <1>1, <1>3 DEF UseInv, crate, maps

LEMMA TraceDivergingOK ==
  ASSUME UseInv, TraceDiverging
  PROVE  UseInv'
<1>1. /\ Tracing /\ status' = "panic" /\ UNCHANGED <<crate, maps>>
      /\ stack' = Continued
  BY DEF TraceDiverging
<1>2. StackOK(prog, Continued, vertices, root)
  BY <1>1, ContinuedFacts
<1>3. StackOK(prog', stack', vertices', root')
  BY <1>1, <1>2 DEF crate, maps
<1> QED BY <1>1, <1>3 DEF UseInv, crate, maps

LEMMA TraceNothingOK ==
  ASSUME UseInv, TraceNothing
  PROVE  UseInv'
<1>1. /\ Tracing /\ status = "running" /\ UNCHANGED <<crate, maps, status>>
      /\ stack' = Continued
  BY DEF TraceNothing, Tracing
<1>2. StackOK(prog, Continued, vertices, root)
  BY <1>1, ContinuedFacts
<1>3. StackOK(prog', stack', vertices', root')
  BY <1>1, <1>2 DEF crate, maps
<1> QED BY <1>1, <1>3 DEF UseInv, crate, maps

LEMMA TraceReturnsOK ==
  ASSUME UseInv, TraceReturns
  PROVE  UseInv'
<1> DEFINE s == Front(stack)
           n == Len(stack)
<1>1. /\ status = "running" /\ stack # <<>> /\ Top.kind = "trace"
      /\ UNCHANGED <<crate, maps, status>>
      /\ stack' = IF Top.from_new THEN [s EXCEPT ![n - 1].allocation = None] ELSE s
  BY DEF TraceReturns
<1>2. StackOK(prog, s, vertices, root)
  BY <1>1, PopStack DEF UseInv
<1>3. StackOK(prog, stack', vertices, root)
  <2>1. CASE ~Top.from_new
    BY <1>1, <1>2, <2>1
  <2>2. CASE Top.from_new
    <3> DEFINE F == Frames(prog)
    <3>1. stack \in Seq(F) /\ Top = stack[n] /\ n \in Nat \ {0}
      BY <1>1, TopFacts DEF UseInv, StackOK
    <3>2. n # 1
      BY <1>1, <3>1 DEF UseInv, StackOK
    <3>13. n \in 2 .. n /\ n - 1 \in 1 .. (n - 1)
      <4>1. n \in Nat \ {0}
        BY <3>1
      <4> HIDE DEF n
      <4> QED BY <3>2, <4>1
    <3>3. Above(prog, stack[n - 1], stack[n])
      BY <3>13 DEF UseInv, StackOK
    <3>4. stack[n - 1].kind = "visitor" /\ NewBefore(prog, stack[n - 1])
      BY <1>1, <2>2, <3>1, <3>3 DEF Above
    <3>5. s \in Seq(F) /\ Len(s) = n - 1 /\ s[n - 1] = stack[n - 1] /\ s # <<>>
      <4>1. s \in Seq(F) /\ Len(s) = n - 1 /\ s[n - 1] = stack[n - 1]
        <5> HIDE DEF F
        <5>1. /\ Front(stack) \in Seq(F) /\ Len(Front(stack)) = Len(stack) - 1
              /\ \A i \in 1 .. (Len(stack) - 1) : Front(stack)[i] = stack[i]
          BY <1>1, <3>1, FrontFacts
        <5> QED BY <3>13, <5>1
      <4> HIDE DEF F, s
      <4> QED BY <3>1, <3>2, <4>1, EmptySeq
    <3> DEFINE v == s[n - 1]
               e == [v EXCEPT !.allocation = None]
               t == [s EXCEPT ![n - 1] = e]
    <3>6. v \in F /\ v.kind = "visitor" /\ NewBefore(prog, v) /\ Last(s) = v
      <4>1. s[n - 1] \in F
        <5> HIDE DEF F, s, n
        <5> QED BY <3>1, <3>2, <3>5, ElementOfSeq
      <4> QED BY <3>4, <3>5, <4>1 DEF Last
    <3>7. v \in Visitors(prog)
      <4> HIDE DEF v
      <4> QED BY <3>6 DEF Frames, Traces, TraceFrames
    <3>8. /\ e \in Visitors(prog) /\ e.kind = "visitor" /\ e.fn = v.fn
          /\ e.allocation = {} /\ e.kind # "trace"
      <4> HIDE DEF v
      <4>1. /\ e \in VisitorFrames(prog) /\ e.kind = "visitor" /\ e.fn = v.fn
            /\ e.allocation = {} /\ e.pos = v.pos
            /\ e.arg_id = v.arg_id /\ e.arg_index = v.arg_index
        BY <3>7 DEF Visitors, VisitorFrames, None
      <4>2. KnowsAllocation(prog, v) /\ NewBefore(prog, v)
        BY <3>6, <3>7 DEF Visitors
      <4> HIDE DEF e
      <4>3. NewBefore(prog, e)
        BY <4>1, <4>2 DEF NewBefore
      <4>4. KnowsAllocation(prog, e)
        BY <4>1, <4>2, <4>3 DEF KnowsAllocation
      <4> QED BY <4>1, <4>4 DEF Visitors
    <3>9. stack' = t
      BY <1>1, <2>2
    <3> HIDE DEF e, v
    <3>10. e \in F
      BY <3>8 DEF Frames
    <3> HIDE DEF s
    <3>11. /\ t \in Seq(F) /\ Len(t) = Len(s) /\ t[Len(s)] = e
           /\ \A i \in 1 .. (Len(s) - 1) : t[i] = s[i]
      <4> HIDE DEF F, n
      <4>1. /\ n - 1 \in 1 .. Len(s) /\ Len(s) \in Nat
        BY <3>1, <3>2, <3>5
      <4>2. t \in Seq(F) /\ Len(t) = Len(s) /\ \A i \in 1 .. Len(s) : t[i] = IF i = n - 1 THEN e ELSE s[i]
        BY <3>5, <3>10, <4>1, ExceptSeq
      <4> HIDE DEF t
      <4> QED BY <3>5, <4>1, <4>2
    <3> HIDE DEF t
    <3>12. StackOK(prog, t, vertices, root)
      <4>1. e \in Frames(prog) /\ t \in Seq(Frames(prog)) /\ e.allocation \subseteq vertices
        BY <3>8, <3>10, <3>11
      <4>2. e.kind = Last(s).kind /\ e.fn = Last(s).fn
        BY <3>6, <3>8
      <4> HIDE DEF F
      <4> QED BY <1>2, <3>5, <3>8, <3>11, <4>1, <4>2, ReplaceTop
    <3> QED BY <3>9, <3>12
  <2> QED BY <2>1, <2>2
<1>4. StackOK(prog', stack', vertices', root')
  BY <1>1, <1>3 DEF crate, maps
<1> QED BY <1>1, <1>4 DEF UseInv, crate, maps

LEMMA UseNextOK == UseInv /\ [UseNext]_use_vars => UseInv'
<1> SUFFICES ASSUME UseInv, [UseNext]_use_vars PROVE UseInv'
  OBVIOUS
<1>1. ASSUME UNCHANGED use_vars PROVE UseInv'
  BY <1>1 DEF UseInv, use_vars, crate, maps
<1>2. CASE UseEnded
  BY <1>1, <1>2 DEF UseEnded
<1>3. CASE UseStep
  BY <1>3, GetSharedObjectsOK, ExtendSharedOK, VisitNewOK, VisitArgOK, VisitOtherOK,
     VisitorReturnsOK, TraceNewUseOK, TraceKnownUseOK, TraceBorrowOK, TraceCallOK,
     TraceNonLocalCallOK, TraceDivergingOK, TraceNothingOK, TraceReturnsOK DEF UseStep
<1> QED BY <1>1, <1>2, <1>3 DEF UseNext

(* How the stack of visitors and traces is built, for every crate.          *)
THEOREM UseStackInOrder == UseSpec => []UseInv
BY UseInitOK, UseNextOK, PTL DEF UseSpec

-----------------------------------------------------------------------------
(* Every answer starts from the function it was asked for, an object that   *)
(* is reported was met as a use, and is_write and the edges only speak of   *)
(* uses that were met.                                                      *)
THEOREM UseTypes == UseSpec => []UseTypeOK
<1>1. UseInv => UseTypeOK
  BY DEF UseInv, UseTypeOK, StackOK
<1> QED BY <1>1, UseStackInOrder, PTL

(* Whatever the crate, a visitor that traces knows the allocation it        *)
(* traces, unless a function copies an argument after it has allocated an   *)
(* object of its own: current_allocation.unwrap() in map_allocation can     *)
(* only meet None in such a crate.                                          *)
THEOREM AllocationsKnown == UseSpec => []TracedAllocationIsKnown
<1>1. UseInv => TracedAllocationIsKnown
  <2> SUFFICES ASSUME UseInv, ~ForgetsAllocation,
                      NEW i \in DOMAIN stack, NEW j \in DOMAIN stack, i < j,
                      stack[i].kind = "visitor",
                      \A k \in (i + 1) .. j : stack[k].kind = "trace"
               PROVE  stack[i].allocation # None
    BY DEF TracedAllocationIsKnown
  <2>1. DOMAIN stack = 1 .. Len(stack) /\ Len(stack) \in Nat
    <3> DEFINE S == Frames(prog)
    <3>1. stack \in Seq(S)
      BY DEF UseInv, StackOK
    <3> HIDE DEF S
    <3> QED BY <3>1, LenProperties
  <2> DEFINE k == i + 1
  <2>2. k \in 2 .. Len(stack) /\ k - 1 = i /\ k \in (i + 1) .. j
    BY <2>1
  <2>3. Above(prog, stack[k - 1], stack[k]) /\ stack[k].kind = "trace"
    <3> HIDE DEF k
    <3> QED BY <2>2 DEF UseInv, StackOK
  <2>4. Above(prog, stack[i], stack[k])
    <3> HIDE DEF k
    <3> QED BY <2>2, <2>3
  <2> HIDE DEF k
  <2> QED BY <2>3, <2>4, SameForgets DEF Above, None
<1> QED BY <1>1, UseStackInOrder, PTL
=============================================================================
