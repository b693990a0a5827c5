-------------------------------- MODULE UseDef --------------------------------
(***************************************************************************)
(* Use-def analysis: which shared objects each transaction uses            *)
(* (librustc_mir/transform/transaction/use_def_analysis.rs).               *)
(*                                                                         *)
(* The query conflict_analysis asks get_shared_objects for every function  *)
(* and closure of the crate, in the order of a hash set, and joins the     *)
(* answers.  get_shared_objects runs a UseDefVisitor that goes             *)
(* through the body; at an allocation, and in a callee at every statement  *)
(* that mentions the argument it was entered for, it traces the uses of    *)
(* that local.  `trace` follows a use to the local it is assigned to, into *)
(* a closure, or into a function of the crate, for which a child visitor   *)
(* is made; at a borrow or borrow_mut it adds the allocation to the        *)
(* transaction the call is in.  A use met before is not traced again:      *)
(* use_set collects the borrows that were found behind it.                 *)
(*                                                                         *)
(* The model keeps the visitors and the activations of `trace` on one      *)
(* stack.  A child visitor starts with copies of its parent's maps and is  *)
(* merged back when it returns; as the parent does nothing meanwhile, the  *)
(* maps are shared here.  Only current_allocation belongs to each visitor. *)
(*                                                                         *)
(* A body is a sequence of instructions: straight-line code, in which the  *)
(* block order, in which bodies are visited, is the execution order and    *)
(* TransactionMap has the simple outcome MapOf.  Function names are        *)
(* matched by text in the source; here `op` is the outcome of the match.   *)
(***************************************************************************)
EXTENDS Naturals, Sequences, FiniteSets, SequencesExt

CONSTANTS
  Programs    \* functions from DefIds to bodies

(* Instructions [op, dst, src, to]; src is the sequence of operands, each *)
(* [local, field] with field 0 for the local itself:                         *)
(*   "assign"  dst = src[1]: a move or reference                             *)
(*   "copy"    dst = src[1]: a copy                                          *)
(*   "closure" dst = a closure that captures src                             *)
(*   "new"     dst = TxPtr::new(), Vec::new(), BinarySearchTree::new()       *)
(*   "wrap"    dst = Arc::new, clone, deref or index of src[1]               *)
(*   "read", "write"  src[1].borrow(), src[1].borrow_mut()                   *)
(*   "call"    a call of function `to` with arguments src                    *)
(*   "spawn"   a call of a library function with the closure `to` in its     *)
(*             type arguments and src[1] as its argument                     *)
(*   "diverge" a call with arguments src that never returns: the last one    *)
(*   "lock", "unlock"                                                        *)
(* A `to` that is no function of the program belongs to another crate.       *)
Statements == {"assign", "copy", "closure"}

ASSUME ProgramsAssumption ==
  \A p \in Programs :
    /\ "another crate" \notin DOMAIN p
    /\ \A f \in DOMAIN p :
         /\ Len(p[f]) \in Nat /\ DOMAIN p[f] = 1 .. Len(p[f])
         /\ \A i \in DOMAIN p[f] :
              /\ p[f][i].dst \in Nat
              /\ DOMAIN p[f][i].src \subseteq Nat
              /\ \A k \in DOMAIN p[f][i].src :
                   p[f][i].src[k].local \in Nat /\ p[f][i].src[k].field \in Nat

VARIABLES
  prog,             \* the crate; never changes
  todo,             \* functions get_shared_objects is still to be asked for
  allocation_sets,  \* `all`: what it has returned so far
  root,             \* the function it is asked for: a set of at most one
  stack,            \* visitors and activations of trace, innermost last
  edges,            \* pairs <<use, use it leads to>>
  vertices,         \* uses met
  is_write,         \* borrow -> BOOLEAN, a partial function
  allocation_set,   \* [tx, shared_object, is_write]: the result
  terminator_to_tx, \* call -> transaction, a partial function
  status            \* "idle", "running", "done" (with root), "panic" or
                    \* "overflow" (of the stack)

crate == <<prog, todo, allocation_sets, root>>
maps == <<edges, vertices, is_write, allocation_set, terminator_to_tx>>
use_vars == <<crate, stack, maps, status>>

None == {}

\* UniqueId: def_id, local, location and field (0 for None).
Id(f, local, pos, field) == <<f, local, pos, field>>
CallId(f, pos) == Id(f, prog[f][pos].dst, pos, 0)

Locals(instr) == {instr.src[i].local : i \in DOMAIN instr.src}

Put(f, x, y) == [z \in DOMAIN f \cup {x} |-> IF z = x THEN y ELSE f[z]]
Over(f, g) == g @@ f

-----------------------------------------------------------------------------
(* TransactionMap::perform on straight-line code: a call that returns       *)
(* belongs to the transaction of the last lock call before it, to none      *)
(* after an unlock call, and to the caller's (seed) before both.            *)
MapOf(f, seed) ==
  LET Marks(p) == {q \in 1 .. (p - 1) : prog[f][q].op \in {"lock", "unlock"}}
      LastMark(p) == CHOOSE q \in Marks(p) : \A r \in Marks(p) : r <= q
      In(p) == IF Marks(p) = {} THEN seed
               ELSE IF prog[f][LastMark(p)].op = "lock" THEN {<<f, LastMark(p)>>} ELSE {}
      calls == {p \in DOMAIN prog[f] :
                  /\ prog[f][p].op \notin Statements \cup {"lock", "unlock", "diverge"}
                  /\ In(p) # {}}
  IN [x \in {CallId(f, p) : p \in calls} |-> CHOOSE t \in In(x[3]) : TRUE]

\* The nonmutating uses of a local; `trace` takes them in the order of the body.
UsesOf(f, local) == {p \in DOMAIN prog[f] : local \in Locals(prog[f][p])}

Visitor(f, arg_id, arg_index, allocation) ==
  [kind |-> "visitor", fn |-> f, arg_id |-> arg_id, arg_index |-> arg_index,
   allocation |-> allocation, pos |-> 1]

Trace(f, id, from_new) ==
  [kind |-> "trace", fn |-> f, id |-> id, todo |-> UsesOf(f, id[2]), from_new |-> from_new]

Top == Last(stack)

\* The visitor an activation of trace belongs to.
Self == CHOOSE i \in DOMAIN stack :
          /\ stack[i].kind = "visitor"
          /\ \A j \in (i + 1) .. Len(stack) : stack[j].kind = "trace"

CurrentAllocation == stack[Self].allocation

UseInit ==
  /\ prog \in Programs
  /\ todo = DOMAIN prog
  /\ allocation_sets = <<>>
  /\ root = {}
  /\ stack = <<>>
  /\ edges = {}
  /\ vertices = {}
  /\ is_write = <<>>
  /\ allocation_set = {}
  /\ terminator_to_tx = <<>>
  /\ status = "idle"

-----------------------------------------------------------------------------
(* The loop of conflict_analysis.                                           *)

(* get_shared_objects of the next key: a visitor with maps of its own.      *)
GetSharedObjects(f) ==
  /\ status = "idle" /\ f \in todo
  /\ todo' = todo \ {f}
  /\ root' = {f}
  /\ stack' = <<Visitor(f, None, 0, None)>>
  /\ edges' = {}
  /\ vertices' = {}
  /\ is_write' = <<>>
  /\ allocation_set' = {}
  /\ terminator_to_tx' = MapOf(f, None)
  /\ status' = "running"
  /\ UNCHANGED <<prog, allocation_sets>>

\* One AllocationSet per transaction the visitor has met.
AllocationSets ==
  {[site |-> tx,
    allocations |-> {[shared_object |-> u.shared_object, is_write |-> u.is_write] :
                       u \in {v \in allocation_set : v.tx = tx}}] :
     tx \in {u.tx : u \in allocation_set}}

\* Mutant: the answer replaces the earlier ones.
AssignShared ==
  /\ status = "done"
  /\ \E sets \in SetToSeqs(AllocationSets) : allocation_sets' = sets
  /\ status' = "idle"
  /\ UNCHANGED <<prog, todo, root, stack, maps>>

(* get_shared_objects returns them in the order of a hash map.              *)
ExtendShared ==
  /\ status = "done"
  /\ \E sets \in SetToSeqs(AllocationSets) : allocation_sets' = allocation_sets \o sets
  /\ status' = "idle"
  /\ UNCHANGED <<prog, todo, root, stack, maps>>

-----------------------------------------------------------------------------
(* visit_body.                                                              *)

Visiting == status = "running" /\ stack # <<>> /\ Top.kind = "visitor"
            /\ Top.pos <= Len(prog[Top.fn])
Advanced == Append(Front(stack), [Top EXCEPT !.pos = @ + 1])

(* visit_terminator at an allocation.                                       *)
VisitNew ==
  /\ Visiting /\ prog[Top.fn][Top.pos].op = "new"
  /\ LET id == CallId(Top.fn, Top.pos)
         me == [Top EXCEPT !.pos = @ + 1, !.allocation = {id}]
     IN /\ vertices' = vertices \cup {id}
        /\ stack' = Append(Append(Front(stack), me), Trace(Top.fn, id, TRUE))
  /\ UNCHANGED <<crate, edges, is_write, allocation_set, terminator_to_tx, status>>

\* visit_local looks at statements only: visit_terminator is overridden.
MentionsArg ==
  LET instr == prog[Top.fn][Top.pos]
  IN instr.op \in Statements /\ Top.arg_id # None /\ Top.arg_index \in Locals(instr)

(* visit_local at the argument this visitor was made for.                   *)
VisitArg ==
  /\ Visiting /\ MentionsArg
  /\ \E old \in Top.arg_id :
       LET new == Id(Top.fn, Top.arg_index, Top.pos, old[4])
       IN /\ edges' = edges \cup {<<old, new>>}
          /\ vertices' = vertices \cup {new}
          /\ stack' = Append(Advanced, Trace(Top.fn, new, FALSE))
  /\ UNCHANGED <<crate, is_write, allocation_set, terminator_to_tx, status>>

VisitOther ==
  /\ Visiting /\ prog[Top.fn][Top.pos].op # "new" /\ ~MentionsArg
  /\ stack' = Advanced
  /\ UNCHANGED <<crate, maps, status>>

(* `perform` returns, to `trace` in the caller's visitor or for good.       *)
VisitorReturns ==
  /\ status = "running" /\ stack # <<>> /\ Top.kind = "visitor"
  /\ Top.pos > Len(prog[Top.fn])
  /\ stack' = Front(stack)
  /\ status' = IF Len(stack) = 1 THEN "done" ELSE "running"
  /\ UNCHANGED <<crate, maps>>

-----------------------------------------------------------------------------
(* trace.                                                                   *)

Tracing == status = "running" /\ stack # <<>> /\ Top.kind = "trace" /\ Top.todo # {}
Use == Min(Top.todo)
Used == prog[Top.fn][Use]
Continued == Append(Front(stack), [Top EXCEPT !.todo = @ \ {Use}])

\* The operand of a closure aggregate that passes the traced use on; a closure
\* captures a local, or a field of one, once.
Captured ==
  {i \in DOMAIN Used.src :
     /\ Used.src[i].local = Top.id[2]
     /\ Used.src[i].field = 0 \/ Used.src[i].field = Top.id[4]}

\* Mutant: the projection is not compared with the field that is traced.
AnyField ==
  CASE Used.op \in {"assign", "copy"} -> {Id(Top.fn, Used.dst, Use, 0)}
    [] Used.op = "wrap" -> {Id(Top.fn, Used.dst, Use, 0)}
    [] Used.op = "closure" -> {Id(Top.fn, Used.dst, Use, i) : i \in Captured}
    [] OTHER -> {}

(* location_to_use_kind, the kinds Local and ClosureArg: the use the traced *)
(* one leads to, if any.  A traced field of a closure goes on only where    *)
(* that field is moved or referred to, and not where it is copied.          *)
LeadsTo ==
  CASE Used.op = "assign" -> IF Top.id[4] \in {0, Used.src[1].field}
                               THEN {Id(Top.fn, Used.dst, Use, 0)} ELSE {}
    [] Used.op = "copy" -> IF Top.id[4] = 0 THEN {Id(Top.fn, Used.dst, Use, 0)} ELSE {}
    [] Used.op = "wrap" -> {Id(Top.fn, Used.dst, Use, 0)}
    [] Used.op = "closure" -> {Id(Top.fn, Used.dst, Use, i) : i \in Captured}
    [] OTHER -> {}

\* The arguments that are the traced local.
PassedAs == {i \in DOMAIN Used.src : Used.src[i] = [local |-> Top.id[2], field |-> 0]}

(* The same for the kind Function: <<callee, argument>>.  A traced field is *)
(* taken to be one of a closure, whose environment is its first argument.   *)
Enters ==
  CASE Used.op = "call" ->
         {<<Used.to, IF Top.id[4] # 0 THEN 1 ELSE i>> :
            i \in {j \in PassedAs : \A k \in PassedAs : j <= k}}
    [] Used.op = "spawn" -> IF Top.id[4] # 0 THEN {<<Used.to, 1>>} ELSE {<<"another crate", 1>>}
    [] OTHER -> {}

\* use_set: the ends of all paths along `edges`; it does not return when a
\* path has no end.
Next1(S, E) == {x[2] : x \in {y \in E : y[1] \in S}}
Behind(S, E) ==
  LET round[n \in Nat] ==
        IF n = 0 THEN S ELSE UNION {{x} \cup Next1({x}, E) : x \in round[n - 1]}
  IN round[Cardinality(E)]
UseSet(id, E) == {x \in Behind(Next1({id}, E), E) : Next1({x}, E) = {}}
Cyclic(id, E) == \E x \in Behind({id}, E) : x \in Behind(Next1({x}, E), E)

(* map_allocation for several borrows; `current_allocation.unwrap()`        *)
(* panics when a borrow is inside a transaction and there is none.          *)
MapAllocation(borrows, writes) ==
  LET inside == borrows \cap DOMAIN terminator_to_tx
  IN IF inside # {} /\ CurrentAllocation = None
       THEN status' = "panic" /\ UNCHANGED allocation_set
       ELSE /\ allocation_set' = allocation_set \cup
                 {[tx |-> terminator_to_tx[x], shared_object |-> a, is_write |-> writes[x]] :
                    x \in inside, a \in CurrentAllocation}
            /\ status' = status

\* Mutant: no edge is made to a new use.
ForgetEdge ==
  /\ Tracing
  /\ \E new \in LeadsTo \ vertices :
       /\ vertices' = vertices \cup {new}
       /\ stack' = Append(Continued, Trace(Top.fn, new, FALSE))
  /\ UNCHANGED <<crate, edges, is_write, allocation_set, terminator_to_tx, status>>

(* A use that was not met before is traced in turn.                         *)
TraceNewUse ==
  /\ Tracing
  /\ \E new \in LeadsTo \ vertices :
       /\ edges' = edges \cup {<<Top.id, new>>}
       /\ vertices' = vertices \cup {new}
       /\ stack' = Append(Continued, Trace(Top.fn, new, FALSE))
  /\ UNCHANGED <<crate, is_write, allocation_set, terminator_to_tx, status>>

\* Mutant: a use met before is ignored.
IgnoreKnownUse ==
  /\ Tracing
  /\ \E new \in LeadsTo \cap vertices :
       /\ edges' = edges \cup {<<Top.id, new>>}
       /\ stack' = Continued
  /\ UNCHANGED <<crate, vertices, is_write, terminator_to_tx, allocation_set, status>>

(* A use met before: the borrows behind it are also borrows of the current  *)
(* allocation.  `edges.get(..).unwrap()` panics when nothing is behind it,  *)
(* `is_write.get(..).unwrap()` when a path ends in something else than a    *)
(* borrow, and a cycle overflows the stack.                                 *)
TraceKnownUse ==
  /\ Tracing
  /\ \E new \in LeadsTo \cap vertices :
       LET E == edges \cup {<<Top.id, new>>}
       IN /\ edges' = E
          /\ stack' = Continued
          /\ CASE Next1({new}, E) = {} -> status' = "panic" /\ UNCHANGED allocation_set
               [] Cyclic(new, E) -> status' = "overflow" /\ UNCHANGED allocation_set
               [] ~(UseSet(new, E) \subseteq DOMAIN is_write) ->
                    status' = "panic" /\ UNCHANGED allocation_set
               [] OTHER -> MapAllocation(UseSet(new, E), is_write)
  /\ UNCHANGED <<crate, vertices, is_write, terminator_to_tx>>

\* Mutant: the borrow does not become a vertex.
ForgetVertex ==
  /\ Tracing /\ Used.op \in {"read", "write"}
  /\ LET borrow_id == CallId(Top.fn, Use)
     IN /\ is_write' = Put(is_write, borrow_id, Used.op = "write")
        /\ MapAllocation({borrow_id}, is_write')
        /\ edges' = edges \cup {<<Top.id, borrow_id>>}
  /\ stack' = Continued
  /\ UNCHANGED <<crate, vertices, terminator_to_tx>>

(* borrow and borrow_mut.                                                   *)
TraceBorrow ==
  /\ Tracing /\ Used.op \in {"read", "write"}
  /\ LET borrow_id == CallId(Top.fn, Use)
     IN /\ is_write' = Put(is_write, borrow_id, Used.op = "write")
        /\ MapAllocation({borrow_id}, is_write')
        /\ edges' = edges \cup {<<Top.id, borrow_id>>}
        /\ vertices' = vertices \cup {borrow_id}
  /\ stack' = Continued
  /\ UNCHANGED <<crate, terminator_to_tx>>

(* A function or closure of this crate: a child visitor, entered for the    *)
(* argument, with a transaction map of its own.                             *)
TraceCall ==
  /\ Tracing
  /\ \E call \in Enters :
       /\ call[1] \in DOMAIN prog
       /\ LET id == CallId(Top.fn, Use)
              seed == IF id \in DOMAIN terminator_to_tx THEN {terminator_to_tx[id]} ELSE {}
          IN terminator_to_tx' = Over(terminator_to_tx, MapOf(call[1], seed))
       /\ stack' = Append(Continued, Visitor(call[1], {Top.id}, call[2], CurrentAllocation))
  /\ UNCHANGED <<crate, edges, vertices, is_write, allocation_set, status>>

(* A function of another crate: `return`.                                   *)
TraceNonLocalCall ==
  /\ Tracing
  /\ \E call \in Enters : call[1] \notin DOMAIN prog
  /\ stack' = Append(Front(stack), [Top EXCEPT !.todo = {}])
  /\ UNCHANGED <<crate, maps, status>>

\* The traced local is handed to a function that does not return.
Diverges == Used.op = "diverge" /\ PassedAs # {}

(* `local_from_dest(destination).unwrap()` panics: there is no destination. *)
TraceDiverging ==
  /\ Tracing /\ Diverges
  /\ status' = "panic"
  /\ stack' = Continued
  /\ UNCHANGED <<crate, maps>>

\* Mutant: a use of no interest is looked at again.
SameUse ==
  /\ Tracing /\ LeadsTo = {} /\ Enters = {} /\ ~Diverges /\ Used.op \notin {"read", "write"}
  /\ UNCHANGED use_vars

TraceNothing ==
  /\ Tracing /\ LeadsTo = {} /\ Enters = {} /\ ~Diverges /\ Used.op \notin {"read", "write"}
  /\ stack' = Continued
  /\ UNCHANGED <<crate, maps, status>>

\* Mutant: every activation of trace resets current_allocation.
ResetAlways ==
  /\ status = "running" /\ stack # <<>> /\ Top.kind = "trace" /\ Top.todo = {}
  /\ stack' = LET rest == Front(stack)
              IN [i \in DOMAIN rest |-> IF i = Self THEN [rest[i] EXCEPT !.allocation = None]
                                                    ELSE rest[i]]
  /\ UNCHANGED <<crate, maps, status>>

(* trace returns; visit_terminator then resets current_allocation.          *)
TraceReturns ==
  /\ status = "running" /\ stack # <<>> /\ Top.kind = "trace" /\ Top.todo = {}
  /\ stack' = IF Top.from_new
                THEN [Front(stack) EXCEPT ![Len(stack) - 1].allocation = None]
                ELSE Front(stack)
  /\ UNCHANGED <<crate, maps, status>>

UseStep ==
  \/ \E f \in DOMAIN prog : GetSharedObjects(f)
  \/ ExtendShared
  \/ VisitNew \/ VisitArg \/ VisitOther \/ VisitorReturns
  \/ TraceNewUse \/ TraceKnownUse \/ TraceBorrow \/ TraceCall \/ TraceNonLocalCall
  \/ TraceDiverging \/ TraceNothing \/ TraceReturns

AllShared == status = "idle" /\ todo = {}
Crashed == status \in {"panic", "overflow"}

UseEnded == (AllShared \/ Crashed) /\ UNCHANGED use_vars

UseNext == UseStep \/ UseEnded

UseSpec == UseInit /\ [][UseNext]_use_vars

-----------------------------------------------------------------------------
UseTypeOK ==
  /\ status \in {"idle", "running", "done", "panic", "overflow"}
  /\ todo \subseteq DOMAIN prog
  /\ (status \in {"idle", "done"}) => (stack = <<>>)
  /\ stack # <<>> => stack[1].kind = "visitor" /\ stack[1].fn \in root
  /\ DOMAIN is_write \subseteq vertices
  /\ {x[2] : x \in edges} \subseteq vertices
  /\ {u.shared_object : u \in allocation_set} \subseteq vertices

\* f may be entered for its argument arg.
Entered(f, arg) ==
  \E g \in DOMAIN prog : \E p \in DOMAIN prog[g] :
    /\ prog[g][p].op \in {"call", "spawn"} /\ prog[g][p].to = f
    /\ arg \in DOMAIN prog[g][p].src \cup {1}

\* A function allocates an object and then copies an argument: the allocation
\* the argument comes from has been forgotten by then.
ForgetsAllocation ==
  \E f \in DOMAIN prog : \E p, q \in DOMAIN prog[f] :
    /\ p < q /\ prog[f][p].op = "new" /\ prog[f][q].op \in Statements
    /\ \E arg \in Locals(prog[f][q]) : Entered(f, arg)

(* A visitor that traces knows the allocation it traces, unless a function  *)
(* forgets it: visit_terminator resets current_allocation of its own        *)
(* visitor only when it is done, and a child never comes back with that of  *)
(* its caller lost.                                                         *)
TracedAllocationIsKnown ==
  ~ForgetsAllocation =>
    \A i, j \in DOMAIN stack :
      /\ i < j
      /\ stack[i].kind = "visitor"
      /\ \A k \in (i + 1) .. j : stack[k].kind = "trace"
      => stack[i].allocation # None
=============================================================================
