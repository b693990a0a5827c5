---------------------------- MODULE UseDefReference ----------------------------
(***************************************************************************)
(* What UseDef should compute: the borrows that an execution of a function *)
(* makes inside transactions, and of which objects.  The body of a function is   *)
(* executed from its first to its last instruction; a value is the set of  *)
(* allocations it may be, and for a closure the values it has captured.    *)
(***************************************************************************)
EXTENDS UseDef

CONSTANT Supported  \* programs the analysis is meant to be exact for

Value(ptrs, fields) == [ptrs |-> ptrs, fields |-> fields]
Unknown == Value({}, <<>>)

\* Nothing is known of the arguments the execution starts with.
Operand(env, x) ==
  CASE x.local \notin DOMAIN env -> Unknown
    [] x.local \in DOMAIN env /\ x.field = 0 -> env[x.local]
    [] x.local \in DOMAIN env /\ x.field \in DOMAIN env[x.local].fields ->
         Value(env[x.local].fields[x.field], <<>>)
    [] OTHER -> Unknown

\* Execute(f, pos, env, outer, own): what f does from instruction pos on, called
\* inside the transaction outer, with its own transaction own entered.
RECURSIVE Execute(_, _, _, _, _)
Execute(f, pos, env, outer, own) ==
  IF pos > Len(prog[f]) THEN {}
  ELSE LET i == prog[f][pos]
           tx == IF own # {} THEN own ELSE outer
           Then(v) == Execute(f, pos + 1, Put(env, i.dst, v), outer, own)
       IN CASE i.op = "new" -> Then(Value({CallId(f, pos)}, <<>>))
            [] i.op \in {"assign", "copy", "wrap"} -> Then(Operand(env, i.src[1]))
            [] i.op = "closure" ->
                 Then(Value({}, [k \in DOMAIN i.src |-> Operand(env, i.src[k]).ptrs]))
            [] i.op \in {"read", "write"} ->
                 Then(Unknown) \cup
                 {[tx |-> t, shared_object |-> o, is_write |-> i.op = "write"] :
                    t \in tx, o \in Operand(env, i.src[1]).ptrs}
            [] i.op = "call" ->
                 Then(Unknown) \cup
                 (IF i.to \in DOMAIN prog
                    THEN Execute(i.to, 1, [k \in DOMAIN i.src |-> Operand(env, i.src[k])], tx, {})
                    ELSE {})
            \* a closure handed to a library function runs in a thread of its own
            [] i.op = "spawn" ->
                 Then(Unknown) \cup
                 Execute(i.to, 1, <<Operand(env, i.src[1])>>, {}, {})
            [] i.op = "diverge" -> {}
            [] i.op = "lock" -> Execute(f, pos + 1, env, outer, {<<f, pos>>})
            [] i.op = "unlock" -> Execute(f, pos + 1, env, outer, {})

\* f executed on its own.
Executed(f) == Execute(f, 1, <<>>, {}, {})

\* What the answers for all functions say together.
Reported ==
  UNION {{[tx |-> s.site, shared_object |-> u.shared_object, is_write |-> u.is_write] :
            u \in s.allocations} : s \in ToSet(allocation_sets)}

-----------------------------------------------------------------------------
(* "Find all uses of TxCells/TxPtrs and associate them with a set of unique *)
(* TxCell/TxPtr allocations": no borrow an execution makes inside a         *)
(* transaction is missing from what is reported for that transaction,       *)
(* whichever function the object was allocated in.                          *)
AllUsesFound ==
  AllShared /\ prog \in Supported => \A f \in DOMAIN prog : Executed(f) \subseteq Reported

(* Nothing is attributed to a transaction but what an execution does in it: *)
(* conflict sets are not larger than the program makes them.                *)
OnlyRealUses ==
  status = "done" /\ prog \in Supported =>
    \A f \in root : allocation_set \subseteq Executed(f)

\* The borrows of an execution, wherever they are.
Borrows(f) == {<<u.shared_object, u.is_write>> : u \in Execute(f, 1, <<>>, {<<"anywhere", 0>>}, {})}

(* Whatever the crate, a transaction is only given objects that executions  *)
(* do borrow, in the mode in which they borrow them.                        *)
OnlyRealBorrows ==
  status = "done" =>
    \A u \in allocation_set, f \in root : <<u.shared_object, u.is_write>> \in Borrows(f)

\* Where a local, or a field of it, goes by the text of the crate, x being
\* <<function, local, field>>.  A callee is of interest if it does something
\* with its argument.
Flow(x) ==
  UNION {LET i == prog[x[1]][p]
             next == <<x[1], i.dst, 0>>
             passed == {k \in DOMAIN i.src : i.src[k] = [local |-> x[2], field |-> 0]}
         IN CASE i.op = "assign" /\ x[3] \in {0, i.src[1].field} -> {next}
              [] i.op = "copy" /\ x[3] = 0 -> {next}
              [] i.op = "wrap" -> {next}
              [] i.op = "closure" ->
                   {<<x[1], i.dst, k>> :
                      k \in {j \in DOMAIN i.src : i.src[j].local = x[2] /\ i.src[j].field \in {0, x[3]}}}
              [] i.op \in {"call", "spawn"} /\ i.to \in DOMAIN prog ->
                   {y \in {<<i.to, IF x[3] # 0 THEN 1 ELSE k, x[3]>> : k \in passed} :
                      \E q \in UsesOf(y[1], y[2]) : prog[y[1]][q].op \in Statements}
              [] OTHER -> {} : p \in UsesOf(x[1], x[2])}

RECURSIVE FlowsTo(_)
FlowsTo(S) == LET T == S \cup UNION {Flow(x) : x \in S} IN IF T = S THEN S ELSE FlowsTo(T)

Pointers == FlowsTo(UNION {{<<f, prog[f][p].dst, 0>> : p \in {q \in DOMAIN prog[f] : prog[f][q].op = "new"}} :
                             f \in DOMAIN prog})

UsedBy(x, ops) == \E p \in UsesOf(x[1], x[2]) : prog[x[1]][p].op \in ops

\* A pointer that is moved in a circle, or handed on by a recursive function.
PointerGoesRound == \E x \in Pointers : x \in FlowsTo(Flow(x))

\* A copy of a pointer that is never borrowed.
PointerIsIdle == \E x \in Pointers : \A y \in FlowsTo({x}) : ~UsedBy(y, {"read", "write"})

\* A pointer is handed to a function that does not return.
PointerIsLost == \E x \in Pointers : UsedBy(x, {"diverge"})

(* No unwrap of the analysis meets a None and no recursion runs away on the *)
(* crates it is meant for, and on other crates only for a reason: use_set   *)
(* overflows the stack where a pointer goes round; the unwraps of trace,    *)
(* use_set, map_allocation and location_to_use_kind fail where a copy of a  *)
(* pointer is never borrowed, a function forgets the allocation, or a       *)
(* pointer is handed to a function that does not return.                    *)
CrashesExplained ==
  /\ Crashed => prog \notin Supported
  /\ status = "overflow" => PointerGoesRound
  /\ status = "panic" => PointerIsIdle \/ ForgetsAllocation \/ PointerIsLost
=============================================================================
