------------------------------- MODULE Lowering -------------------------------
(***************************************************************************)
(* How a body with `transaction` blocks becomes a control-flow graph: AST  *)
(* lowering (librustc/hir/lowering.rs and lowering/expr.rs) and MIR        *)
(* construction (librustc_mir/build).                                      *)
(*                                                                         *)
(* A statement is a tuple whose first component names it:                  *)
(*   <<"call">>  <<"if", then, else>>  <<"while", body>>  <<"loop", body>> *)
(*   <<"break">>  <<"return">>  <<"transaction", body>>                    *)
(* with bodies that are sequences of statements.  The result is a body as  *)
(* TransactionMap takes it.  The graph is built from its end: Lower(stmts, *)
(* k, out, g) is g extended by blocks that execute stmts and continue at   *)
(* block k, `out` being where `break` goes; block 1 returns.  Blocks that  *)
(* only go to another one are merged with it (SimplifyCfg).                *)
(***************************************************************************)
EXTENDS Naturals, Sequences

Block(kind, succ) == [kind |-> kind, succ |-> succ]
Extended(g, kind, succ) == [entry |-> Len(g) + 1, g |-> Append(g, Block(kind, succ))]

RECURSIVE Lower(_, _, _, _)

(* lower_expr_if makes a match on true.  Its switch has the else arm as the *)
(* first target (TerminatorKind::if_), and the then arm a false edge to the *)
(* else arm.                                                                *)
LowerIf(then, else, k, out, g) ==
  LET e == Lower(else, k, out, g)
      t == Lower(then, k, out, e.g)
      arm == Extended(t.g, "other", IF t.entry = e.entry THEN <<e.entry>> ELSE <<t.entry, e.entry>>)
  IN Extended(arm.g, "other", <<e.entry, arm.entry>>)

LowerLoop(body, k, g) ==
  LET head == Extended(g, "other", <<>>)
      b == Lower(body, head.entry, k, head.g)
  IN [entry |-> head.entry, g |-> [b.g EXCEPT ![head.entry].succ = <<b.entry>>]]

\* `while c body` is `loop { match c { true => body, _ => break } }`.
LowerWhile(body, k, g) == LowerLoop(<<<<"if", body, <<<<"break">>>>>>>>, k, g)

(* A lock call, the block, an unlock call, as three statements: what leaves *)
(* the block by break or return passes the unlock call by.                  *)
LowerTransactionBlock(body, k, out, g) ==
  LET unlock == Extended(g, "unlock", <<k>>)
      b == Lower(body, unlock.entry, out, unlock.g)
  IN Extended(b.g, "lock", <<b.entry>>)

LowerOne(s, k, out, g) ==
  CASE s[1] = "call" -> Extended(g, "call", <<k>>)
    [] s[1] = "return" -> [entry |-> 1, g |-> g]
    [] s[1] = "break" -> [entry |-> out, g |-> g]
    [] s[1] = "if" -> LowerIf(s[2], s[3], k, out, g)
    [] s[1] = "while" -> LowerWhile(s[2], k, g)
    [] s[1] = "loop" -> LowerLoop(s[2], k, g)
    [] s[1] = "transaction" -> LowerTransactionBlock(s[2], k, out, g)

Lower(stmts, k, out, g) ==
  IF stmts = <<>> THEN [entry |-> k, g |-> g]
  ELSE LET rest == Lower(Tail(stmts), k, out, g)
       IN LowerOne(Head(stmts), rest.entry, out, rest.g)

BodyFor(stmts) ==
  LET low == Lower(stmts, 1, 1, <<Block("other", <<>>)>>)
  IN [start |-> low.entry,
      term |-> [b \in DOMAIN low.g |-> low.g[b].kind],
      succ |-> [b \in DOMAIN low.g |-> low.g[b].succ]]
=============================================================================
