------------------------- MODULE MCTransactionRuntime -------------------------
(* Small crates for TransactionRuntime: the blocks of a function and of a   *)
(* closure.                                                                 *)
EXTENDS TransactionRuntime, TLC

CONSTANTS
  a, b, c, d,\* transaction blocks
  main, cl,  \* a function and a closure in it
  o1, o2     \* shared objects

MCBodyOf == [s \in Sites |-> IF s \in {a, d} THEN main ELSE cl]

Reads(o) == [shared_object |-> o, is_write |-> FALSE]
Writes(o) == [shared_object |-> o, is_write |-> TRUE]
Set(site, uses) == [site |-> site, allocations |-> uses]

\* One object, two readers and a writer.
ReadersAndWriter == <<Set(a, {Writes(o1)}), Set(b, {Reads(o1)}), Set(c, {Reads(o1)})>>

\* A block that reads one object and writes another.
Mixed == <<Set(a, {Reads(o1), Writes(o2)}), Set(b, {Writes(o1)}), Set(c, {Reads(o2)})>>

\* Two conflict sets.
TwoSets == <<Set(a, {Writes(o1)}), Set(b, {Reads(o2)}), Set(c, {Writes(o2)})>>

MCCrates == {ReadersAndWriter, Mixed, TwoSets}

\* Block a executes b and block c executes d.  Two locks in the same order, two
\* locks in opposite orders, and a lock inside itself.
MCNested == {<<a, b>>, <<c, d>>}
SameOrder == <<Set(a, {Writes(o1)}), Set(b, {Reads(o2)}), Set(c, {Reads(o1)}), Set(d, {Writes(o2)})>>
OppositeOrders == <<Set(a, {Writes(o1)}), Set(b, {Writes(o2)}), Set(c, {Reads(o2)}), Set(d, {Reads(o1)})>>
InsideItself == <<Set(a, {Reads(o1)}), Set(b, {Reads(o1)}), Set(c, {Reads(o2)}), Set(d, {Writes(o1)})>>

NestedCrates == {SameOrder, OppositeOrders, InsideItself}

\* The library defines all the lock functions.
EveryItem == {LangItems}
=============================================================================
