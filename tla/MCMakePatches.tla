---------------------------- MODULE MCMakePatches ----------------------------
(* Small crates for MakePatches: four transaction blocks, two of them in    *)
(* one function, one in a closure and one in a method.                      *)
EXTENDS MakePatches, TLC

CONSTANTS
  a, b, c, m,       \* transaction blocks
  main, cl, method, \* a function, a closure in it and a method
  o1, o2, o3        \* shared objects

MCBodyOf == (a :> main) @@ (b :> main) @@ (c :> cl) @@ (m :> method)

Reads(o) == [shared_object |-> o, is_write |-> FALSE]
Writes(o) == [shared_object |-> o, is_write |-> TRUE]
Set(site, uses) == [site |-> site, allocations |-> uses]

SomeUses == {{Reads(o1)}, {Writes(o2)}, {Reads(o1), Writes(o2)}, {Writes(o3)}}

\* Every block is reported by one function only, or twice with the same uses.
OneReport == {<<Set(a, ua), Set(b, ub), Set(c, uc), Set(b, ub)>> :
                ua, ub, uc \in SomeUses}

\* A function that allocates o1 reports block a as a reader; its caller, which
\* also allocates o2, reports it as a writer.
ReaderAndWriter == {<<Set(a, {Reads(o1)}), Set(a, {Reads(o1), Writes(o2)})>>}

\* A method and a function use one object.
MethodShares == {<<Set(a, {Writes(o1)}), Set(m, {Writes(o1)})>>}

\* A crate without shared objects, and one block reported in two modes with an
\* object in a conflict set of its own between.
AnyCrate == OneReport \cup ReaderAndWriter \cup
  {<<>>, <<Set(a, {Reads(o1)}), Set(b, {Reads(o3)}), Set(a, {Writes(o2)})>>}

\* Everything a runtime library may define; without the functions of level 2, as a
\* library for level 1; one of the four missing; none of them.
EveryItem == {LangItems}
SomeItems == {LangItems, {"transaction_lock", "transaction_unlock"},
              LangItems \ {"transaction_read_unlock"}, {}}
=============================================================================
