------------------------------- MODULE MCQueries -------------------------------
(* Small crates for Queries: main (1) with a closure (2), and other bodies. *)
EXTENDS Queries, TLC

\* A crate of bodies 1 .. Len(kinds) given by the entries that are not empty.
Crate(kinds, const_fn, lengths, mentions, calls, traces, txs, inlining) ==
  LET D == DOMAIN kinds
      Total(f) == [d \in D |-> IF d \in DOMAIN f THEN f[d] ELSE {}]
  IN [kind |-> kinds, const_fn |-> const_fn,
      owner |-> [d \in D |-> IF kinds[d] = "closure" THEN 1 ELSE d],
      lengths |-> Total(lengths), built |-> [d \in D |-> {}], mentions |-> Total(mentions), calls |-> Total(calls),
      traces |-> Total(traces), txs |-> txs, inlining |-> inlining]

\* A function with a closure and a method, that call each other and share an
\* object; main mentions a constant.
Ordinary ==
  {Crate(<<"fn", "closure", "method", "const">>, {}, <<>>, 1 :> {4},
         (1 :> {3}) @@ (3 :> {1}), 1 :> {2, 3}, {1, 2}, inlining) : inlining \in BOOLEAN}

\* A constant that calls a const fn and mentions another one; a tuple struct.
Constants ==
  {Crate(<<"fn", "const", "fn", "const", "ctor">>, {3}, <<>>, (1 :> {2}) @@ (2 :> {4}),
         2 :> {3}, <<>>, {1}, FALSE)}

\* A const fn whose types depend on another const fn.
ConstFnNeedsConstFn ==
  {Crate(<<"fn", "fn", "const", "fn">>, {2, 4}, 2 :> {3}, <<>>, 3 :> {4}, <<>>, {1}, FALSE)}

\* The same, and a shared object passed to it.
ConstFnTraced ==
  {Crate(<<"fn", "fn", "const", "fn">>, {2, 4}, 2 :> {3}, <<>>, 3 :> {4}, 1 :> {2}, {1}, FALSE)}

\* main has an array whose length a const fn computes.
LengthFromConstFn ==
  {Crate(<<"fn", "const", "fn">>, {3}, 1 :> {2}, <<>>, 2 :> {3}, <<>>, {}, FALSE)}

\* The length is computed by a const method, for which no patches are made.
LengthFromConstMethod ==
  {Crate(<<"fn", "const", "method">>, {3}, 1 :> {2}, <<>>, 2 :> {3}, <<>>, {1}, FALSE)}

\* The same, with an array in that method whose length a const fn computes.
ConstMethodNeedsConstFn ==
  {Crate(<<"fn", "const", "method", "const", "fn">>, {3, 5}, (1 :> {2}) @@ (3 :> {4}), <<>>,
         (2 :> {3}) @@ (4 :> {5}), <<>>, {1}, FALSE)}

\* The crate whose body d has constants cs in patterns.
Matching(k, d, cs) == [k EXCEPT !.built[d] = cs]

\* main matches on a constant that a const fn computes, or its closure does.
PatternFromConstFn ==
  LET k == Crate(<<"fn", "closure", "const", "fn">>, {4}, <<>>, <<>>, 3 :> {4}, <<>>, {}, FALSE)
  IN {Matching(k, 1, {3}), Matching(k, 2, {3})}

\* A pattern with a constant that mentions another one, and a const method.
PatternFromConstants ==
  {Matching(Crate(<<"fn", "const", "const", "method">>, {4}, <<>>, 2 :> {3}, 3 :> {4}, <<>>, {1}, FALSE),
            1, {2})}

\* A const fn, with and without a shared object passed to it, that repeats a value
\* as often as another const fn says.
ConstFnBuiltWithConstFn ==
  {Matching(Crate(<<"fn", "fn", "const", "fn">>, {2, 4}, <<>>, <<>>, 3 :> {4}, traces, {1}, FALSE),
            2, {3}) : traces \in {<<>>, 1 :> {2}}}

\* Two constants that mention each other.
MutualConstants ==
  {Crate(<<"fn", "const", "const">>, {}, <<>>, (2 :> {3}) @@ (3 :> {2}), <<>>, <<>>, {1}, FALSE)}

\* A shared object passed to a required method of a trait.
RequiredMethod ==
  {Crate(<<"fn", "closure", "bodyless">>, {}, <<>>, <<>>, <<>>, 1 :> {3}, {1}, FALSE)}

\* The same without a function or a closure: nobody asks for the conflict sets.
MethodsOnly ==
  {Crate(<<"method", "method", "bodyless">>, {}, <<>>, <<>>, <<>>, 1 :> {3}, {1}, FALSE)}

AnyCrate == Ordinary \cup Constants \cup ConstFnNeedsConstFn \cup ConstFnTraced
            \cup LengthFromConstFn \cup LengthFromConstMethod \cup RequiredMethod
            \cup PatternFromConstFn \cup PatternFromConstants \cup ConstFnBuiltWithConstFn
            \cup MethodsOnly \cup ConstMethodNeedsConstFn \cup MutualConstants
=============================================================================
