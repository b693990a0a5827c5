--------------------------- MODULE QueryCycleProofs ---------------------------
(***************************************************************************)
(* A proof that no query meets itself in a crate whose constants do not    *)
(* involve themselves and whose types and patterns need no const fn that   *)
(* is patched.                                                             *)
(*                                                                         *)
(* The queries of such a crate are ordered, and a provider asks for lower  *)
(* ones only.  The queries of the analysis, and all that is asked for on   *)
(* their behalf (Early), are below conflict_analysis; the other queries    *)
(* about bodies are above it.  On either side a query about a body is      *)
(* above those about bodies that involve less, above earlier stages of the *)
(* same body, and optimized_mir above that of a body with a higher node id.*)
(* The stack of running providers goes down in this order, so what the     *)
(* innermost one asks for is not on it.                                    *)
(***************************************************************************)
EXTENDS QueriesProofs

\* What takes part in compiling d, apart from d, and with d.
Takes(d) == Reachable(Involved[d], Involved)
Cone(d) == {d} \cup Takes(d)

\* What is evaluated to build the MIR of the bodies that are analysed.
Evaluated ==
  {f \in DefIds : \E d \in Analysed \cap MirKeys :
                    f \in Reachable(BuiltWith(d), Needed)}
EarlyBodies == Analysed \cup Evaluated

\* What is asked for on behalf of the analysis.
Early ==
  Q("typeck_tables_of", {krate.owner[d] : d \in EarlyBodies})
    \cup Q("mir_built", EarlyBodies) \cup Q("unsafety_check_result", EarlyBodies)
    \cup Q("mir_const", EarlyBodies) \cup Q("mir_const_qualif", EarlyBodies)
    \cup Q("mir_validated", EarlyBodies) \cup Q("mir_borrowck", EarlyBodies)
    \cup Q("promoted_mir", Evaluated) \cup Q("optimized_mir", Evaluated)
    \cup Q("const_eval", Evaluated)

Layer(q) ==
  CASE q[1] = "driver" -> 4
    [] q[1] = "conflict_analysis" -> 2
    [] q[1] = "get_shared_objects" -> 1
    [] OTHER -> IF q \in Early THEN 0 ELSE 3

Stage(q) ==
  CASE q[1] = "typeck_tables_of" -> 1
    [] q[1] = "mir_built" -> 2
    [] q[1] = "unsafety_check_result" -> IF Kind(q[2]) = "closure" THEN 3 ELSE 4
    [] q[1] = "mir_const" -> 5
    [] q[1] = "mir_const_qualif" -> 6
    [] q[1] = "mir_validated" -> 7
    [] q[1] = "mir_borrowck" -> IF Kind(q[2]) = "closure" THEN 8 ELSE 9
    [] q[1] = "promoted_mir" -> 10
    [] q[1] = "optimized_mir" -> 11
    [] q[1] = "const_eval" -> 12

\* The order of the queries about bodies in one layer, and of all queries.
Inner(x, y) ==
  /\ Cone(y[2]) \subseteq Cone(x[2])
  /\ \/ Cone(y[2]) # Cone(x[2])
     \/ Stage(y) < Stage(x)
     \/ Stage(y) = Stage(x) /\ x[2] < y[2]
Above(x, y) ==
  \/ Layer(y) < Layer(x)
  \/ Layer(y) = Layer(x) /\ Layer(x) \in {0, 3} /\ Inner(x, y)

BodyNames == {"typeck_tables_of", "mir_built", "unsafety_check_result", "mir_const",
              "mir_const_qualif", "mir_validated", "mir_borrowck", "promoted_mir",
              "optimized_mir", "const_eval"}
BodyQuery == {q \in Query : q[1] \in BodyNames}

-----------------------------------------------------------------------------
(* The order.                                                               *)

\* What is involved is a body, and all that it involves is involved.
LEMMA ConeFacts ==
  ASSUME krate \in Crates, NEW d \in DefIds
  PROVE  /\ Involved[d] \subseteq Takes(d) /\ Takes(d) \subseteq DefIds
         /\ \A e \in Takes(d) : Takes(e) \subseteq Takes(d)
         /\ \A e \in Cone(d) : e \in DefIds /\ Cone(e) \subseteq Cone(d)
<1>1. \A e \in DefIds : Involved[e] \subseteq DefIds
  BY CrateFacts DEF Involved, Needed, BuiltWith, ClosuresOf, MirKeys
<1>2. \A e \in DefIds :
        /\ Involved[e] \subseteq Takes(e) /\ Takes(e) \subseteq DefIds
        /\ \A f \in Takes(e) : Involved[f] \subseteq Takes(e)
        /\ \A S \in SUBSET DefIds : Involved[e] \subseteq S /\ (\A f \in S : Involved[f] \subseteq S)
             => Takes(e) \subseteq S
  <2> TAKE e \in DefIds
  <2> DEFINE I == Involved
  <2> HIDE DEF I
  <2>1. I[e] \subseteq DefIds /\ \A f \in DefIds : I[f] \subseteq DefIds
    BY <1>1 DEF I
  <2> QED BY <2>1, ReachableFacts DEF I, Takes
<1>3. \A e \in Takes(d) : Takes(e) \subseteq Takes(d)
  BY <1>2
<1> QED BY <1>2, <1>3 DEF Cone

\* A constant that is involved involves less.
LEMMA ConstantsBelow ==
  ASSUME krate \in Crates, ~ConstantInvolvesItself, NEW d \in DefIds,
         NEW c \in Takes(d), Kind(c) = "const"
  PROVE  Cone(c) \subseteq Cone(d) /\ Cone(c) # Cone(d)
<1>1. c \in DefIds /\ Cone(c) \subseteq Cone(d) /\ d \in Cone(d)
  BY ConeFacts DEF Cone
<1>2. c \notin Takes(c)
  BY <1>1 DEF ConstantInvolvesItself, Takes
<1>3. ASSUME d \in Cone(c) PROVE FALSE
  <2>1. d = c \/ d \in Takes(c)
    BY <1>3 DEF Cone
  <2>2. d \in Takes(c) => Takes(d) \subseteq Takes(c)
    BY <1>1, ConeFacts
  <2> QED BY <1>2, <2>1, <2>2
<1> QED BY <1>1, <1>3

\* The queries about bodies, and their stages.
LEMMA BodyQueryFacts ==
  ASSUME krate \in Crates, NEW q \in BodyQuery
  PROVE  q[2] \in DefIds /\ q[2] \in Nat /\ Stage(q) \in Nat
<1>1. q[2] \in DefIds
  BY CrateFacts DEF BodyQuery, BodyNames, Query, Q, MirKeys, Roots, Owners
<1>2. DefIds \subseteq Nat
  BY CratesAssumption DEF DefIds
<1>3. q[1] \in BodyNames
  BY DEF BodyQuery
<1>4. Stage(q) \in Nat
  BY <1>3 DEF BodyNames, Stage
<1> QED BY <1>1, <1>2, <1>4

\* The layers, by the name of the query.
LEMMA LayerFacts ==
  ASSUME NEW q \in Query
  PROVE  /\ Layer(q) \in {0, 1, 2, 3, 4}
         /\ q[1] = "driver" <=> Layer(q) = 4
         /\ q[1] = "conflict_analysis" <=> Layer(q) = 2
         /\ q[1] = "get_shared_objects" <=> Layer(q) = 1
         /\ q \in BodyQuery <=> Layer(q) \in {0, 3}
         /\ q \in BodyQuery => Layer(q) = (IF q \in Early THEN 0 ELSE 3)
<1>1. q[1] \in {"driver", "conflict_analysis", "get_shared_objects"} \cup BodyNames
  BY DEF Query, Q, BodyNames
<1>2. CASE q[1] \in BodyNames
  <2>1. q \in BodyQuery /\ q[1] \notin {"driver", "conflict_analysis", "get_shared_objects"}
    BY <1>2 DEF BodyQuery, BodyNames
  <2>2. Layer(q) = IF q \in Early THEN 0 ELSE 3
    BY <2>1 DEF Layer
  <2> QED BY <2>1, <2>2
<1>3. CASE q[1] \in {"driver", "conflict_analysis", "get_shared_objects"}
  <2>1. q \notin BodyQuery
    BY <1>3 DEF BodyQuery, BodyNames
  <2> QED BY <1>3, <2>1 DEF Layer
<1> QED BY <1>1, <1>2, <1>3

\* It is an order.
LEMMA AboveOrder ==
  ASSUME krate \in Crates
  PROVE  /\ \A x \in Query : ~Above(x, x)
         /\ \A x, y, z \in Query : Above(x, y) /\ Above(y, z) => Above(x, z)
<1>1. ASSUME NEW x \in Query, Above(x, x) PROVE FALSE
  <2>1. x \in BodyQuery /\ Inner(x, x)
    BY <1>1, LayerFacts DEF Above
  <2> QED BY <2>1, BodyQueryFacts DEF Inner
<1>2. ASSUME NEW x \in Query, NEW y \in Query, NEW z \in Query, Above(x, y), Above(y, z)
      PROVE  Above(x, z)
  <2>1. Layer(x) \in Nat /\ Layer(y) \in Nat /\ Layer(z) \in Nat
    BY LayerFacts
  <2>2. CASE Layer(y) < Layer(x) \/ Layer(z) < Layer(y)
    BY <1>2, <2>1, <2>2 DEF Above
  <2>3. CASE ~(Layer(y) < Layer(x) \/ Layer(z) < Layer(y))
    <3>1. /\ Layer(x) = Layer(y) /\ Layer(y) = Layer(z) /\ Layer(x) \in {0, 3}
          /\ Inner(x, y) /\ Inner(y, z)
      BY <1>2, <2>3 DEF Above
    <3>2. x \in BodyQuery /\ y \in BodyQuery /\ z \in BodyQuery
      BY <3>1, LayerFacts
    <3>3. /\ x[2] \in Nat /\ y[2] \in Nat /\ z[2] \in Nat
          /\ Stage(x) \in Nat /\ Stage(y) \in Nat /\ Stage(z) \in Nat
      BY <3>2, BodyQueryFacts
    <3>4. Cone(z[2]) \subseteq Cone(x[2])
      BY <3>1 DEF Inner
    <3>5. ASSUME Cone(z[2]) = Cone(x[2]) PROVE Cone(y[2]) = Cone(x[2]) /\ Cone(z[2]) = Cone(y[2])
      BY <3>1, <3>5 DEF Inner
    <3>6. Inner(x, z)
      BY <3>1, <3>3, <3>4, <3>5 DEF Inner
    <3> QED BY <3>1, <3>6 DEF Above
  <2> QED BY <2>2, <2>3
<1> QED BY <1>1, <1>2

-----------------------------------------------------------------------------
(* The queries of the analysis.                                             *)

\* The constants a body mentions and its closures are analysed.
LEMMA RootFacts ==
  ASSUME krate \in Crates, NEW d \in DefIds
  PROVE  krate.mentions[d] \subseteq Analysed /\ ClosuresOf(d) \subseteq Analysed
<1>1. \A c \in DefIds : Kind(c) \in {"const", "closure"} => c \in Roots
  BY CratesAssumption DEF Roots, MirKeys, IsConstFn, Kind, DefIds
<1>2. krate.mentions[d] \subseteq Roots /\ ClosuresOf(d) \subseteq Roots
  BY <1>1, CrateFacts DEF ClosuresOf
<1> QED BY <1>2, AnalysedFacts

\* What is evaluated is closed, and holds the lengths of arrays in the bodies of
\* the analysis and the constants of their patterns.
LEMMA EvaluatedFacts ==
  ASSUME krate \in Crates
  PROVE  /\ Evaluated \subseteq DefIds /\ EarlyBodies \subseteq DefIds
         /\ \A d \in Evaluated : Needed[d] \subseteq Evaluated
         /\ \A d \in EarlyBodies : krate.lengths[krate.owner[d]] \cup krate.built[d] \subseteq Evaluated
         /\ ~MirNeedsConstFn => \A d \in Evaluated : Kind(d) \notin {"fn", "closure"}
<1> DEFINE L(d) == BuiltWith(d)
           N == Needed
<1>1. \A d \in DefIds : L(d) \subseteq DefIds /\ L(d) \subseteq N[d]
  BY CrateFacts DEF Needed, BuiltWith
<1>2. \A d \in DefIds : N[d] \subseteq DefIds
  BY <1>1, CrateFacts DEF Needed, MirKeys
<1>3. \A d \in DefIds : L(d) \subseteq Reachable(L(d), N)
                        /\ \A e \in Reachable(L(d), N) : N[e] \subseteq Reachable(L(d), N)
  <2> HIDE DEF N
  <2> TAKE d \in DefIds
  <2>1. L(d) \subseteq DefIds
    BY <1>1
  <2> HIDE DEF L
  <2> QED BY <1>2, <2>1, ReachableFacts
<1>4. Evaluated \subseteq DefIds /\ Analysed \subseteq DefIds
  BY AnalysedFacts DEF Evaluated
<1>5. \A d \in Evaluated : N[d] \subseteq Evaluated
  BY <1>2, <1>3, <1>4 DEF Evaluated
<1>6. ASSUME NEW d \in EarlyBodies PROVE L(d) \subseteq Evaluated
  <2>1. CASE d \in Evaluated
    BY <1>1, <1>4, <1>5, <2>1
  <2>2. CASE d \in Analysed /\ d \in MirKeys
    BY <1>1, <1>3, <1>4, <2>2 DEF Evaluated
  <2>3. CASE d \in Analysed /\ d \notin MirKeys
    <3>1. d \in DefIds /\ Kind(d) = "bodyless"
      BY <1>4, <2>3 DEF MirKeys
    <3>2. krate.owner[d] = d /\ krate.lengths[d] = {} /\ krate.built[d] = {}
      BY <3>1, CratesAssumption DEF DefIds, Kind
    <3> QED BY <3>2 DEF BuiltWith
  <2> QED BY <2>1, <2>2, <2>3 DEF EarlyBodies
<1>7. ASSUME ~MirNeedsConstFn, NEW d \in Evaluated PROVE Kind(d) \notin {"fn", "closure"}
  BY <1>7 DEF Evaluated, MirNeedsConstFn, NeedsConstFn
<1> QED BY <1>4, <1>5, <1>6, <1>7 DEF EarlyBodies, BuiltWith

\* Which queries about d are asked for on behalf of the analysis.
LEMMA EarlyFacts ==
  ASSUME NEW d
  PROVE  /\ <<"typeck_tables_of", d>> \in Early <=> \E e \in EarlyBodies : d = krate.owner[e]
         /\ <<"mir_built", d>> \in Early <=> d \in EarlyBodies
         /\ <<"unsafety_check_result", d>> \in Early <=> d \in EarlyBodies
         /\ <<"mir_const", d>> \in Early <=> d \in EarlyBodies
         /\ <<"mir_const_qualif", d>> \in Early <=> d \in EarlyBodies
         /\ <<"mir_validated", d>> \in Early <=> d \in EarlyBodies
         /\ <<"mir_borrowck", d>> \in Early <=> d \in EarlyBodies
         /\ <<"promoted_mir", d>> \in Early <=> d \in Evaluated
         /\ <<"optimized_mir", d>> \in Early <=> d \in Evaluated
         /\ <<"const_eval", d>> \in Early <=> d \in Evaluated
BY DEF Early, Q

-----------------------------------------------------------------------------
(* Providers ask for lower queries only.                                    *)

\* A query about a body in the cone of d, at an earlier stage; or about a
\* constant that d involves.
LEMMA InnerIf ==
  ASSUME krate \in Crates, ~ConstantInvolvesItself, NEW d \in DefIds, NEW n, NEW m, NEW e
  PROVE  /\ e \in Cone(d) /\ Stage(<<m, e>>) < Stage(<<n, d>>) => Inner(<<n, d>>, <<m, e>>)
         /\ e \in Takes(d) /\ Kind(e) = "const" => Inner(<<n, d>>, <<m, e>>)
<1>1. ASSUME e \in Cone(d), Stage(<<m, e>>) < Stage(<<n, d>>) PROVE Inner(<<n, d>>, <<m, e>>)
  BY <1>1, ConeFacts DEF Inner
<1>2. ASSUME e \in Takes(d), Kind(e) = "const" PROVE Inner(<<n, d>>, <<m, e>>)
  BY <1>2, ConstantsBelow DEF Inner
<1> QED BY <1>1, <1>2

\* A query about a body stays on its side of conflict_analysis.
LEMMA InnerAbove ==
  ASSUME NEW x \in BodyQuery, NEW y \in BodyQuery, Inner(x, y), x \in Early => y \in Early
  PROVE  Above(x, y)
<1>1. x \in Query /\ y \in Query
  BY DEF BodyQuery
<1>2. Layer(x) = (IF x \in Early THEN 0 ELSE 3) /\ Layer(y) = (IF y \in Early THEN 0 ELSE 3)
  BY <1>1, LayerFacts
<1> QED BY <1>2 DEF Above

\* Where what d needs is in the order.
LEMMA InvolvedFacts ==
  ASSUME krate \in Crates, NEW d \in DefIds
  PROVE  /\ d \in Cone(d) /\ krate.owner[d] \in Cone(d)
         /\ krate.lengths[krate.owner[d]] \subseteq Takes(d) /\ krate.built[d] \subseteq Takes(d)
         /\ krate.mentions[d] \subseteq Takes(d) /\ krate.calls[d] \subseteq Takes(d)
         /\ ClosuresOf(d) \subseteq Takes(d)
<1>1. Involved[d] = krate.lengths[krate.owner[d]] \cup krate.built[d] \cup krate.mentions[d]
                      \cup krate.calls[d] \cup ClosuresOf(d) \cup ({krate.owner[d]} \ {d})
  BY DEF Involved, Needed, BuiltWith
<1> QED BY <1>1, ConeFacts DEF Cone

\* The stages of type checking, building and checking MIR, up to borrowck and
\* promoted_mir.
LEMMA StagesGoDown ==
  ASSUME krate \in Crates, ~ConstantInvolvesItself, NEW d \in DefIds,
         NEW n \in {"typeck_tables_of", "mir_built", "unsafety_check_result", "mir_const",
                    "mir_const_qualif", "mir_validated", "mir_borrowck", "promoted_mir"},
         <<n, d>> \in Query, NEW x \in Dependencies[<<n, d>>]
  PROVE  /\ x \in BodyQuery /\ Inner(<<n, d>>, x)
         /\ <<n, d>> \in Early => x \in Early
<1> DEFINE q == <<n, d>>
<1>1. x \in Query /\ Asks(q, x)
  BY DEF Dependencies
<1>2. \A m \in BodyNames : \A e : x = <<m, e>> => x \in BodyQuery
  BY <1>1 DEF BodyQuery
<1>3. /\ d \in Cone(d) /\ krate.owner[d] \in Cone(d) /\ Takes(d) \subseteq Cone(d)
      /\ krate.mentions[d] \subseteq Takes(d) /\ ClosuresOf(d) \subseteq Takes(d)
      /\ \A c \in krate.mentions[d] : Kind(c) = "const" /\ c \in Analysed
      /\ \A c \in ClosuresOf(d) : Kind(c) = "closure" /\ Kind(d) # "closure" /\ c \in Analysed
  <2>1. \A c \in ClosuresOf(d) : Kind(c) = "closure" /\ Kind(d) # "closure"
    BY CrateFacts DEF ClosuresOf, Owners
  <2> QED BY <2>1, InvolvedFacts, RootFacts, CrateFacts DEF Cone
<1>4. /\ \A m, e : e \in Cone(d) /\ Stage(<<m, e>>) < Stage(q) => Inner(q, <<m, e>>)
      /\ \A m : \A e \in Takes(d) : Kind(e) = "const" => Inner(q, <<m, e>>)
  BY InnerIf
<1>a. ASSUME NEW m \in BodyNames, x = <<m, d>>, Stage(x) < Stage(q), q \in Early => x \in Early
      PROVE  x \in BodyQuery /\ Inner(q, x) /\ (q \in Early => x \in Early)
  BY <1>2, <1>3, <1>4, <1>a
<1>5. CASE n = "typeck_tables_of"
  <2>1. Provider(q) = <<Get(Q("const_eval", krate.lengths[d]))>>
    BY <1>5 DEF Provider, TypeckTablesOf
  <2>2. PICK c \in krate.lengths[d] : x = <<"const_eval", c>>
    BY <1>1, <2>1 DEF Asks, Get, Q
  <2>3. krate.owner[d] = d
    BY <1>5, CrateFacts DEF Query, Q
  <2>4. c \in Takes(d) /\ Kind(c) = "const"
    BY <2>3, InvolvedFacts, CrateFacts
  <2>5. q \in Early => c \in Evaluated
    BY <1>5, EarlyFacts, EvaluatedFacts
  <2> QED BY <1>2, <1>4, <2>2, <2>4, <2>5, EarlyFacts DEF BodyNames
<1>6. CASE n = "mir_built"
  <2>1. Provider(q) = MirBuilt(d)
    BY <1>6 DEF Provider
  <2>2. \/ x = <<"typeck_tables_of", krate.owner[d]>>
        \/ \E c \in krate.built[d] : x = <<"const_eval", c>>
    BY <1>1, <2>1 DEF Asks, MirBuilt, LowerPath, Get, Bug, Q
  <2>3. CASE x = <<"typeck_tables_of", krate.owner[d]>>
    <3>1. Stage(q) = 2 /\ Stage(x) = 1
      BY <1>6, <2>3 DEF Stage
    <3>2. q \in Early => x \in Early
      BY <1>6, <2>3, EarlyFacts
    <3> QED BY <1>2, <1>3, <1>4, <2>3, <3>1, <3>2 DEF BodyNames
  <2>4. ASSUME NEW c \in krate.built[d], x = <<"const_eval", c>>
        PROVE  x \in BodyQuery /\ Inner(q, x) /\ (q \in Early => x \in Early)
    <3>1. c \in Takes(d) /\ Kind(c) = "const"
      BY InvolvedFacts, CrateFacts
    <3>2. q \in Early => c \in Evaluated
      BY <1>6, EarlyFacts, EvaluatedFacts
    <3> QED BY <1>2, <1>4, <2>4, <3>1, <3>2, EarlyFacts DEF BodyNames
  <2> QED BY <2>2, <2>3, <2>4
<1>7. CASE n = "unsafety_check_result"
  <2>1. Provider(q) = <<Get(Q("mir_built", {d})), Borrow(Q("mir_built", {d})),
                        Get(Q("unsafety_check_result", ClosuresOf(d)))>>
    BY <1>7 DEF Provider, UnsafetyCheckResult
  <2>2. x = <<"mir_built", d>> \/ \E c \in ClosuresOf(d) : x = <<"unsafety_check_result", c>>
    BY <1>1, <2>1 DEF Asks, Get, Borrow, Q
  <2>3. CASE x = <<"mir_built", d>>
    <3>1. Stage(x) < Stage(q)
      BY <1>7, <2>3 DEF Stage
    <3>2. q \in Early => x \in Early
      BY <1>7, <2>3, EarlyFacts
    <3> QED BY <1>a, <2>3, <3>1, <3>2 DEF BodyNames
  <2>4. ASSUME NEW c \in ClosuresOf(d), x = <<"unsafety_check_result", c>>
        PROVE  x \in BodyQuery /\ Inner(q, x) /\ x \in Early
    <3>1. Stage(x) < Stage(q)
      BY <1>3, <1>7, <2>4 DEF Stage
    <3>2. c \in Cone(d) /\ c \in EarlyBodies
      BY <1>3 DEF EarlyBodies
    <3> QED BY <1>2, <1>4, <2>4, <3>1, <3>2, EarlyFacts DEF BodyNames
  <2> QED BY <2>2, <2>3, <2>4
<1>8. CASE n = "mir_const"
  <2>1. Provider(q) = <<Get(Q("unsafety_check_result", {d})), Get(Q("mir_built", {d})),
                        Steal(<<"mir_built", d>>)>>
    BY <1>8 DEF Provider, MirConst
  <2>2. x = <<"unsafety_check_result", d>> \/ x = <<"mir_built", d>>
    BY <1>1, <2>1 DEF Asks, Get, Steal, Q
  <2>3. Stage(x) < Stage(q)
    BY <1>8, <2>2 DEF Stage
  <2>4. q \in Early => x \in Early
    BY <1>8, <2>2, EarlyFacts
  <2> QED BY <1>a, <2>2, <2>3, <2>4 DEF BodyNames
<1>9. ASSUME NEW c \in krate.mentions[d], x = <<"mir_const_qualif", c>>
      PROVE  x \in BodyQuery /\ Inner(q, x) /\ x \in Early
  <2>1. c \in Takes(d) /\ Kind(c) = "const" /\ c \in EarlyBodies
    BY <1>3 DEF EarlyBodies
  <2> QED BY <1>2, <1>4, <1>9, <2>1, EarlyFacts DEF BodyNames
<1>10. CASE n = "mir_const_qualif"
  <2>1. Provider(q) = <<Get(Q("mir_const", {d})), Borrow(Q("mir_const", {d})),
                        Get(Q("mir_const_qualif", krate.mentions[d]))>>
    BY <1>10 DEF Provider, MirConstQualif
  <2>2. x = <<"mir_const", d>> \/ \E c \in krate.mentions[d] : x = <<"mir_const_qualif", c>>
    BY <1>1, <2>1 DEF Asks, Get, Borrow, Q
  <2>3. CASE x = <<"mir_const", d>>
    <3>1. Stage(x) < Stage(q)
      BY <1>10, <2>3 DEF Stage
    <3>2. q \in Early => x \in Early
      BY <1>10, <2>3, EarlyFacts
    <3> QED BY <1>a, <2>3, <3>1, <3>2 DEF BodyNames
  <2> QED BY <1>9, <2>2, <2>3
<1>11. CASE n = "mir_validated"
  <2> DEFINE A == IF Kind(d) = "const" THEN Q("mir_const_qualif", {d}) ELSE {}
  <2>1. Provider(q) = <<Get(A), Get(Q("mir_const", {d})), Steal(<<"mir_const", d>>),
                        Get(Q("mir_const_qualif", krate.mentions[d]))>>
    BY <1>11 DEF Provider, MirValidated
  <2>2. A \subseteq Q("mir_const_qualif", {d})
    OBVIOUS
  <2> HIDE DEF A
  <2>3. \/ x = <<"mir_const_qualif", d>> \/ x = <<"mir_const", d>>
        \/ \E c \in krate.mentions[d] : x = <<"mir_const_qualif", c>>
    BY <1>1, <2>1, <2>2 DEF Asks, Get, Steal, Q
  <2>4. CASE x = <<"mir_const_qualif", d>> \/ x = <<"mir_const", d>>
    <3>1. Stage(x) < Stage(q)
      BY <1>11, <2>4 DEF Stage
    <3>2. q \in Early => x \in Early
      BY <1>11, <2>4, EarlyFacts
    <3> QED BY <1>a, <2>4, <3>1, <3>2 DEF BodyNames
  <2> QED BY <1>9, <2>3, <2>4
<1>12. CASE n = "mir_borrowck"
  <2>1. Provider(q) = <<Get(Q("mir_validated", {d})),
                        Borrow({<<"mir_validated", d>>, <<"promoted", d>>}),
                        Get(Q("mir_borrowck", ClosuresOf(d)))>>
    BY <1>12 DEF Provider, MirBorrowck
  <2>2. x = <<"mir_validated", d>> \/ \E c \in ClosuresOf(d) : x = <<"mir_borrowck", c>>
    BY <1>1, <2>1 DEF Asks, Get, Borrow, Q
  <2>3. CASE x = <<"mir_validated", d>>
    <3>1. Stage(x) < Stage(q)
      BY <1>12, <2>3 DEF Stage
    <3>2. q \in Early => x \in Early
      BY <1>12, <2>3, EarlyFacts
    <3> QED BY <1>a, <2>3, <3>1, <3>2 DEF BodyNames
  <2>4. ASSUME NEW c \in ClosuresOf(d), x = <<"mir_borrowck", c>>
        PROVE  x \in BodyQuery /\ Inner(q, x) /\ x \in Early
    <3>1. Stage(x) < Stage(q)
      BY <1>3, <1>12, <2>4 DEF Stage
    <3>2. c \in Cone(d) /\ c \in EarlyBodies
      BY <1>3 DEF EarlyBodies
    <3> QED BY <1>2, <1>4, <2>4, <3>1, <3>2, EarlyFacts DEF BodyNames
  <2> QED BY <2>2, <2>3, <2>4
<1>13. CASE n = "promoted_mir"
  <2>1. Provider(q) = PromotedMir(d)
    BY <1>13 DEF Provider
  <2>2. x = <<"mir_borrowck", d>> \/ x = <<"mir_validated", d>>
    BY <1>1, <2>1 DEF Asks, PromotedMir, Get, Steal, Q
  <2>3. Stage(x) < Stage(q)
    BY <1>13, <2>2 DEF Stage
  <2>4. d \in Evaluated => d \in EarlyBodies
    BY DEF EarlyBodies
  <2>5. q \in Early => x \in Early
    BY <1>13, <2>2, <2>4, EarlyFacts
  <2> QED BY <1>a, <2>2, <2>3, <2>5 DEF BodyNames
<1> QED BY <1>5, <1>6, <1>7, <1>8, <1>10, <1>11, <1>12, <1>13

\* Evaluating a constant needs its stages, and what it calls and mentions.
LEMMA EvaluationGoesDown ==
  ASSUME krate \in Crates, ~ConstantInvolvesItself, NEW d \in DefIds,
         <<"const_eval", d>> \in Query, NEW x \in Dependencies[<<"const_eval", d>>]
  PROVE  /\ x \in BodyQuery /\ Inner(<<"const_eval", d>>, x)
         /\ <<"const_eval", d>> \in Early => x \in Early
<1> DEFINE q == <<"const_eval", d>>
           R == Reachable(krate.calls[d], krate.calls)
           M == UNION {krate.mentions[e] : e \in R \cup {d}}
<1>1. x \in Query /\ Asks(q, x)
  BY DEF Dependencies
<1>2. \A m \in BodyNames : \A e : x = <<m, e>> => x \in BodyQuery
  BY <1>1 DEF BodyQuery
<1>3. Provider(q) = <<Get(Q("typeck_tables_of", {d})), Get(Q("optimized_mir", {d})),
                      Get(Q("optimized_mir", R) \cup Q("const_eval", M))>>
  BY DEF Provider, ConstEval
<1>4. krate.owner[d] = d
  BY CrateFacts DEF Query, Q, Owners
<1>5. \A S \in SUBSET DefIds : krate.calls[d] \subseteq S /\ (\A e \in S : krate.calls[e] \subseteq S)
        => R \subseteq S
  <2>1. krate.calls[d] \subseteq DefIds /\ \A e \in DefIds : krate.calls[e] \subseteq DefIds
    BY CrateFacts DEF MirKeys
  <2> QED BY <2>1, ReachableFacts
<1>6. R \subseteq Takes(d)
  <2>1. Takes(d) \in SUBSET DefIds /\ krate.calls[d] \subseteq Takes(d)
    BY ConeFacts, InvolvedFacts
  <2>2. \A e \in Takes(d) : krate.calls[e] \subseteq Takes(d)
    BY <2>1, ConeFacts, InvolvedFacts
  <2> QED BY <1>5, <2>1, <2>2
<1>7. ASSUME d \in Evaluated PROVE R \subseteq Evaluated
  <2>1. Evaluated \in SUBSET DefIds /\ \A e \in Evaluated : krate.calls[e] \subseteq Evaluated
    BY EvaluatedFacts DEF Needed
  <2> QED BY <1>5, <1>7, <2>1
<1> HIDE DEF R
<1>8. \A c \in M : c \in Takes(d) /\ Kind(c) = "const"
  <2>1. \A e \in R \cup {d} : e \in DefIds /\ krate.mentions[e] \subseteq Takes(d)
    BY <1>6, ConeFacts, InvolvedFacts
  <2> QED BY <2>1, CrateFacts
<1>9. ASSUME d \in Evaluated PROVE M \subseteq Evaluated
  <2>1. \A e \in Evaluated : krate.mentions[e] \subseteq Evaluated
    BY EvaluatedFacts DEF Needed
  <2> QED BY <1>7, <1>9, <2>1
<1> HIDE DEF M
<1>10. \/ x = <<"typeck_tables_of", d>> \/ (\E e \in R \cup {d} : x = <<"optimized_mir", e>>)
       \/ \E c \in M : x = <<"const_eval", c>>
  BY <1>1, <1>3 DEF Asks, Get, Q
<1>11. CASE x = <<"typeck_tables_of", d>>
  <2>1. Stage(x) < Stage(q) /\ d \in Cone(d)
    BY <1>11, InvolvedFacts DEF Stage
  <2>2. d \in Evaluated => d \in EarlyBodies
    BY DEF EarlyBodies
  <2>3. q \in Early => x \in Early
    BY <1>4, <1>11, <2>2, EarlyFacts
  <2> QED BY <1>2, <1>11, <2>1, <2>3, InnerIf DEF BodyNames
<1>12. ASSUME NEW e \in R \cup {d}, x = <<"optimized_mir", e>>
       PROVE  x \in BodyQuery /\ Inner(q, x) /\ (q \in Early => x \in Early)
  <2>1. Stage(x) < Stage(q) /\ e \in Cone(d)
    BY <1>6, <1>12 DEF Stage, Cone
  <2>2. q \in Early => x \in Early
    BY <1>7, <1>12, EarlyFacts
  <2> QED BY <1>2, <1>12, <2>1, <2>2, InnerIf DEF BodyNames
<1>13. ASSUME NEW c \in M, x = <<"const_eval", c>>
       PROVE  x \in BodyQuery /\ Inner(q, x) /\ (q \in Early => x \in Early)
  <2>1. q \in Early => x \in Early
    BY <1>9, <1>13, EarlyFacts
  <2> QED BY <1>2, <1>8, <1>13, <2>1, InnerIf DEF BodyNames
<1> QED BY <1>10, <1>11, <1>12, <1>13

\* What optimized_mir asks for.
LEMMA OptimizedAsks ==
  ASSUME krate \in Crates, NEW d \in MirKeys, NEW x \in Dependencies[<<"optimized_mir", d>>]
  PROVE  \/ x \in {<<"mir_borrowck", d>>, <<"mir_validated", d>>, <<"promoted_mir", d>>}
         \/ /\ Kind(d) \in {"fn", "closure"}
            /\ x = <<"conflict_analysis">> \/ x \in Q("mir_validated", TxBodies)
         \/ x \in Q("optimized_mir", {f \in krate.calls[d] : d < f})
         \/ x \in Q("const_eval", krate.mentions[d])
<1> DEFINE q == <<"optimized_mir", d>>
           P == IF Kind(d) \in {"fn", "closure"}
                  THEN {<<"conflict_analysis">>} \cup Q("mir_validated", TxBodies) ELSE {}
           I == Q("optimized_mir", {f \in krate.calls[d] : d < f})
           C == Q("const_eval", krate.mentions[d])
           Z == {<<"mir_borrowck", d>>, <<"mir_validated", d>>, <<"promoted_mir", d>>}
                  \cup P \cup I \cup C
           S == {Get(X) : X \in SUBSET Z} \cup {Read(X) : X \in SUBSET Cells}
<1>1. q \in Query /\ Provider(q) = OptimizedMir(d)
  BY DEF Query, Q, Provider
<1>2. Asks(q, x)
  BY <1>1 DEF Dependencies
<1>3. \A X : X \subseteq Z => Get(X) \in S
  OBVIOUS
<1>4. \A X : X \subseteq DefIds => Read(Q("mir_validated", X)) \in S
  <2>1. \A X : X \subseteq DefIds => Q("mir_validated", X) \subseteq Cells
    BY DEF Q, Cells
  <2> QED BY <2>1
<1>5. OptimizedMir(d) \in Seq(S)
  <2>1. CASE Kind(d) = "ctor"
    BY <2>1 DEF OptimizedMir
  <2>2. CASE Kind(d) # "ctor"
    <3> DEFINE s1 == <<Get(Q("mir_borrowck", {d}))>>
               s2 == MakePatches(d)
               s3 == <<Get(Q("mir_validated", {d})), Read(Q("mir_validated", {d}))>>
               s4 == RunOptimizationPasses(d)
    <3>1. /\ Q("mir_borrowck", {d}) \subseteq Z /\ Q("mir_validated", {d}) \subseteq Z
          /\ {d} \subseteq DefIds
      BY DEF Q, MirKeys
    <3>2. s1 \in Seq(S) /\ s3 \in Seq(S)
      <4>1. /\ Get(Q("mir_borrowck", {d})) \in S /\ Get(Q("mir_validated", {d})) \in S
            /\ Read(Q("mir_validated", {d})) \in S
        BY <1>3, <1>4, <3>1
      <4> HIDE DEF S
      <4> QED BY <4>1
    <3>3. s2 \in Seq(S)
      <4> DEFINE a == Get({<<"conflict_analysis">>})
                 b == Get(Q("mir_validated", TxBodies))
                 c == Read(Q("mir_validated", TxBodies))
      <4>1. CASE Kind(d) \in {"fn", "closure"}
        <5>1. {<<"conflict_analysis">>} \subseteq Z /\ Q("mir_validated", TxBodies) \subseteq Z
          BY <4>1
        <5>2. TxBodies \subseteq DefIds
          BY CrateFacts DEF TxBodies
        <5>3. s2 = <<a, b, c>>
          BY <4>1 DEF MakePatches
        <5>4. a \in S /\ b \in S /\ c \in S
          BY <1>3, <1>4, <5>1, <5>2
        <5> HIDE DEF S, a, b, c, s2
        <5> QED BY <5>3, <5>4
      <4>2. CASE Kind(d) \notin {"fn", "closure"}
        BY <4>2 DEF MakePatches
      <4> QED BY <4>1, <4>2
    <3>4. s4 \in Seq(S)
      <4> DEFINE A == IF krate.inlining THEN I ELSE {}
                 B == IF Kind(d) = "const" THEN {} ELSE C \cup Q("promoted_mir", {d})
      <4>1. A \subseteq Z
        OBVIOUS
      <4>2. Q("promoted_mir", {d}) \subseteq Z
        BY DEF Q
      <4>3. B \subseteq Z
        BY <4>2
      <4>4. s4 = <<Get(A), Get(B)>>
        BY DEF RunOptimizationPasses
      <4> HIDE DEF A, B, Z
      <4>5. Get(A) \in S /\ Get(B) \in S
        BY <4>1, <4>3
      <4> HIDE DEF S, s4
      <4> QED BY <4>4, <4>5
    <3>5. OptimizedMir(d) = s1 \o s2 \o s3 \o s4
      BY <2>2 DEF OptimizedMir
    <3> HIDE DEF s1, s2, s3, s4, S
    <3>6. s1 \o s2 \in Seq(S) /\ s1 \o s2 \o s3 \in Seq(S) /\ s1 \o s2 \o s3 \o s4 \in Seq(S)
      BY <3>2, <3>3, <3>4, ConcatFacts
    <3> QED BY <3>5, <3>6
  <2> QED BY <2>1, <2>2
<1> HIDE DEF S
<1>6. \A k \in 1..Len(OptimizedMir(d)) : OptimizedMir(d)[k] \in S
  BY <1>5, ElementOfSeq
<1> HIDE DEF Z
<1>7. \A st \in S : st.op = "get" => st.args \subseteq Z
  BY DEF S, Get, Read
<1>8. x \in Z
  BY <1>1, <1>2, <1>6, <1>7 DEF Asks
<1> QED BY <1>8 DEF Z

\* optimized_mir asks for the conflict sets for a function or a closure, which
\* is not needed by the analysis; the rest it asks for is below it.
LEMMA OptimizedGoesDown ==
  ASSUME krate \in Crates, ~ConstantInvolvesItself, ~MirNeedsConstFn, NEW d \in MirKeys,
         NEW x \in Dependencies[<<"optimized_mir", d>>]
  PROVE  Above(<<"optimized_mir", d>>, x)
<1> DEFINE q == <<"optimized_mir", d>>
<1>1. q \in Query /\ q \in BodyQuery /\ d \in DefIds
  BY DEF Query, Q, BodyQuery, BodyNames, MirKeys
<1>2. x \in Query
  BY <1>1 DEF Dependencies
<1>3. \A m \in BodyNames : \A e : x = <<m, e>> => x \in BodyQuery
  BY <1>2 DEF BodyQuery
<1>4. q \in Early <=> d \in Evaluated
  BY EarlyFacts
<1>5. CASE x \in {<<"mir_borrowck", d>>, <<"mir_validated", d>>, <<"promoted_mir", d>>}
  <2>1. PICK m \in {"mir_borrowck", "mir_validated", "promoted_mir"} : x = <<m, d>>
    BY <1>5
  <2>2. Stage(x) < Stage(q) /\ d \in Cone(d)
    BY <2>1 DEF Stage, Cone
  <2>3. Inner(q, x)
    BY <1>1, <2>1, <2>2, InnerIf
  <2>4. d \in Evaluated => d \in EarlyBodies
    BY DEF EarlyBodies
  <2>5. q \in Early => x \in Early
    BY <1>4, <1>5, <2>4, EarlyFacts
  <2>6. x \in BodyQuery
    BY <1>3, <2>1 DEF BodyNames
  <2> QED BY <1>1, <2>3, <2>5, <2>6, InnerAbove
<1>6. CASE /\ Kind(d) \in {"fn", "closure"}
           /\ x = <<"conflict_analysis">> \/ x \in Q("mir_validated", TxBodies)
  <2>1. Layer(q) = 3
    BY <1>1, <1>4, <1>6, EvaluatedFacts, LayerFacts
  <2>2. x = <<"conflict_analysis">> => Layer(x) = 2
    BY <1>2, LayerFacts
  <2>3. x \in Q("mir_validated", TxBodies) => x \in Early /\ x \in BodyQuery
    <3>1. TxBodies \subseteq EarlyBodies
      <4>1. TxBodies \subseteq Roots \cup Analysed
        BY CrateFacts DEF TxBodies, Roots, MirKeys, HasBody
      <4> QED BY <4>1, AnalysedFacts DEF EarlyBodies
    <3> QED BY <1>3, <3>1, EarlyFacts DEF Q, BodyNames
  <2>4. Layer(x) \in {0, 2}
    BY <1>2, <1>6, <2>2, <2>3, LayerFacts
  <2> QED BY <2>1, <2>4 DEF Above
<1>7. CASE x \in Q("optimized_mir", {f \in krate.calls[d] : d < f})
  <2>1. PICK f \in krate.calls[d] : d < f /\ x = <<"optimized_mir", f>>
    BY <1>7 DEF Q
  <2>2. Cone(f) \subseteq Cone(d)
    BY <1>1, ConeFacts, InvolvedFacts DEF Cone
  <2>3. Stage(x) = Stage(q)
    BY <2>1 DEF Stage
  <2>4. Inner(q, x)
    BY <2>1, <2>2, <2>3 DEF Inner
  <2>5. q \in Early => x \in Early
    <3>1. d \in Evaluated => f \in Evaluated
      BY <1>1, EvaluatedFacts DEF Needed
    <3> QED BY <1>4, <2>1, <3>1, EarlyFacts
  <2>6. x \in BodyQuery
    BY <1>3, <2>1 DEF BodyNames
  <2> QED BY <1>1, <2>4, <2>5, <2>6, InnerAbove
<1>8. CASE x \in Q("const_eval", krate.mentions[d])
  <2>1. PICK c \in krate.mentions[d] : x = <<"const_eval", c>>
    BY <1>8 DEF Q
  <2>2. c \in Takes(d) /\ Kind(c) = "const"
    BY <1>1, InvolvedFacts, CrateFacts
  <2>3. Inner(q, x)
    BY <1>1, <2>1, <2>2, InnerIf
  <2>4. q \in Early => x \in Early
    <3>1. d \in Evaluated => c \in Evaluated
      BY <1>1, EvaluatedFacts DEF Needed
    <3> QED BY <1>4, <2>1, <3>1, EarlyFacts
  <2>5. x \in BodyQuery
    BY <1>3, <2>1 DEF BodyNames
  <2> QED BY <1>1, <2>3, <2>4, <2>5, InnerAbove
<1> QED BY <1>5, <1>6, <1>7, <1>8, OptimizedAsks

\* Every provider asks for queries below its own only.
LEMMA GoesDown ==
  ASSUME krate \in Crates, ~ConstantInvolvesItself, ~MirNeedsConstFn,
         NEW q \in Query, NEW x \in Dependencies[q]
  PROVE  Above(q, x)
<1>1. x \in Query /\ Asks(q, x)
  BY DEF Dependencies
<1>2. CASE q[1] = "driver"
  <2>1. Provider(q) = Driver
    BY <1>2 DEF Provider
  <2>2. x[1] \in {"typeck_tables_of", "const_eval", "mir_borrowck", "optimized_mir", "promoted_mir"}
    BY <1>1, <2>1 DEF Asks, Driver, Get, Q
  <2>3. Layer(q) = 4 /\ Layer(x) \in {0, 3}
    BY <1>1, <1>2, <2>2, LayerFacts DEF BodyQuery, BodyNames
  <2> QED BY <2>3 DEF Above
<1>3. CASE q[1] = "conflict_analysis"
  <2>1. Provider(q) = ConflictAnalysis
    BY <1>3 DEF Provider
  <2>2. x[1] = "get_shared_objects"
    BY <1>1, <2>1 DEF Asks, ConflictAnalysis, Get, Q
  <2>3. Layer(q) = 2 /\ Layer(x) = 1
    BY <1>1, <1>3, <2>2, LayerFacts
  <2> QED BY <2>3 DEF Above
<1>4. CASE q[1] = "get_shared_objects"
  <2>1. PICK d \in Roots : q = <<"get_shared_objects", d>>
    BY <1>4 DEF Query, Q
  <2> DEFINE C == Reachable(krate.traces[d], krate.traces)
  <2>2. Provider(q) = <<Get(Q("mir_validated", {d})), Borrow(Q("mir_validated", {d})),
                        Get(Q("mir_validated", C)), Borrow(Q("mir_validated", C))>>
    BY <2>1 DEF Provider, GetSharedObjects
  <2>3. C \cup {d} \subseteq EarlyBodies
    BY AnalysedFacts DEF EarlyBodies
  <2> HIDE DEF C
  <2>4. PICK e \in C \cup {d} : x = <<"mir_validated", e>>
    BY <1>1, <2>2 DEF Asks, Get, Borrow, Q
  <2>5. x \in Early /\ x \in BodyQuery
    BY <1>1, <2>3, <2>4, EarlyFacts DEF BodyQuery, BodyNames
  <2>6. Layer(q) = 1 /\ Layer(x) = 0
    BY <1>1, <1>4, <2>5, LayerFacts
  <2> QED BY <2>6 DEF Above
<1>5. CASE q[1] \in BodyNames
  <2>1. q \in BodyQuery /\ q[2] \in DefIds /\ q = <<q[1], q[2]>>
    <3>1. q = <<q[1], q[2]>>
      BY <1>5 DEF Query, Q, BodyNames
    <3> QED BY <1>5, <3>1, BodyQueryFacts DEF BodyQuery
  <2>2. CASE q[1] = "optimized_mir"
    <3>1. q[2] \in MirKeys
      BY <2>2 DEF Query, Q
    <3> QED BY <2>1, <2>2, <3>1, OptimizedGoesDown
  <2>3. CASE q[1] # "optimized_mir"
    <3>1. x \in BodyQuery /\ Inner(q, x) /\ (q \in Early => x \in Early)
      BY <1>5, <2>1, <2>3, StagesGoDown, EvaluationGoesDown DEF BodyNames
    <3> QED BY <2>1, <3>1, InnerAbove
  <2> QED BY <2>2, <2>3
<1> QED BY <1>2, <1>3, <1>4, <1>5 DEF Query, Q, BodyNames

-----------------------------------------------------------------------------
(* The engine.                                                              *)

\* The crates that have no cycle.
Ordered == ~ConstantInvolvesItself /\ ~MirNeedsConstFn
Before == {p \in Query \X Query : Above(p[1], p[2])}

\* The stack goes down.
StackInv ==
  Ordered =>
    /\ failure # "cycle"
    /\ \A i, j \in 1..Len(stack) : i < j => <<stack[i].query, stack[j].query>> \in Before

\* The order does not change, nor whether the crate is an ordered one.
LEMMA OrderFixed ==
  ASSUME krate' = krate
  PROVE  Before' = Before /\ (Ordered' <=> Ordered)
<1> USE DEF Involved, Needed, BuiltWith, ClosuresOf, DefIds, Kind, MirKeys, IsConstFn
<1>1. Query' = Query /\ (MirNeedsConstFn' <=> MirNeedsConstFn)
  BY CrateFixed
<1>2. \A d : Cone(d)' = Cone(d)
  BY DEF Cone, Takes, Reachable
<1>3. Early' = Early
  BY DEF Early, Q, EarlyBodies, Evaluated, Analysed, Reachable
<1>4. \A q : Layer(q)' = Layer(q) /\ Stage(q)' = Stage(q)
  BY <1>3 DEF Layer, Stage
<1>5. \A x, y : Above(x, y)' <=> Above(x, y)
  BY <1>2, <1>4 DEF Above, Inner
<1>6. ConstantInvolvesItself' <=> ConstantInvolvesItself
  BY DEF ConstantInvolvesItself, Reachable
<1> QED BY <1>1, <1>5, <1>6 DEF Before, Ordered

\* A step that starts and ends no provider.
LEMMA SameQueries ==
  ASSUME StackInv, krate' = krate, failure' # "cycle",
         Len(stack') = Len(stack), \A i \in 1..Len(stack) : stack'[i].query = stack[i].query
  PROVE  StackInv'
<1>1. Before' = Before /\ (Ordered' <=> Ordered)
  BY OrderFixed
<1> QED BY <1>1 DEF StackInv

\* The innermost provider goes on.
LEMMA TopGoesOn ==
  ASSUME EngineInv, StackInv, stack # <<>>, krate' = krate, failure' # "cycle",
         NEW g, g.query = Top.query, stack' = Append(Front(stack), g)
  PROVE  StackInv'
<1> DEFINE n == Len(stack)
           S == Frames \cup {g}
<1>1. stack \in Seq(Frames) /\ Frames \subseteq S /\ g \in S
  BY DEF EngineInv, Shape
<1> HIDE DEF S
<1>2. stack \in Seq(S)
  BY <1>1, SeqMonotonic
<1>3. /\ Len(stack') = n /\ (\A i \in 1..(n - 1) : stack'[i] = stack[i]) /\ stack'[n] = g
  BY <1>1, <1>2, ReplaceLastFacts
<1>4. n \in Nat \ {0} /\ Top = stack[n]
  BY TopFacts DEF EngineInv
<1> HIDE DEF n
<1>5. \A i \in 1..n : i \in 1..(n - 1) \/ i = n
  BY <1>4
<1>6. \A i \in 1..n : stack'[i].query = stack[i].query
  BY <1>3, <1>4, <1>5
<1> QED BY <1>3, <1>6, SameQueries DEF n

\* The last provider ends.
LEMMA TopEnds ==
  ASSUME EngineInv, StackInv, stack # <<>>, krate' = krate, failure' = failure,
         stack' = Front(stack)
  PROVE  StackInv'
<1> DEFINE n == Len(stack)
<1>1. /\ n \in Nat \ {0} /\ Len(stack') = n - 1 /\ \A i \in 1..(n - 1) : stack'[i] = stack[i]
  BY FrontFacts DEF EngineInv, Shape
<1>2. Before' = Before /\ (Ordered' <=> Ordered)
  BY OrderFixed
<1>3. StackInv /\ n = Len(stack)
  OBVIOUS
<1> HIDE DEF n
<1>4. \A i \in 1..(n - 1) : i \in 1..n
  BY <1>1
<1> QED BY <1>1, <1>2, <1>3, <1>4 DEF StackInv

\* What the innermost provider asks for is below all running ones.
LEMMA AskedIsBelow ==
  ASSUME EngineInv, StackInv, Ordered, At("get"), NEW q \in Top.todo
  PROVE  q \in Query /\ \A i \in 1..Len(stack) : <<stack[i].query, q>> \in Before
<1> DEFINE n == Len(stack)
<1>1. /\ krate \in Crates /\ n \in Nat \ {0} /\ n \in 1..n /\ Top = stack[n] /\ Top.query \in Query
      /\ Top.step \in 1..Len(Provider(Top.query)) /\ Provider(Top.query)[Top.step].op = "get"
      /\ Provider(Top.query)[Top.step] \in StepsOf(Top.query)
      /\ Top.todo \subseteq Provider(Top.query)[Top.step].args
  BY AtFacts
<1>2. q \in Query
  BY <1>1 DEF StepsOf, StepOK
<1>3. q \in Dependencies[Top.query]
  BY <1>1, <1>2 DEF Dependencies, Asks
<1>4. Above(Top.query, q)
  BY <1>1, <1>3, GoesDown DEF Ordered
<1>5. ASSUME NEW i \in 1..n PROVE <<stack[i].query, q>> \in Before
  <2>1. stack[i].query \in Query
    <3>1. stack[i] \in Frames
      BY TopFacts DEF At, Running, EngineInv
    <3> QED BY <3>1 DEF Frames
  <2>2. CASE i = n
    BY <1>1, <1>2, <1>4, <2>1, <2>2 DEF Before
  <2>3. CASE i # n
    <3>1. i < n
      BY <1>1, <2>3
    <3>2. <<stack[i].query, Top.query>> \in Before
      BY <1>1, <3>1 DEF StackInv
    <3>3. Above(stack[i].query, Top.query)
      BY <3>2 DEF Before
    <3>4. Above(stack[i].query, q)
      BY <1>1, <1>2, <1>4, <2>1, <3>3, AboveOrder
    <3> QED BY <1>2, <2>1, <3>4 DEF Before
  <2> QED BY <2>2, <2>3
<1> QED BY <1>2, <1>5

\* A provider that is started is below the running ones.
LEMMA StartGoesDown ==
  ASSUME EngineInv, StackInv, NEW q, NotYetStarted(q)
  PROVE  StackInv'
<1> DEFINE n == Len(stack)
<1>1. /\ At("get") /\ q \in Top.todo /\ krate' = krate /\ failure' = failure
      /\ stack' = Append(Append(Front(stack), DoneWith(q)), Job(q))
  BY DEF NotYetStarted
<1>2. Before' = Before /\ (Ordered' <=> Ordered)
  BY <1>1, OrderFixed
<1>3. PICK g : g = DoneWith(q)
  OBVIOUS
<1>4. PICK j : j = Job(q)
  OBVIOUS
<1>5. stack \in Seq(Frames) /\ n \in Nat \ {0} /\ Top = stack[n] /\ Top \in Frames /\ stack # <<>>
  BY <1>1, AtFacts DEF EngineInv, Shape
<1>6. g.query = Top.query /\ j.query = q
  BY <1>3, <1>4, <1>5, DoneFrame DEF DoneWith, Job
<1> DEFINE S == Frames \cup {g, j}
<1>7. Frames \subseteq S /\ g \in S /\ j \in S
  OBVIOUS
<1> HIDE DEF S
<1>8. PICK s : s = Append(Front(stack), g)
  OBVIOUS
<1>9. stack \in Seq(S)
  BY <1>5, <1>7, SeqMonotonic
<1>10. s \in Seq(S) /\ Len(s) = n /\ (\A i \in 1..(n - 1) : s[i] = stack[i]) /\ s[n] = g
  BY <1>5, <1>7, <1>8, <1>9, ReplaceLastFacts
<1>11. stack' = Append(s, j)
  BY <1>1, <1>3, <1>4, <1>8
<1>12. Len(stack') = n + 1 /\ (\A i \in 1..n : stack'[i] = s[i]) /\ stack'[n + 1] = j
  BY <1>7, <1>10, <1>11, PushFacts
<1>13. StackInv /\ n = Len(stack)
  OBVIOUS
<1>14. Ordered => \A i \in 1..n : <<stack[i].query, q>> \in Before
  BY <1>1, AskedIsBelow
<1> HIDE DEF n
<1>15. \A i \in 1..n : stack'[i].query = stack[i].query
  <2>1. \A i \in 1..n : i \in 1..(n - 1) \/ i = n
    BY <1>5
  <2> QED BY <1>5, <1>6, <1>10, <1>12, <2>1
<1>16. ASSUME Ordered, NEW i \in 1..(n + 1), NEW k \in 1..(n + 1), i < k
       PROVE  <<stack'[i].query, stack'[k].query>> \in Before
  <2>1. i \in 1..n
    BY <1>5, <1>16
  <2>2. CASE k = n + 1
    BY <1>6, <1>12, <1>14, <1>15, <1>16, <2>1, <2>2
  <2>3. CASE k \in 1..n
    BY <1>13, <1>15, <1>16, <2>1, <2>3 DEF StackInv
  <2> QED BY <1>5, <2>2, <2>3
<1> QED BY <1>1, <1>2, <1>12, <1>13, <1>16 DEF StackInv

\* In an ordered crate nobody asks for a query that is running.
LEMMA NoCycleReported ==
  ASSUME EngineInv, StackInv, NEW q, Cycle(q)
  PROVE  ~Ordered
<1> SUFFICES ASSUME Ordered PROVE FALSE
  OBVIOUS
<1>1. At("get") /\ q \in Top.todo /\ q \in active
  BY DEF Cycle
<1>2. q \in Query /\ \A i \in 1..Len(stack) : <<stack[i].query, q>> \in Before
  BY <1>1, AskedIsBelow
<1>3. PICK i \in 1..Len(stack) : stack[i].query = q
  BY <1>1 DEF EngineInv, ActiveInv
<1>4. Above(q, q)
  BY <1>2, <1>3 DEF Before
<1> QED BY <1>2, <1>4, AboveOrder DEF EngineInv, Shape

(* The stack of a crate without the named cases goes down, and no cycle is  *)
(* reported.                                                                *)
THEOREM StackGoesDown == QuerySpec => []StackInv
<1>1. QueryInit => StackInv
  <2> SUFFICES ASSUME QueryInit PROVE StackInv
    OBVIOUS
  <2>1. PICK j : j = Job(<<"driver">>)
    OBVIOUS
  <2>2. stack = <<j>> /\ failure = "no"
    BY <2>1 DEF QueryInit
  <2>3. Len(stack) = 1
    BY <2>2
  <2>4. \A i, k \in 1..Len(stack) : ~(i < k)
    BY <2>3
  <2> QED BY <2>2, <2>4 DEF StackInv
<1>2. EngineInv /\ StackInv /\ [QueryNext]_query_vars => StackInv'
  <2> SUFFICES ASSUME EngineInv, StackInv, [QueryNext]_query_vars PROVE StackInv'
    OBVIOUS
  <2>1. CASE NextStep
    <3>1. PICK g : g = [Top EXCEPT !.step = @ + 1, !.todo = Args(Top.query, Top.step + 1)]
      OBVIOUS
    <3>2. /\ stack # <<>> /\ krate' = krate /\ failure' # "cycle"
          /\ stack' = Append(Front(stack), g)
      BY <2>1, <3>1 DEF NextStep, Running
    <3>3. g.query = Top.query
      <4>1. Top \in Frames
        BY <3>2, TopFacts DEF EngineInv
      <4>2. DOMAIN Top = {"query", "step", "todo", "borrowed"}
        BY <4>1 DEF Frames
      <4> QED BY <3>1, <4>2
    <3> QED BY <3>2, <3>3, TopGoesOn
  <2>2. CASE Complete
    BY <2>2, TopEnds DEF Complete, Running
  <2>3. CASE Unwind
    BY <2>3, TopEnds DEF Unwind
  <2>4. CASE SpanBug
    BY <2>4, SameQueries DEF SpanBug
  <2>5. ASSUME NEW x \in Top.todo, JobCompleted(x) \/ BorrowValue(x) \/ StealValue(x) PROVE StackInv'
    <3>1. stack # <<>> /\ krate' = krate /\ failure' # "cycle"
      BY <2>5 DEF JobCompleted, BorrowValue, StealValue, At, Running
    <3>2. Top \in Frames
      BY <3>1, TopFacts DEF EngineInv
    <3>3. PICK f : f = DoneWith(x)
      OBVIOUS
    <3>4. f = [query |-> Top.query, step |-> Top.step, todo |-> Top.todo \ {x}, borrowed |-> Top.borrowed]
      BY <3>2, <3>3, DoneFrame DEF DoneWith
    <3>5. CASE JobCompleted(x) \/ StealValue(x)
      <4>1. stack' = Append(Front(stack), f)
        BY <3>3, <3>5 DEF JobCompleted, StealValue
      <4>2. f.query = Top.query
        BY <3>4
      <4> QED BY <3>1, <4>1, <4>2, TopGoesOn
    <3>6. CASE BorrowValue(x)
      <4>1. PICK g : g = [f EXCEPT !.borrowed = IF At("borrow") THEN @ \cup {x} ELSE @]
        OBVIOUS
      <4>2. stack' = Append(Front(stack), g)
        BY <3>3, <3>6, <4>1 DEF BorrowValue
      <4>3. g.query = Top.query
        BY <3>4, <4>1
      <4> QED BY <3>1, <4>2, <4>3, TopGoesOn
    <3> QED BY <2>5, <3>5, <3>6
  <2>6. ASSUME NEW x \in Top.todo, NotYetStarted(x) PROVE StackInv'
    BY <2>6, StartGoesDown
  <2>7. ASSUME NEW x \in Top.todo, Cycle(x) PROVE StackInv'
    <3>1. ~Ordered /\ krate' = krate
      BY <2>7, NoCycleReported DEF Cycle
    <3> QED BY <3>1, OrderFixed DEF StackInv
  <2>8. CASE UNCHANGED query_vars
    <3>1. UNCHANGED <<krate, stack, failure>>
      BY <2>8 DEF query_vars
    <3> QED BY <3>1, OrderFixed DEF StackInv
  <2> QED BY <2>1, <2>2, <2>3, <2>4, <2>5, <2>6, <2>7, <2>8 DEF QueryNext, QueryStep, CompilerEnded
<1> QED BY <1>1, <1>2, EngineCorrect, PTL DEF QuerySpec

(* A crate whose constants do not involve themselves is refused in two      *)
(* cases only, in every order of the bodies: with a cycle if building the   *)
(* MIR of something that is analysed needs a const fn, for its types or its *)
(* patterns, and with a bug if a shared object is passed to something       *)
(* without a body.                                                          *)
THEOREM OnlyExplainedFailures == QuerySpec => []FailuresExplained
<1>1. EngineInv /\ StackInv => FailuresExplained
  BY DEF EngineInv, FailureInv, StackInv, Ordered, FailuresExplained
<1> QED BY <1>1, EngineCorrect, StackGoesDown, PTL
=============================================================================
