----------------------------- MODULE QueriesProofs -----------------------------
(***************************************************************************)
(* Proofs about Queries for any crate and any order in which bodies are    *)
(* compiled.                                                               *)
(*                                                                         *)
(* The providers are static: StepsOf says what a provider may ask for,     *)
(* borrow and steal, and StealOrder that it asks for the query that reads  *)
(* a Steal before it takes the value.  The engine's invariant does not     *)
(* mention single providers: what a running provider has asked for is      *)
(* answered, or is the next provider on the stack; what an answered one    *)
(* has asked for is answered; and a value that was taken belongs to a      *)
(* query whose reader is answered, so that it will not run again.          *)
(***************************************************************************)
EXTENDS Queries, SequenceFacts, FunctionTheorems, FiniteSetTheorems, TLAPS

HasBody(d) == Kind(d) \notin {"ctor", "bodyless"}
Roots == {d \in MirKeys : ~IsConstFn(d)}
Owners == {d \in DefIds : Kind(d) # "closure"}

\* The queries that are asked for in a crate.
Query ==
  {<<"driver">>, <<"conflict_analysis">>}
    \cup Q("typeck_tables_of", Owners)
    \cup Q("const_eval", {d \in DefIds : Kind(d) = "const"})
    \cup Q("mir_const_qualif", {d \in DefIds : Kind(d) = "const"})
    \cup Q("mir_built", {d \in DefIds : HasBody(d) \/ d \in Analysed})
    \cup Q("unsafety_check_result", {d \in DefIds : HasBody(d) \/ d \in Analysed})
    \cup Q("mir_const", {d \in DefIds : HasBody(d) \/ d \in Analysed})
    \cup Q("mir_validated", {d \in DefIds : HasBody(d) \/ d \in Analysed})
    \cup Q("mir_borrowck", {d \in DefIds : HasBody(d)})
    \cup Q("get_shared_objects", Roots)
    \cup Q("optimized_mir", MirKeys)
    \cup Q("promoted_mir", MirKeys)

Cells == {"mir_built", "mir_const", "mir_validated", "promoted"} \X DefIds

\* The query that borrows the value of a Steal, and the one that takes it.
Reader(c) ==
  CASE c[1] = "mir_built" -> <<"unsafety_check_result", c[2]>>
    [] c[1] = "mir_const" -> <<"mir_const_qualif", c[2]>>
    [] c[1] = "promoted" -> <<"mir_borrowck", c[2]>>
Thief(c) ==
  CASE c[1] = "mir_built" -> <<"mir_const", c[2]>>
    [] c[1] = "mir_const" -> <<"mir_validated", c[2]>>
    [] c[1] = "promoted" -> <<"promoted_mir", c[2]>>

\* What a step of the provider of q may be.
StepOK(q, st) ==
  /\ st.op = "get" => st.args \subseteq Query
  /\ st.op \in {"borrow", "read"} =>
       st.args \subseteq Cells /\ \A c \in st.args : c[1] # "mir_validated" => q = Reader(c)
  /\ st.op = "steal" =>
       st.args \subseteq Cells /\ \A c \in st.args : c[1] # "mir_validated" /\ q = Thief(c)
  /\ st.op = "bug" => st.args # {} /\ TracesBodyless

StepsOf(q) ==
  {st \in [op : {"get", "borrow", "read", "steal", "bug"},
           args : SUBSET (Query \cup Cells \cup {"bug"})] : StepOK(q, st)}

Asks(q, x) ==
  \E k \in 1..Len(Provider(q)) : Provider(q)[k].op = "get" /\ x \in Provider(q)[k].args

-----------------------------------------------------------------------------
(* The crate.                                                               *)

\* What the assumption says of the crate that is compiled.
LEMMA CrateFacts ==
  ASSUME krate \in Crates
  PROVE  /\ krate.owner \in [DefIds -> Owners] /\ Owners \subseteq DefIds
         /\ \A d \in Owners : krate.owner[d] = d
         /\ \A d \in DefIds : krate.lengths[d] \subseteq {c \in DefIds : Kind(c) = "const"}
         /\ \A d \in DefIds : krate.built[d] \subseteq {c \in DefIds : Kind(c) = "const"}
         /\ \A d \in DefIds : krate.mentions[d] \subseteq {c \in DefIds : Kind(c) = "const"}
         /\ \A d \in DefIds : krate.calls[d] \subseteq {f \in MirKeys : Kind(f) # "const"}
         /\ \A d \in DefIds : krate.traces[d] \subseteq DefIds
         /\ krate.txs \subseteq {d \in DefIds : HasBody(d)}
BY CratesAssumption DEF DefIds, Kind, MirKeys, HasBody, Owners

\* Reachable is the least closed set.
LEMMA ReachableFacts ==
  ASSUME NEW ds, ds \subseteq DefIds, NEW relation, \A d \in DefIds : relation[d] \subseteq DefIds
  PROVE  /\ ds \subseteq Reachable(ds, relation)
         /\ Reachable(ds, relation) \subseteq DefIds
         /\ \A d \in Reachable(ds, relation) : relation[d] \subseteq Reachable(ds, relation)
         /\ \A S \in SUBSET DefIds : ds \subseteq S /\ (\A e \in S : relation[e] \subseteq S)
              => Reachable(ds, relation) \subseteq S
BY DEF Reachable

\* What is analysed: the roots and what objects are passed to from them.
LEMMA AnalysedFacts ==
  ASSUME krate \in Crates
  PROVE  /\ Roots \subseteq Analysed /\ Analysed \subseteq DefIds
         /\ \A d \in Roots : HasBody(d)
         /\ \A d \in Roots : Reachable(krate.traces[d], krate.traces) \subseteq Analysed
         /\ \A e \in Analysed :
              e \in Roots \/ \E d \in Roots : e \in Reachable(krate.traces[d], krate.traces)
<1> DEFINE T == krate.traces
<1>1. Roots \subseteq DefIds /\ \A d \in DefIds : T[d] \subseteq DefIds
  BY CrateFacts DEF Roots, MirKeys
<1>2. Analysed = Reachable(Roots, T)
  BY DEF Analysed, Roots
<1>3. /\ Roots \subseteq Analysed /\ Analysed \subseteq DefIds
      /\ \A d \in Analysed : T[d] \subseteq Analysed
      /\ \A S \in SUBSET DefIds : Roots \subseteq S /\ (\A e \in S : T[e] \subseteq S)
           => Analysed \subseteq S
  BY <1>1, <1>2, ReachableFacts
<1>4. \A d \in DefIds :
        /\ T[d] \subseteq Reachable(T[d], T)
        /\ Reachable(T[d], T) \subseteq DefIds
        /\ \A e \in Reachable(T[d], T) : T[e] \subseteq Reachable(T[d], T)
        /\ \A S \in SUBSET DefIds : T[d] \subseteq S /\ (\A e \in S : T[e] \subseteq S)
              => Reachable(T[d], T) \subseteq S
  BY <1>1, ReachableFacts
<1>5. \A d \in Roots : HasBody(d)
  BY DEF Roots, MirKeys, IsConstFn, HasBody
<1>6. \A d \in Roots : Reachable(T[d], T) \subseteq Analysed
  BY <1>1, <1>3, <1>4
<1>7. ASSUME NEW e \in Analysed PROVE e \in Roots \/ \E d \in Roots : e \in Reachable(T[d], T)
  <2> DEFINE S == Roots \cup UNION {Reachable(T[d], T) : d \in Roots}
  <2>1. S \in SUBSET DefIds
    BY <1>1, <1>4
  <2>2. \A f \in S : T[f] \subseteq S
    BY <1>1, <1>4
  <2>3. Analysed \subseteq S
    BY <1>3, <2>1, <2>2
  <2> QED BY <2>3
<1> QED BY <1>3, <1>5, <1>6, <1>7

-----------------------------------------------------------------------------
(* The providers.                                                           *)

\* The queries about a set of bodies are queries of the crate.
LEMMA QueryMembers ==
  ASSUME NEW X
  PROVE  /\ X \subseteq Owners => Q("typeck_tables_of", X) \subseteq Query
         /\ X \subseteq {d \in DefIds : Kind(d) = "const"} =>
              Q("const_eval", X) \subseteq Query /\ Q("mir_const_qualif", X) \subseteq Query
         /\ X \subseteq {d \in DefIds : HasBody(d) \/ d \in Analysed} =>
              /\ Q("mir_built", X) \subseteq Query /\ Q("unsafety_check_result", X) \subseteq Query
              /\ Q("mir_const", X) \subseteq Query /\ Q("mir_validated", X) \subseteq Query
         /\ X \subseteq {d \in DefIds : HasBody(d)} => Q("mir_borrowck", X) \subseteq Query
         /\ X \subseteq Roots => Q("get_shared_objects", X) \subseteq Query
         /\ X \subseteq MirKeys =>
              Q("optimized_mir", X) \subseteq Query /\ Q("promoted_mir", X) \subseteq Query
         /\ X \subseteq DefIds => Q("mir_validated", X) \subseteq Cells
BY DEF Query, Q, Cells

\* A step that asks for queries of the crate is one a provider may take.
LEMMA GetOK ==
  ASSUME NEW q, NEW X, X \subseteq Query
  PROVE  Get(X) \in StepsOf(q)
BY DEF Get, StepsOf, StepOK

\* mir_validated is never stolen, so anybody may read it.
LEMMA ReadOK ==
  ASSUME NEW q, NEW X, X \subseteq DefIds
  PROVE  Borrow(Q("mir_validated", X)) \in StepsOf(q) /\ Read(Q("mir_validated", X)) \in StepsOf(q)
<1>1. Q("mir_validated", X) \subseteq Cells /\ \A c \in Q("mir_validated", X) : c[1] = "mir_validated"
  BY DEF Cells, Q
<1> QED BY <1>1 DEF Borrow, Read, StepsOf, StepOK

\* make_patches and the optimization passes ask for queries and read
\* mir_validated only.
LEMMA OptimizedMirSteps ==
  ASSUME krate \in Crates, NEW d \in MirKeys
  PROVE  /\ OptimizedMir(d) \in Seq(StepsOf(<<"optimized_mir", d>>))
         /\ Kind(d) # "ctor" =>
              1 \in 1..Len(OptimizedMir(d)) /\ OptimizedMir(d)[1] = Get(Q("mir_borrowck", {d}))
         /\ Kind(d) \in {"fn", "closure"} =>
              2 \in 1..Len(OptimizedMir(d)) /\ OptimizedMir(d)[2] = Get({<<"conflict_analysis">>})
<1> DEFINE S == StepsOf(<<"optimized_mir", d>>)
<1>1. d \in DefIds /\ {d} \subseteq MirKeys /\ {d} \subseteq DefIds
  BY DEF MirKeys
<1>2. CASE Kind(d) = "ctor"
  BY <1>2 DEF OptimizedMir
<1>3. CASE Kind(d) # "ctor"
  <2>1. HasBody(d) /\ {d} \subseteq {e \in DefIds : HasBody(e)}
        /\ {d} \subseteq {e \in DefIds : HasBody(e) \/ e \in Analysed}
    BY <1>1, <1>3 DEF HasBody, MirKeys
  <2> DEFINE s1 == <<Get(Q("mir_borrowck", {d}))>>
             s2 == MakePatches(d)
             s3 == <<Get(Q("mir_validated", {d})), Read(Q("mir_validated", {d}))>>
             s4 == RunOptimizationPasses(d)
  <2>2. s1 \in Seq(S) /\ Len(s1) = 1
    BY <2>1, QueryMembers, GetOK
  <2>3. s2 \in Seq(S)
    <3>1. {<<"conflict_analysis">>} \subseteq Query
      BY DEF Query
    <3>2. Get({<<"conflict_analysis">>}) \in S
      BY <3>1, GetOK
    <3>3. /\ TxBodies \subseteq {e \in DefIds : HasBody(e) \/ e \in Analysed}
          /\ TxBodies \subseteq DefIds
      BY CrateFacts DEF TxBodies
    <3>4. Get(Q("mir_validated", TxBodies)) \in S /\ Read(Q("mir_validated", TxBodies)) \in S
      BY <3>3, QueryMembers, GetOK, ReadOK
    <3>5. \/ s2 = <<>>
          \/ s2 = <<Get({<<"conflict_analysis">>}),
                    Get(Q("mir_validated", TxBodies)), Read(Q("mir_validated", TxBodies))>>
      BY DEF MakePatches
    <3> DEFINE a == Get({<<"conflict_analysis">>})
               b == Get(Q("mir_validated", TxBodies))
               c == Read(Q("mir_validated", TxBodies))
    <3> HIDE DEF s2, S, a, b, c
    <3>6. a \in S /\ b \in S /\ c \in S /\ (s2 = <<>> \/ s2 = <<a, b, c>>)
      BY <3>2, <3>4, <3>5 DEF a, b, c
    <3>7. <<a, b, c>> \in Seq(S) /\ <<>> \in Seq(S)
      BY <3>6
    <3> QED BY <3>6, <3>7
  <2>4. s3 \in Seq(S) /\ Len(s3) = 2
    BY <1>1, <2>1, QueryMembers, GetOK, ReadOK
  <2>5. s4 \in Seq(S)
    <3> DEFINE A == IF krate.inlining THEN Q("optimized_mir", {f \in krate.calls[d] : d < f}) ELSE {}
               B == IF Kind(d) = "const" THEN {}
                    ELSE Q("const_eval", krate.mentions[d]) \cup Q("promoted_mir", {d})
    <3>1. Q("optimized_mir", {f \in krate.calls[d] : d < f}) \subseteq Query
      BY <1>1, CrateFacts, QueryMembers
    <3>2. A \subseteq Query
      BY <3>1
    <3>3. Q("const_eval", krate.mentions[d]) \subseteq Query /\ Q("promoted_mir", {d}) \subseteq Query
      BY <1>1, CrateFacts, QueryMembers
    <3>4. B \subseteq Query
      BY <3>3
    <3> HIDE DEF A, B
    <3>5. Get(A) \in S /\ Get(B) \in S
      BY <3>2, <3>4, GetOK
    <3>6. s4 = <<Get(A), Get(B)>>
      BY DEF RunOptimizationPasses, A, B
    <3> HIDE DEF s4
    <3> QED BY <3>5, <3>6
  <2>6. OptimizedMir(d) = s1 \o s2 \o s3 \o s4
    BY <1>3 DEF OptimizedMir
  <2> HIDE DEF s1, s2, s3, s4, S
  <2>7. s1 \o s2 \in Seq(S) /\ s1 \o s2 \o s3 \in Seq(S) /\ s1 \o s2 \o s3 \o s4 \in Seq(S)
    BY <2>2, <2>3, <2>4, <2>5, ConcatFacts
  <2> DEFINE t == s1 \o s2
             u == t \o s3
             v == u \o s4
  <2>8. /\ t \in Seq(S) /\ u \in Seq(S) /\ v \in Seq(S) /\ OptimizedMir(d) = v
        /\ s1[1] = Get(Q("mir_borrowck", {d}))
    BY <2>6, <2>7 DEF s1
  <2>9. Len(t) = Len(s1) + Len(s2) /\ \A i \in 1..Len(s1) : t[i] = s1[i]
    BY <2>2, <2>3, ConcatFacts
  <2>10. 1 \in 1..Len(s2) => t[Len(s1) + 1] = s2[1]
    BY <2>2, <2>3, ConcatFacts
  <2> HIDE DEF t
  <2>11. Len(u) = Len(t) + Len(s3) /\ \A i \in 1..Len(t) : u[i] = t[i]
    BY <2>4, <2>8, ConcatFacts
  <2> HIDE DEF u
  <2>12. Len(v) = Len(u) + Len(s4) /\ \A i \in 1..Len(u) : v[i] = u[i]
    BY <2>5, <2>8, ConcatFacts
  <2> HIDE DEF v
  <2>13. Len(s2) \in Nat /\ Len(s4) \in Nat
    BY <2>3, <2>5, LenProperties
  <2>14. 1 \in 1..Len(v) /\ v[1] = Get(Q("mir_borrowck", {d}))
    <3>1. 1 \in 1..Len(s1) /\ 1 \in 1..Len(t) /\ 1 \in 1..Len(u) /\ 1 \in 1..Len(v)
      BY <2>2, <2>4, <2>9, <2>11, <2>12, <2>13
    <3> QED BY <2>8, <2>9, <2>11, <2>12, <3>1
  <2>15. ASSUME Kind(d) \in {"fn", "closure"}
         PROVE  2 \in 1..Len(v) /\ v[2] = Get({<<"conflict_analysis">>})
    <3>1. Len(s2) = 3 /\ s2[1] = Get({<<"conflict_analysis">>})
      BY <2>15 DEF s2, MakePatches
    <3>2. 1 \in 1..Len(s2) /\ Len(s1) + 1 = 2
      BY <2>2, <3>1
    <3>3. 2 \in 1..Len(t) /\ 2 \in 1..Len(u) /\ 2 \in 1..Len(v)
      BY <2>2, <2>4, <2>9, <2>11, <2>12, <2>13, <3>1
    <3>4. t[2] = s2[1]
      BY <2>10, <3>2
    <3> QED BY <2>11, <2>12, <3>1, <3>3, <3>4
  <2> QED BY <2>8, <2>14, <2>15 DEF S
<1> QED BY <1>2, <1>3

\* No provider asks for, borrows, steals or stops at anything else.
LEMMA ProviderSteps ==
  ASSUME krate \in Crates, NEW q \in Query
  PROVE  Provider(q) \in Seq(StepsOf(q))
<1> DEFINE S == StepsOf(q)
<1>1. CASE q = <<"driver">>
  <2> DEFINE owners == {d \in MirKeys : Kind(d) # "ctor"}
  <2>1. /\ owners \subseteq {d \in DefIds : HasBody(d)} /\ owners \subseteq DefIds
        /\ {krate.owner[d] : d \in owners} \subseteq Owners
    BY CrateFacts DEF MirKeys, HasBody
  <2> DEFINE B == UNION {krate.built[d] : d \in owners}
  <2>2. /\ Get(Q("typeck_tables_of", {krate.owner[d] : d \in owners}) \cup Q("const_eval", B)) \in S
        /\ Get(Q("mir_borrowck", owners)) \in S
        /\ Get(Q("optimized_mir", MirKeys) \cup Q("promoted_mir", MirKeys)) \in S
    <3>0. B \subseteq {c \in DefIds : Kind(c) = "const"}
      BY <2>1, CrateFacts
    <3> HIDE DEF B
    <3>1. Q("typeck_tables_of", {krate.owner[d] : d \in owners}) \cup Q("const_eval", B) \subseteq Query
      BY <2>1, <3>0, QueryMembers
    <3>2. Q("mir_borrowck", owners) \subseteq Query
      BY <2>1, QueryMembers
    <3>3. Q("optimized_mir", MirKeys) \cup Q("promoted_mir", MirKeys) \subseteq Query
      BY QueryMembers
    <3> QED BY <3>1, <3>2, <3>3, GetOK
  <2>3. Provider(q) = Driver
    BY <1>1 DEF Provider
  <2> QED BY <2>2, <2>3 DEF Driver
<1>2. CASE q = <<"conflict_analysis">>
  <2>1. Provider(q) = <<Get(Q("get_shared_objects", Roots))>>
    BY <1>2 DEF Provider, ConflictAnalysis, Roots
  <2>2. Get(Q("get_shared_objects", Roots)) \in S
    BY QueryMembers, GetOK
  <2> QED BY <2>1, <2>2
<1>3. ASSUME NEW d \in Owners, q = <<"typeck_tables_of", d>> PROVE Provider(q) \in Seq(S)
  <2>1. Provider(q) = <<Get(Q("const_eval", krate.lengths[d]))>>
    BY <1>3 DEF Provider, TypeckTablesOf
  <2> QED BY <2>1, CrateFacts, QueryMembers, GetOK
<1>4. ASSUME NEW d \in DefIds, Kind(d) = "const", q = <<"const_eval", d>> PROVE Provider(q) \in Seq(S)
  <2> DEFINE R == Reachable(krate.calls[d], krate.calls)
             M == UNION {krate.mentions[e] : e \in R \cup {d}}
  <2>1. Provider(q) = <<Get(Q("typeck_tables_of", {d})), Get(Q("optimized_mir", {d})),
                        Get(Q("optimized_mir", R) \cup Q("const_eval", M))>>
    BY <1>4 DEF Provider, ConstEval
  <2>2. {d} \subseteq Owners /\ {d} \subseteq MirKeys
    BY <1>4 DEF MirKeys, Owners
  <2>3. R \subseteq MirKeys
    <3>1. krate.calls[d] \subseteq MirKeys /\ MirKeys \in SUBSET DefIds
          /\ \A e \in DefIds : krate.calls[e] \subseteq MirKeys /\ krate.calls[e] \subseteq DefIds
      BY CrateFacts DEF MirKeys
    <3> QED BY <3>1, ReachableFacts
  <2> HIDE DEF R
  <2>4. M \subseteq {c \in DefIds : Kind(c) = "const"}
    BY <2>3, CrateFacts DEF MirKeys
  <2> HIDE DEF M
  <2>5. Q("optimized_mir", R) \cup Q("const_eval", M) \subseteq Query
    BY <2>3, <2>4, QueryMembers
  <2>6. /\ Get(Q("typeck_tables_of", {d})) \in S /\ Get(Q("optimized_mir", {d})) \in S
        /\ Get(Q("optimized_mir", R) \cup Q("const_eval", M)) \in S
    BY <2>2, <2>5, QueryMembers, GetOK
  <2> QED BY <2>1, <2>6
<1>5. ASSUME NEW d \in DefIds, Kind(d) = "const", q = <<"mir_const_qualif", d>>
      PROVE  Provider(q) \in Seq(S)
  <2>1. Provider(q) = <<Get(Q("mir_const", {d})), Borrow(Q("mir_const", {d})),
                        Get(Q("mir_const_qualif", krate.mentions[d]))>>
    BY <1>5 DEF Provider, MirConstQualif
  <2>2. {d} \subseteq {e \in DefIds : HasBody(e) \/ e \in Analysed}
    BY <1>5 DEF HasBody
  <2>3. Get(Q("mir_const", {d})) \in S /\ Get(Q("mir_const_qualif", krate.mentions[d])) \in S
    BY <2>2, CrateFacts, QueryMembers, GetOK
  <2>4. Borrow(Q("mir_const", {d})) \in S
    BY <1>5 DEF Borrow, StepsOf, StepOK, Q, Cells, Reader
  <2> QED BY <2>1, <2>3, <2>4
<1> DEFINE B == {d \in DefIds : HasBody(d) \/ d \in Analysed}
<1>a. ASSUME NEW d \in DefIds
      PROVE  /\ krate.owner[d] \in Owners
             /\ ClosuresOf(d) \subseteq {e \in DefIds : HasBody(e)}
             /\ krate.built[d] \subseteq {e \in DefIds : Kind(e) = "const"}
             /\ krate.mentions[d] \subseteq {e \in DefIds : Kind(e) = "const"}
  BY CrateFacts DEF ClosuresOf, HasBody
<1>6. ASSUME NEW d \in B, q = <<"mir_built", d>> PROVE Provider(q) \in Seq(S)
  <2>1. Provider(q) = MirBuilt(d)
    BY <1>6 DEF Provider
  <2>2. CASE Kind(d) \in {"ctor", "bodyless"}
    <3>1. TracesBodyless
      BY <2>2 DEF TracesBodyless, HasBody
    <3>2. Bug \in S
      BY <3>1 DEF Bug, StepsOf, StepOK
    <3> QED BY <2>1, <2>2, <3>2 DEF MirBuilt, LowerPath
  <2>3. CASE Kind(d) \notin {"ctor", "bodyless"}
    <3>1. Get(Q("typeck_tables_of", {krate.owner[d]})) \in S /\ Get(Q("const_eval", krate.built[d])) \in S
      BY <1>a, QueryMembers, GetOK
    <3> QED BY <2>1, <2>3, <3>1 DEF MirBuilt, LowerPath
  <2> QED BY <2>2, <2>3
<1>7. ASSUME NEW d \in B, q = <<"unsafety_check_result", d>> PROVE Provider(q) \in Seq(S)
  <2>1. Provider(q) = <<Get(Q("mir_built", {d})), Borrow(Q("mir_built", {d})),
                        Get(Q("unsafety_check_result", ClosuresOf(d)))>>
    BY <1>7 DEF Provider, UnsafetyCheckResult
  <2>2. {d} \subseteq B /\ ClosuresOf(d) \subseteq B
    BY <1>a
  <2>3. Get(Q("mir_built", {d})) \in S /\ Get(Q("unsafety_check_result", ClosuresOf(d))) \in S
    BY <2>2, QueryMembers, GetOK
  <2>4. Borrow(Q("mir_built", {d})) \in S
    BY <1>7 DEF Borrow, StepsOf, StepOK, Q, Cells, Reader
  <2> QED BY <2>1, <2>3, <2>4
<1>8. ASSUME NEW d \in B, q = <<"mir_const", d>> PROVE Provider(q) \in Seq(S)
  <2>1. Provider(q) = <<Get(Q("unsafety_check_result", {d})), Get(Q("mir_built", {d})),
                        Steal(<<"mir_built", d>>)>>
    BY <1>8 DEF Provider, MirConst
  <2>2. Get(Q("unsafety_check_result", {d})) \in S /\ Get(Q("mir_built", {d})) \in S
    BY QueryMembers, GetOK
  <2>3. Steal(<<"mir_built", d>>) \in S
    BY <1>8 DEF Steal, StepsOf, StepOK, Cells, Thief
  <2> QED BY <2>1, <2>2, <2>3
<1>9. ASSUME NEW d \in B, q = <<"mir_validated", d>> PROVE Provider(q) \in Seq(S)
  <2> DEFINE A == IF Kind(d) = "const" THEN Q("mir_const_qualif", {d}) ELSE {}
  <2>1. Provider(q) = <<Get(A), Get(Q("mir_const", {d})), Steal(<<"mir_const", d>>),
                        Get(Q("mir_const_qualif", krate.mentions[d]))>>
    BY <1>9 DEF Provider, MirValidated
  <2>2. A \subseteq Query
    <3>1. Kind(d) = "const" => Q("mir_const_qualif", {d}) \subseteq Query
      BY QueryMembers
    <3> QED BY <3>1
  <2> HIDE DEF A
  <2>3. Get(A) \in S /\ Get(Q("mir_const", {d})) \in S
        /\ Get(Q("mir_const_qualif", krate.mentions[d])) \in S
    BY <1>a, <2>2, QueryMembers, GetOK
  <2>4. Steal(<<"mir_const", d>>) \in S
    BY <1>9 DEF Steal, StepsOf, StepOK, Cells, Thief
  <2> QED BY <2>1, <2>3, <2>4
<1>10. ASSUME NEW d \in DefIds, HasBody(d), q = <<"mir_borrowck", d>> PROVE Provider(q) \in Seq(S)
  <2>1. Provider(q) = <<Get(Q("mir_validated", {d})),
                        Borrow({<<"mir_validated", d>>, <<"promoted", d>>}),
                        Get(Q("mir_borrowck", ClosuresOf(d)))>>
    BY <1>10 DEF Provider, MirBorrowck
  <2>2. Get(Q("mir_validated", {d})) \in S /\ Get(Q("mir_borrowck", ClosuresOf(d))) \in S
    BY <1>10, <1>a, QueryMembers, GetOK
  <2>3. Borrow({<<"mir_validated", d>>, <<"promoted", d>>}) \in S
    BY <1>10 DEF Borrow, StepsOf, StepOK, Cells, Reader
  <2> QED BY <2>1, <2>2, <2>3
<1>11. ASSUME NEW d \in Roots, q = <<"get_shared_objects", d>> PROVE Provider(q) \in Seq(S)
  <2> DEFINE C == Reachable(krate.traces[d], krate.traces)
  <2>1. Provider(q) = <<Get(Q("mir_validated", {d})), Borrow(Q("mir_validated", {d})),
                        Get(Q("mir_validated", C)), Borrow(Q("mir_validated", C))>>
    BY <1>11 DEF Provider, GetSharedObjects
  <2>2. {d} \subseteq B /\ C \subseteq B /\ {d} \subseteq DefIds /\ C \subseteq DefIds
    BY AnalysedFacts
  <2> HIDE DEF C
  <2>3. Get(Q("mir_validated", {d})) \in S /\ Get(Q("mir_validated", C)) \in S
    BY <2>2, QueryMembers, GetOK
  <2>4. Borrow(Q("mir_validated", {d})) \in S /\ Borrow(Q("mir_validated", C)) \in S
    BY <2>2, ReadOK
  <2> QED BY <2>1, <2>3, <2>4
<1>12. ASSUME NEW d \in MirKeys, q = <<"optimized_mir", d>> PROVE Provider(q) \in Seq(S)
  BY <1>12, OptimizedMirSteps DEF Provider
<1>13. ASSUME NEW d \in MirKeys, q = <<"promoted_mir", d>> PROVE Provider(q) \in Seq(S)
  <2>1. Provider(q) = PromotedMir(d)
    BY <1>13 DEF Provider
  <2>2. CASE Kind(d) = "ctor"
    BY <2>1, <2>2 DEF PromotedMir
  <2>3. CASE Kind(d) # "ctor"
    <3>1. d \in DefIds /\ HasBody(d)
      BY <2>3 DEF MirKeys, HasBody
    <3>2. Get(Q("mir_borrowck", {d})) \in S /\ Get(Q("mir_validated", {d})) \in S
      BY <3>1, QueryMembers, GetOK
    <3>3. Steal(<<"promoted", d>>) \in S
      BY <1>13, <3>1 DEF Steal, StepsOf, StepOK, Cells, Thief
    <3> QED BY <2>1, <2>3, <3>2, <3>3 DEF PromotedMir
  <2> QED BY <2>2, <2>3
<1> QED BY <1>1, <1>2, <1>3, <1>4, <1>5, <1>6, <1>7, <1>8, <1>9, <1>10, <1>11, <1>12, <1>13
        DEF Query, Q

\* A provider takes a value once, and after it asked for the query that
\* borrows the value.
LEMMA StealOrder ==
  ASSUME krate \in Crates, NEW q \in Query, NEW i \in 1..Len(Provider(q)),
         Provider(q)[i].op = "steal", NEW c \in Provider(q)[i].args
  PROVE  /\ c \in Cells /\ c[1] # "mir_validated" /\ q = Thief(c)
         /\ \A k \in 1..Len(Provider(q)) : Provider(q)[k].op = "steal" => k = i
         /\ Reader(c) \in Query =>
              \E k \in 1..(i - 1) : Provider(q)[k].op = "get" /\ Reader(c) \in Provider(q)[k].args
<1>1. c \in Cells /\ c[1] # "mir_validated" /\ q = Thief(c)
  <2>1. Provider(q) \in Seq(StepsOf(q))
    BY ProviderSteps
  <2>2. Provider(q)[i] \in StepsOf(q)
    BY <2>1, ElementOfSeq
  <2> QED BY <2>2 DEF StepsOf, StepOK
<1>2. PICK d \in DefIds : c \in {<<"mir_built", d>>, <<"mir_const", d>>, <<"promoted", d>>}
  BY <1>1 DEF Cells
<1>3. CASE c = <<"mir_built", d>>
  <2>1. Provider(q) = <<Get(Q("unsafety_check_result", {d})), Get(Q("mir_built", {d})),
                        Steal(<<"mir_built", d>>)>>
    BY <1>1, <1>3 DEF Thief, Provider, MirConst
  <2>2. Reader(c) = <<"unsafety_check_result", d>>
    BY <1>3 DEF Reader
  <2>3. i = 3 /\ \A k \in 1..Len(Provider(q)) : Provider(q)[k].op = "steal" => k = 3
    BY <2>1 DEF Get, Steal
  <2>4. 1 \in 1..(i - 1) /\ Provider(q)[1].op = "get" /\ Reader(c) \in Provider(q)[1].args
    BY <2>1, <2>2, <2>3 DEF Get, Q
  <2> QED BY <1>1, <2>3, <2>4
<1>4. CASE c = <<"mir_const", d>>
  <2> DEFINE A == IF Kind(d) = "const" THEN Q("mir_const_qualif", {d}) ELSE {}
  <2>1. Provider(q) = <<Get(A), Get(Q("mir_const", {d})), Steal(<<"mir_const", d>>),
                        Get(Q("mir_const_qualif", krate.mentions[d]))>>
    BY <1>1, <1>4 DEF Thief, Provider, MirValidated
  <2>2. Reader(c) = <<"mir_const_qualif", d>>
    BY <1>4 DEF Reader
  <2>3. i = 3 /\ \A k \in 1..Len(Provider(q)) : Provider(q)[k].op = "steal" => k = 3
    BY <2>1 DEF Get, Steal
  <2>4. ASSUME Reader(c) \in Query
        PROVE  1 \in 1..(i - 1) /\ Provider(q)[1].op = "get" /\ Reader(c) \in Provider(q)[1].args
    <3>1. Kind(d) = "const"
      BY <2>2, <2>4 DEF Query, Q
    <3>2. Reader(c) \in A
      BY <2>2, <3>1 DEF Q
    <3> HIDE DEF A
    <3> QED BY <2>1, <2>3, <3>2 DEF Get
  <2> QED BY <1>1, <2>3, <2>4
<1>5. CASE c = <<"promoted", d>>
  <2>1. q = <<"promoted_mir", d>> /\ Provider(q) = PromotedMir(d)
    BY <1>1, <1>5 DEF Thief, Provider
  <2>2. Kind(d) # "ctor"
    BY <2>1 DEF PromotedMir
  <2>3. Provider(q) = <<Get(Q("mir_borrowck", {d})), Get(Q("mir_validated", {d})), Steal(<<"promoted", d>>)>>
    BY <2>1, <2>2 DEF PromotedMir
  <2>4. Reader(c) = <<"mir_borrowck", d>>
    BY <1>5 DEF Reader
  <2>5. i = 3 /\ \A k \in 1..Len(Provider(q)) : Provider(q)[k].op = "steal" => k = 3
    BY <2>3 DEF Get, Steal
  <2>6. 1 \in 1..(i - 1) /\ Provider(q)[1].op = "get" /\ Reader(c) \in Provider(q)[1].args
    BY <2>3, <2>4, <2>5 DEF Get, Q
  <2> QED BY <1>1, <2>5, <2>6
<1> QED BY <1>2, <1>3, <1>4, <1>5

-----------------------------------------------------------------------------
(* Running providers.  What follows is constant while the compiler runs:    *)
(* functions and sets, so that the engine's invariant need not look into    *)
(* the providers.                                                           *)

FrameOK(f) ==
  /\ f.step <= Len(Provider(f.query)) + 1
  /\ f.todo \subseteq Args(f.query, f.step)
  /\ \A k \in 1..Len(Provider(f.query)) : Provider(f.query)[k].op = "bug" =>
       f.step <= k /\ (f.step = k => f.todo # {})
  /\ \A c \in f.borrowed : c[1] # "mir_validated" => f.query = Reader(c)

Frames ==
  {f \in [query : Query, step : Nat \ {0},
          todo : SUBSET (Query \cup Cells \cup {"bug"}), borrowed : SUBSET Cells] : FrameOK(f)}

\* Step k of the provider is behind f, for this argument; or it is not.
Past(f, k, x) == k < f.step \/ (k = f.step /\ x \notin f.todo)

\* What a running provider has asked for, and what it has still to steal.
AskedBy ==
  [f \in Frames |-> {x \in Query : \E k \in 1..Len(Provider(f.query)) :
     Provider(f.query)[k].op = "get" /\ x \in Provider(f.query)[k].args /\ Past(f, k, x)}]
Pending ==
  [f \in Frames |-> {c \in Cells : \E k \in 1..Len(Provider(f.query)) :
     Provider(f.query)[k].op = "steal" /\ c \in Provider(f.query)[k].args /\ ~Past(f, k, c)}]

\* What a provider asks for before it returns, and those that never return.
Dependencies == [q \in Query |-> {x \in Query : Asks(q, x)}]
Failing == {q \in Query : \E k \in 1..Len(Provider(q)) : Provider(q)[k].op = "bug"}

\* The crate does not change, nor does anything that is computed from it.
LEMMA CrateFixed ==
  ASSUME krate' = krate
  PROVE  /\ Query' = Query /\ Cells' = Cells /\ Frames' = Frames
         /\ AskedBy' = AskedBy /\ Pending' = Pending
         /\ Dependencies' = Dependencies /\ Failing' = Failing
         /\ (TracesBodyless' <=> TracesBodyless) /\ (MirNeedsConstFn' <=> MirNeedsConstFn)
<1>1. /\ DefIds' = DefIds /\ Cells' = Cells /\ MirKeys' = MirKeys /\ Roots' = Roots
      /\ Analysed' = Analysed
  BY DEF DefIds, Cells, MirKeys, Kind, Roots, IsConstFn, Analysed, Reachable
<1>2. Query' = Query
  BY DEF Query, Q, DefIds, MirKeys, Kind, Roots, Owners, IsConstFn, Analysed, Reachable, HasBody
<1>3. \A q : Provider(q)' = Provider(q)
  BY DEF Provider, Driver, TypeckTablesOf, ConstEval, MirBuilt, LowerPath, UnsafetyCheckResult, MirConst,
         MirConstQualif, MirValidated, MirBorrowck, GetSharedObjects, ConflictAnalysis,
         OptimizedMir, PromotedMir, MakePatches, RunOptimizationPasses, Get, Borrow, Read, Steal,
         Bug, Q, MirKeys, DefIds, Kind, IsConstFn, ClosuresOf, Reachable, TxBodies, Analysed
<1>4. \A f : FrameOK(f)' <=> FrameOK(f)
  BY <1>3 DEF FrameOK, Args, Reader
<1>5. Frames' = Frames
  BY <1>1, <1>2, <1>4 DEF Frames
<1>6. AskedBy' = AskedBy
  BY <1>2, <1>3, <1>5 DEF AskedBy, Past
<1>7. Pending' = Pending
  BY <1>1, <1>3, <1>5 DEF Pending, Past
<1>8. Dependencies' = Dependencies /\ Failing' = Failing
  BY <1>2, <1>3 DEF Dependencies, Asks, Failing
<1>9. TracesBodyless' <=> TracesBodyless
  BY DEF TracesBodyless, Analysed, DefIds, MirKeys, Kind, IsConstFn, Reachable
<1>10. MirNeedsConstFn' <=> MirNeedsConstFn
  BY DEF MirNeedsConstFn, NeedsConstFn, Needed, BuiltWith, Analysed, DefIds, MirKeys, Kind, IsConstFn, Reachable
<1> QED BY <1>1, <1>2, <1>5, <1>6, <1>7, <1>8, <1>9, <1>10

\* The steps of the provider of a running query.
LEMMA FrameFacts ==
  ASSUME krate \in Crates, NEW f \in Frames
  PROVE  /\ f.query \in Query /\ f.step \in Nat \ {0} /\ FrameOK(f)
         /\ f.borrowed \subseteq Cells
         /\ Len(Provider(f.query)) \in Nat
         /\ \A k \in 1..Len(Provider(f.query)) : Provider(f.query)[k] \in StepsOf(f.query)
         /\ \A c \in Pending[f] : c \in Cells /\ c[1] # "mir_validated" /\ f.query = Thief(c)
<1>1. f.query \in Query /\ f.step \in Nat \ {0} /\ FrameOK(f) /\ f.borrowed \subseteq Cells
  BY DEF Frames
<1>2. Provider(f.query) \in Seq(StepsOf(f.query))
  BY <1>1, ProviderSteps
<1>3. /\ Len(Provider(f.query)) \in Nat
      /\ \A k \in 1..Len(Provider(f.query)) : Provider(f.query)[k] \in StepsOf(f.query)
  BY <1>2, LenProperties, ElementOfSeq
<1>4. \A c \in Pending[f] : c \in Cells /\ c[1] # "mir_validated" /\ f.query = Thief(c)
  BY <1>3 DEF Pending, StepsOf, StepOK
<1> QED BY <1>1, <1>3, <1>4

\* The fields of a provider that is done with one argument.
LEMMA DoneFrame ==
  ASSUME NEW f \in Frames, NEW x
  PROVE  [f EXCEPT !.todo = @ \ {x}] =
           [query |-> f.query, step |-> f.step, todo |-> f.todo \ {x}, borrowed |-> f.borrowed]
<1> DEFINE W == SUBSET (Query \cup Cells \cup {"bug"})
           N == Nat \ {0}
           C == SUBSET Cells
<1>1. f \in [query : Query, step : N, todo : W, borrowed : C]
  BY DEF Frames
<1> HIDE DEF W, N, C
<1> QED BY <1>1

\* A provider that is started has asked for nothing.
LEMMA JobFacts ==
  ASSUME krate \in Crates, NEW q \in Query
  PROVE  /\ Job(q) \in Frames /\ Job(q).query = q /\ Job(q).borrowed = {}
         /\ AskedBy[Job(q)] = {}
<1>1. Provider(q) \in Seq(StepsOf(q))
  BY ProviderSteps
<1>2. /\ Len(Provider(q)) \in Nat
      /\ \A k \in 1..Len(Provider(q)) : Provider(q)[k] \in StepsOf(q)
  BY <1>1, LenProperties, ElementOfSeq
<1>3. Args(q, 1) \subseteq Query \cup Cells \cup {"bug"}
  BY <1>2 DEF Args, StepsOf
<1>4. FrameOK(Job(q))
  BY <1>2 DEF FrameOK, Job, Args, StepsOf, StepOK
<1>5. Job(q) \in Frames /\ Job(q).query = q /\ Job(q).borrowed = {}
  BY <1>3, <1>4 DEF Frames, Job
<1>6. AskedBy[Job(q)] = {}
  BY <1>2, <1>5 DEF AskedBy, Past, Job, Args
<1> QED BY <1>5, <1>6

\* A provider that is done with one argument of a step.
LEMMA DoneFacts ==
  ASSUME krate \in Crates, NEW f \in Frames, f.step <= Len(Provider(f.query)),
         NEW x \in f.todo, Provider(f.query)[f.step].op # "bug",
         NEW g, g = [query |-> f.query, step |-> f.step, todo |-> f.todo \ {x},
                     borrowed |-> f.borrowed]
  PROVE  /\ g \in Frames /\ g.query = f.query /\ g.borrowed = f.borrowed
         /\ AskedBy[g] \subseteq AskedBy[f] \cup {x}
         /\ Provider(f.query)[f.step].op # "get" => AskedBy[g] \subseteq AskedBy[f]
         /\ Pending[g] \subseteq Pending[f]
         /\ Provider(f.query)[f.step].op = "steal" => x \notin Pending[g]
<1>1. /\ f.query \in Query /\ f.step \in Nat \ {0} /\ FrameOK(f)
      /\ f.step \in 1..Len(Provider(f.query))
  BY FrameFacts
<1>2. g \in [query : Query, step : Nat \ {0},
             todo : SUBSET (Query \cup Cells \cup {"bug"}), borrowed : SUBSET Cells]
  BY DEF Frames
<1>3. g.query = f.query /\ g.step = f.step /\ g.borrowed = f.borrowed /\ g.todo = f.todo \ {x}
  BY DEF Frames
<1>4. FrameOK(g)
  BY <1>1, <1>3 DEF FrameOK
<1>5. g \in Frames
  BY <1>2, <1>4 DEF Frames
<1>6. /\ AskedBy[g] \subseteq AskedBy[f] \cup {x}
      /\ Provider(f.query)[f.step].op # "get" => AskedBy[g] \subseteq AskedBy[f]
  BY <1>1, <1>3, <1>5 DEF AskedBy, Past
<1>7. Pending[g] \subseteq Pending[f]
  BY <1>1, <1>3, <1>5 DEF Pending, Past
<1>8. ASSUME Provider(f.query)[f.step].op = "steal" PROVE x \notin Pending[g]
  <2>1. x \in Provider(f.query)[f.step].args
    BY <1>1 DEF FrameOK, Args
  <2>2. \A k \in 1..Len(Provider(f.query)) : Provider(f.query)[k].op = "steal" => k = f.step
    BY <1>1, <1>8, <2>1, StealOrder
  <2> QED BY <1>1, <1>3, <1>5, <2>2 DEF Pending, Past
<1> QED BY <1>3, <1>5, <1>6, <1>7, <1>8

\* A provider that goes on to its next step.
LEMMA NextFacts ==
  ASSUME krate \in Crates, NEW f \in Frames, f.step <= Len(Provider(f.query)), f.todo = {},
         NEW g, g = [f EXCEPT !.step = @ + 1, !.todo = Args(f.query, f.step + 1)]
  PROVE  /\ g \in Frames /\ g.query = f.query /\ g.borrowed = f.borrowed
         /\ AskedBy[g] \subseteq AskedBy[f]
         /\ Pending[g] \subseteq Pending[f]
<1>1. /\ f.query \in Query /\ f.step \in Nat \ {0} /\ FrameOK(f)
      /\ f.step \in 1..Len(Provider(f.query)) /\ Len(Provider(f.query)) \in Nat
      /\ \A k \in 1..Len(Provider(f.query)) : Provider(f.query)[k] \in StepsOf(f.query)
  BY FrameFacts
<1>2. Args(f.query, f.step + 1) \subseteq Query \cup Cells \cup {"bug"}
  BY <1>1 DEF Args, StepsOf
<1> DEFINE T == Args(f.query, f.step + 1)
           W == Query \cup Cells \cup {"bug"}
<1>3. /\ g \in [query : Query, step : Nat \ {0}, todo : SUBSET W, borrowed : SUBSET Cells]
      /\ g.query = f.query /\ g.step = f.step + 1 /\ g.borrowed = f.borrowed /\ g.todo = T
  <2>1. f \in [query : Query, step : Nat \ {0}, todo : SUBSET W, borrowed : SUBSET Cells]
    BY DEF Frames
  <2>2. T \in SUBSET W /\ f.step + 1 \in Nat \ {0} /\ g = [f EXCEPT !.step = @ + 1, !.todo = T]
    BY <1>1, <1>2
  <2> HIDE DEF T, W
  <2> QED BY <2>1, <2>2
<1>4. FrameOK(g)
  <2>1. g.step <= Len(Provider(g.query)) + 1 /\ g.todo \subseteq Args(g.query, g.step)
    BY <1>1, <1>3
  <2>2. ASSUME NEW k \in 1..Len(Provider(f.query)), Provider(f.query)[k].op = "bug"
        PROVE  g.step <= k /\ (g.step = k => g.todo # {})
    <3>1. f.step <= k /\ f.step # k
      BY <1>1, <2>2 DEF FrameOK
    <3>2. Provider(f.query)[k].args # {}
      BY <1>1, <2>2 DEF StepsOf, StepOK
    <3> QED BY <1>1, <1>3, <3>1, <3>2 DEF Args
  <2> QED BY <1>1, <1>3, <2>1, <2>2 DEF FrameOK
<1>5. g \in Frames
  BY <1>3, <1>4 DEF Frames
<1>6. ASSUME NEW k \in 1..Len(Provider(f.query)), NEW x \in Provider(f.query)[k].args
      PROVE  Past(g, k, x) <=> Past(f, k, x)
  <2>1. k = f.step + 1 => x \in T
    BY DEF Args
  <2>2. g.step = f.step + 1 /\ g.todo = T /\ f.todo = {}
    BY <1>3
  <2> HIDE DEF T
  <2> QED BY <1>1, <2>1, <2>2 DEF Past
<1>7. AskedBy[g] \subseteq AskedBy[f]
  BY <1>3, <1>5, <1>6 DEF AskedBy
<1>8. Pending[g] \subseteq Pending[f]
  BY <1>3, <1>5, <1>6 DEF Pending
<1> QED BY <1>3, <1>5, <1>7, <1>8

\* A provider that borrows a value is the one that reads it.
LEMMA BorrowCell ==
  ASSUME krate \in Crates, NEW f \in Frames, f.step <= Len(Provider(f.query)), NEW c \in f.todo,
         Provider(f.query)[f.step].op \in {"borrow", "read"}
  PROVE  c \in Cells /\ (c[1] # "mir_validated" => f.query = Reader(c))
<1>1. /\ f.query \in Query /\ f.step \in Nat \ {0} /\ FrameOK(f)
      /\ f.step \in 1..Len(Provider(f.query))
      /\ Provider(f.query)[f.step] \in StepsOf(f.query)
  BY FrameFacts
<1> QED BY <1>1 DEF FrameOK, Args, StepsOf, StepOK

\* A provider that borrows a value goes on as if it had not.
LEMMA BorrowFacts ==
  ASSUME krate \in Crates, NEW f \in Frames, f.step <= Len(Provider(f.query)), NEW c \in f.todo,
         Provider(f.query)[f.step].op \in {"borrow", "read"},
         NEW B, B \subseteq f.borrowed \cup {c},
         NEW g, g = [query |-> f.query, step |-> f.step, todo |-> f.todo \ {c}, borrowed |-> B]
  PROVE  /\ g \in Frames /\ g.query = f.query
         /\ AskedBy[g] \subseteq AskedBy[f]
         /\ Pending[g] \subseteq Pending[f]
<1>1. /\ f.query \in Query /\ f.step \in Nat \ {0} /\ FrameOK(f)
      /\ f.step \in 1..Len(Provider(f.query))
  BY FrameFacts
<1>2. c \in Cells /\ (c[1] # "mir_validated" => f.query = Reader(c))
  BY BorrowCell
<1>3. /\ g \in [query : Query, step : Nat \ {0},
                todo : SUBSET (Query \cup Cells \cup {"bug"}), borrowed : SUBSET Cells]
      /\ g.query = f.query /\ g.step = f.step /\ g.borrowed = B
      /\ g.todo = f.todo \ {c}
  BY <1>2 DEF Frames
<1>4. FrameOK(g)
  BY <1>1, <1>2, <1>3 DEF FrameOK
<1>5. g \in Frames
  BY <1>3, <1>4 DEF Frames
<1>6. AskedBy[g] \subseteq AskedBy[f]
  BY <1>1, <1>3, <1>5 DEF AskedBy, Past
<1>7. Pending[g] \subseteq Pending[f]
  BY <1>1, <1>3, <1>5 DEF Pending, Past
<1> QED BY <1>3, <1>5, <1>6, <1>7

\* A provider that takes a value.
LEMMA StealFacts ==
  ASSUME krate \in Crates, NEW f \in Frames, f.step <= Len(Provider(f.query)), NEW c \in f.todo,
         Provider(f.query)[f.step].op = "steal"
  PROVE  /\ c \in Pending[f]
         /\ Reader(c) \in Query => Reader(c) \in AskedBy[f]
<1>1. /\ f.query \in Query /\ f.step \in Nat \ {0} /\ FrameOK(f)
      /\ f.step \in 1..Len(Provider(f.query))
  BY FrameFacts
<1>2. c \in Provider(f.query)[f.step].args
  BY <1>1 DEF FrameOK, Args
<1>3. /\ c \in Cells
      /\ Reader(c) \in Query => \E k \in 1..(f.step - 1) :
           Provider(f.query)[k].op = "get" /\ Reader(c) \in Provider(f.query)[k].args
  BY <1>1, <1>2, StealOrder
<1> QED BY <1>1, <1>2, <1>3 DEF Pending, AskedBy, Past

\* A provider that returns has asked for everything, and has met no bug.
LEMMA ReturnFacts ==
  ASSUME krate \in Crates, NEW f \in Frames, f.step > Len(Provider(f.query))
  PROVE  Dependencies[f.query] \subseteq AskedBy[f] /\ f.query \notin Failing
<1>1. f.query \in Query /\ f.step \in Nat \ {0} /\ FrameOK(f) /\ Len(Provider(f.query)) \in Nat
  BY FrameFacts
<1>2. Dependencies[f.query] \subseteq AskedBy[f]
  BY <1>1 DEF Dependencies, Asks, AskedBy, Past
<1>3. f.query \notin Failing
  BY <1>1 DEF FrameOK, Failing
<1> QED BY <1>2, <1>3

-----------------------------------------------------------------------------
(* The engine's invariant.                                                  *)

Shape ==
  /\ krate \in Crates
  /\ stack \in Seq(Frames)
  /\ results \subseteq Query /\ poisoned \subseteq Query
  /\ stolen \subseteq Cells
  /\ failure \in {"no", "cycle", "stolen", "locked", "bug"}

\* The running providers are those on the stack, each once.
ActiveInv ==
  /\ active = {stack[i].query : i \in 1..Len(stack)}
  /\ \A i, j \in 1..Len(stack) : stack[i].query = stack[j].query => i = j
  /\ results \cap active = {} /\ poisoned \cap active = {}
  /\ failure = "no" => poisoned = {}

\* What was asked for is answered, or it is what the provider is waiting for.
AskedInv ==
  failure = "no" =>
    \A i \in 1..Len(stack) : \A x \in AskedBy[stack[i]] :
      x \in results \/ (i < Len(stack) /\ x = stack[i + 1].query)

\* What an answered query has asked for is answered, and it met no bug.
AnsweredInv ==
  \A q \in results : Dependencies[q] \subseteq results /\ q \notin Failing

\* Whoever took a value was the one to take it, and its reader is answered.
StealInv ==
  failure = "no" =>
    /\ \A c \in stolen :
         /\ c[1] # "mir_validated"
         /\ Reader(c) \in Query => Reader(c) \in results
         /\ Thief(c) \in results \cup active
    /\ \A i \in 1..Len(stack) : Pending[stack[i]] \cap stolen = {}

\* The compiler stops at a cycle or a bug only.
FailureInv ==
  failure \notin {"stolen", "locked"} /\ (failure = "bug" => TracesBodyless)

\* The analysis of a crate whose bodies need a const fn to be built does not return.
ConflictInv == <<"conflict_analysis">> \in results => ~MirNeedsConstFn

EngineInv ==
  Shape /\ ActiveInv /\ AskedInv /\ AnsweredInv /\ StealInv /\ FailureInv /\ ConflictInv

\* The innermost provider.
LEMMA TopFacts ==
  ASSUME Shape, stack # <<>>
  PROVE  /\ Len(stack) \in Nat \ {0} /\ Top = stack[Len(stack)] /\ Top \in Frames
         /\ \A i \in 1..Len(stack) : stack[i] \in Frames
<1>1. stack \in Seq(Frames)
  BY DEF Shape
<1> QED BY <1>1, FrontFacts, ElementOfSeq DEF Top

\* A step of the innermost provider, that starts and ends nothing.
LEMMA ReplaceTop ==
  ASSUME EngineInv, stack # <<>>, failure = "no", NEW g \in Frames, g.query = Top.query,
         stack' = Append(Front(stack), g), failure' = "no",
         UNCHANGED <<krate, results, active, poisoned>>,
         AskedBy[g] \subseteq AskedBy[Top] \cup results,
         stolen' \subseteq Cells,
         \A c \in stolen' : /\ c[1] # "mir_validated"
                            /\ Reader(c) \in Query => Reader(c) \in results
                            /\ Thief(c) \in results \cup active,
         Pending[g] \cap stolen' = {},
         \A i \in 1..(Len(stack) - 1) : Pending[stack[i]] \cap stolen' = {}
  PROVE  EngineInv'
<1> USE CrateFixed
<1> DEFINE n == Len(stack)
<1>1. Shape /\ ActiveInv /\ AskedInv /\ AnsweredInv /\ ConflictInv
  BY DEF EngineInv
<1>2. n \in Nat \ {0} /\ Top = stack[n]
  BY <1>1, TopFacts
<1>3. /\ stack' \in Seq(Frames) /\ Len(stack') = n
      /\ \A i \in 1..(n - 1) : stack'[i] = stack[i]
      /\ stack'[n] = g
  BY <1>1, ReplaceLastFacts DEF Shape
<1> HIDE DEF n
<1>4. \A i \in 1..n : i \in 1..(n - 1) \/ i = n
  BY <1>2
<1>5. Shape'
  BY <1>1, <1>3 DEF Shape
<1>6. \A i \in 1..n : stack'[i].query = stack[i].query
  BY <1>2, <1>3, <1>4
<1>7. ActiveInv'
  <2>1. /\ active = {stack[i].query : i \in 1..n}
        /\ \A i, j \in 1..n : stack[i].query = stack[j].query => i = j
        /\ results \cap active = {} /\ poisoned \cap active = {}
        /\ failure = "no" => poisoned = {}
    BY <1>1 DEF ActiveInv, n
  <2>2. {stack'[i].query : i \in 1..n} = {stack[i].query : i \in 1..n}
    BY <1>6
  <2>3. ASSUME NEW i \in 1..n, NEW j \in 1..n, stack'[i].query = stack'[j].query PROVE i = j
    <3>1. stack'[i].query = stack[i].query /\ stack'[j].query = stack[j].query
      BY <1>6
    <3> QED BY <2>1, <2>3, <3>1
  <2> QED BY <1>3, <2>1, <2>2, <2>3 DEF ActiveInv
<1>8. AskedInv'
  <2>1. ASSUME NEW i \in 1..n, NEW x \in AskedBy[stack'[i]]
        PROVE  x \in results \/ (i < n /\ x = stack'[i + 1].query)
    <3>1. CASE i \in 1..(n - 1)
      <4>1. i + 1 \in 1..n /\ x \in AskedBy[stack[i]] /\ i < n
        BY <1>2, <1>3, <2>1, <3>1
      <4>2. x \in results \/ (i < n /\ x = stack[i + 1].query)
        BY <1>1, <4>1 DEF AskedInv, n
      <4> QED BY <1>6, <4>1, <4>2
    <3>2. CASE i = n
      <4>1. x \in AskedBy[stack[n]] \cup results
        BY <1>2, <1>3, <2>1, <3>2
      <4>2. ~(n < n) /\ n \in 1..n
        BY <1>2
      <4> QED BY <1>1, <4>1, <4>2 DEF AskedInv, n
    <3> QED BY <1>4, <3>1, <3>2
  <2> QED BY <1>3, <2>1 DEF AskedInv
<1>9. AnsweredInv' /\ ConflictInv' /\ FailureInv'
  BY <1>1 DEF AnsweredInv, ConflictInv, FailureInv
<1>10. StealInv'
  <2>1. \A i \in 1..n : Pending[stack'[i]] \cap stolen' = {}
    BY <1>3, <1>4 DEF n
  <2> QED BY <1>3, <2>1 DEF StealInv, Reader, Thief
<1> QED BY <1>5, <1>7, <1>8, <1>9, <1>10 DEF EngineInv

\* Nothing was pending that has been stolen.
LEMMA StealInvFacts ==
  ASSUME EngineInv, failure = "no"
  PROVE  /\ \A c \in stolen : /\ c[1] # "mir_validated"
                              /\ Reader(c) \in Query => Reader(c) \in results
                              /\ Thief(c) \in results \cup active
         /\ \A i \in 1..Len(stack) : Pending[stack[i]] \cap stolen = {}
         /\ stolen \subseteq Cells
BY DEF EngineInv, StealInv, Shape

\* What the innermost provider has asked for is answered.
LEMMA TopAsked ==
  ASSUME EngineInv, failure = "no", stack # <<>>
  PROVE  AskedBy[Top] \subseteq results /\ Top.query \in active /\ Top.query \notin results
<1>1. Len(stack) \in Nat \ {0} /\ Top = stack[Len(stack)]
  BY TopFacts DEF EngineInv
<1>2. Len(stack) \in 1..Len(stack) /\ ~(Len(stack) < Len(stack))
  BY <1>1
<1>3. AskedBy[Top] \subseteq results
  BY <1>1, <1>2 DEF EngineInv, AskedInv
<1> QED BY <1>1, <1>2, <1>3 DEF EngineInv, ActiveInv

\* The innermost provider goes on to its next step.
LEMMA NextStepKeeps ==
  ASSUME EngineInv, NextStep
  PROVE  EngineInv'
<1>1. /\ failure = "no" /\ stack # <<>> /\ ~(Top.step > Len(Provider(Top.query))) /\ Top.todo = {}
      /\ krate \in Crates /\ Shape
  BY DEF NextStep, Running, Returns, EngineInv, Shape
<1>2. /\ Len(stack) \in Nat \ {0} /\ Top = stack[Len(stack)] /\ Top \in Frames
      /\ Len(stack) \in 1..Len(stack)
  BY <1>1, TopFacts
<1>3. Top.step <= Len(Provider(Top.query))
  <2>1. Top.step \in Nat /\ Len(Provider(Top.query)) \in Nat
    BY <1>1, <1>2, FrameFacts
  <2> QED BY <1>1, <2>1
<1>4. PICK g : g = [Top EXCEPT !.step = @ + 1, !.todo = Args(Top.query, Top.step + 1)]
  OBVIOUS
<1>5. /\ g \in Frames /\ g.query = Top.query
      /\ AskedBy[g] \subseteq AskedBy[Top] /\ Pending[g] \subseteq Pending[Top]
  <2>1. krate \in Crates /\ Top \in Frames /\ Top.todo = {}
    BY <1>1, <1>2
  <2> QED BY <2>1, <1>3, <1>4, NextFacts, Zenon
<1>6. /\ stack' = Append(Front(stack), g) /\ failure' = "no" /\ stolen' = stolen
      /\ UNCHANGED <<krate, results, active, poisoned>>
  BY <1>1, <1>4 DEF NextStep
<1>7. Pending[Top] \cap stolen = {} /\ \A i \in 1..(Len(stack) - 1) : Pending[stack[i]] \cap stolen = {}
  BY <1>1, <1>2, StealInvFacts
<1> QED BY <1>1, <1>5, <1>6, <1>7, StealInvFacts, ReplaceTop

\* Where the innermost provider is when it is not returning.
LEMMA AtFacts ==
  ASSUME EngineInv, NEW op, At(op)
  PROVE  /\ failure = "no" /\ stack # <<>> /\ krate \in Crates
         /\ Len(stack) \in Nat \ {0} /\ Len(stack) \in 1..Len(stack)
         /\ Top = stack[Len(stack)] /\ Top \in Frames
         /\ Top.query \in Query /\ Top.step \in 1..Len(Provider(Top.query))
         /\ Top.step <= Len(Provider(Top.query)) /\ Provider(Top.query)[Top.step].op = op
         /\ Provider(Top.query)[Top.step] \in StepsOf(Top.query)
         /\ Top.todo \subseteq Provider(Top.query)[Top.step].args
<1>1. /\ failure = "no" /\ stack # <<>> /\ ~(Top.step > Len(Provider(Top.query)))
      /\ Provider(Top.query)[Top.step].op = op /\ krate \in Crates /\ Shape
  BY DEF At, Running, Returns, EngineInv, Shape
<1>2. Len(stack) \in Nat \ {0} /\ Top = stack[Len(stack)] /\ Top \in Frames
  BY <1>1, TopFacts
<1>3. /\ Top.step \in Nat \ {0} /\ Len(Provider(Top.query)) \in Nat /\ Top.query \in Query
      /\ FrameOK(Top)
      /\ \A k \in 1..Len(Provider(Top.query)) : Provider(Top.query)[k] \in StepsOf(Top.query)
  BY <1>1, <1>2, FrameFacts
<1>4. Top.step <= Len(Provider(Top.query)) /\ Top.step \in 1..Len(Provider(Top.query))
  BY <1>1, <1>3
<1>5. Top.todo \subseteq Provider(Top.query)[Top.step].args
  BY <1>3, <1>4 DEF FrameOK, Args
<1>6. Len(stack) \in 1..Len(stack)
  BY <1>2
<1> QED BY <1>1, <1>2, <1>3, <1>4, <1>5, <1>6

\* The innermost provider is given an answer that is there.
LEMMA JobCompletedKeeps ==
  ASSUME EngineInv, NEW q, JobCompleted(q)
  PROVE  EngineInv'
<1>1. At("get") /\ q \in Top.todo /\ q \in results
  BY DEF JobCompleted
<1>2. /\ failure = "no" /\ stack # <<>> /\ krate \in Crates /\ Top \in Frames
      /\ Len(stack) \in Nat \ {0} /\ Len(stack) \in 1..Len(stack) /\ Top = stack[Len(stack)]
      /\ Top.step <= Len(Provider(Top.query)) /\ Provider(Top.query)[Top.step].op = "get"
  BY <1>1, AtFacts
<1>3. PICK g : g = [query |-> Top.query, step |-> Top.step, todo |-> Top.todo \ {q},
                   borrowed |-> Top.borrowed]
  OBVIOUS
<1>4. Provider(Top.query)[Top.step].op # "bug"
  BY <1>2
<1>5. /\ g \in Frames /\ g.query = Top.query /\ AskedBy[g] \subseteq AskedBy[Top] \cup {q}
      /\ Pending[g] \subseteq Pending[Top]
  <2>1. krate \in Crates /\ Top \in Frames /\ q \in Top.todo /\ Top.step <= Len(Provider(Top.query))
    BY <1>1, <1>2
  <2> QED BY <1>3, <1>4, <2>1, DoneFacts
<1>6. /\ stack' = Append(Front(stack), g) /\ failure' = "no" /\ stolen' = stolen
      /\ UNCHANGED <<krate, results, active, poisoned>>
  <2>1. DoneWith(q) = g
    BY <1>2, <1>3, DoneFrame DEF DoneWith
  <2> QED BY <1>2, <2>1 DEF JobCompleted
<1>7. Pending[Top] \cap stolen = {} /\ \A i \in 1..(Len(stack) - 1) : Pending[stack[i]] \cap stolen = {}
  BY <1>2, StealInvFacts
<1>8. AskedBy[g] \subseteq AskedBy[Top] \cup results
  BY <1>1, <1>5
<1> QED BY <1>2, <1>5, <1>6, <1>7, <1>8, StealInvFacts, ReplaceTop

\* No value is borrowed that was taken: its reader is answered by then.
LEMMA BorrowValueKeeps ==
  ASSUME EngineInv, NEW c, BorrowValue(c)
  PROVE  EngineInv'
<1>1. (At("borrow") \/ At("read")) /\ c \in Top.todo
  BY DEF BorrowValue
<1>2. /\ failure = "no" /\ stack # <<>> /\ krate \in Crates /\ Top \in Frames
      /\ Len(stack) \in Nat \ {0} /\ Len(stack) \in 1..Len(stack) /\ Top = stack[Len(stack)]
      /\ Top.step <= Len(Provider(Top.query))
      /\ Provider(Top.query)[Top.step].op \in {"borrow", "read"}
  BY <1>1, AtFacts
<1>3. PICK B : B = IF At("borrow") THEN Top.borrowed \cup {c} ELSE Top.borrowed
  OBVIOUS
<1>4. PICK g : g = [query |-> Top.query, step |-> Top.step, todo |-> Top.todo \ {c},
                   borrowed |-> B]
  OBVIOUS
<1>5. /\ c \in Cells /\ (c[1] # "mir_validated" => Top.query = Reader(c))
      /\ g \in Frames /\ g.query = Top.query /\ AskedBy[g] \subseteq AskedBy[Top]
      /\ Pending[g] \subseteq Pending[Top]
  <2>1. krate \in Crates /\ Top \in Frames /\ c \in Top.todo /\ Top.step <= Len(Provider(Top.query))
        /\ Provider(Top.query)[Top.step].op \in {"borrow", "read"} /\ B \subseteq Top.borrowed \cup {c}
    BY <1>1, <1>2, <1>3
  <2>2. c \in Cells /\ (c[1] # "mir_validated" => Top.query = Reader(c))
    BY <2>1, BorrowCell
  <2>3. PICK f : f = Top
    OBVIOUS
  <2>4. krate \in Crates /\ f \in Frames /\ c \in f.todo /\ f.step <= Len(Provider(f.query))
        /\ Provider(f.query)[f.step].op \in {"borrow", "read"} /\ B \subseteq f.borrowed \cup {c}
    BY <2>1, <2>3
  <2>5. g = [query |-> f.query, step |-> f.step, todo |-> f.todo \ {c}, borrowed |-> B]
    BY <1>4, <2>3
  <2>6. /\ g \in Frames /\ g.query = f.query /\ AskedBy[g] \subseteq AskedBy[f]
        /\ Pending[g] \subseteq Pending[f]
    BY <2>4, <2>5, BorrowFacts
  <2> QED BY <2>2, <2>3, <2>6
<1>6. c \notin stolen
  <2>1. Top.query \in Query /\ Top.query \notin results
    BY <1>2, TopAsked, FrameFacts
  <2> QED BY <1>2, <1>5, <2>1, StealInvFacts
<1>7. stack' = Append(Front(stack), g)
  <2>1. [DoneWith(c) EXCEPT !.borrowed = IF At("borrow") THEN @ \cup {c} ELSE @] = g
    <3>1. DoneWith(c) = [query |-> Top.query, step |-> Top.step, todo |-> Top.todo \ {c},
                         borrowed |-> Top.borrowed]
      BY <1>2, DoneFrame DEF DoneWith
    <3>2. CASE At("borrow")
      BY <1>3, <1>4, <3>1, <3>2
    <3>3. CASE ~At("borrow")
      BY <1>3, <1>4, <3>1, <3>3
    <3> QED BY <3>2, <3>3
  <2> QED BY <2>1 DEF BorrowValue
<1>8. failure' = "no" /\ stolen' = stolen /\ UNCHANGED <<krate, results, active, poisoned>>
  BY <1>6 DEF BorrowValue
<1>9. Pending[Top] \cap stolen = {} /\ \A i \in 1..(Len(stack) - 1) : Pending[stack[i]] \cap stolen = {}
  BY <1>2, StealInvFacts
<1> QED BY <1>2, <1>5, <1>7, <1>8, <1>9, StealInvFacts, ReplaceTop

\* No value is taken twice, nor while it is borrowed: the query that borrows
\* it was asked for before, so it is answered and does not run.
LEMMA StealValueKeeps ==
  ASSUME EngineInv, NEW c, StealValue(c)
  PROVE  EngineInv'
<1>1. At("steal") /\ c \in Top.todo
  BY DEF StealValue
<1>2. /\ failure = "no" /\ stack # <<>> /\ krate \in Crates /\ Top \in Frames
      /\ Len(stack) \in Nat \ {0} /\ Len(stack) \in 1..Len(stack) /\ Top = stack[Len(stack)]
      /\ Top.step <= Len(Provider(Top.query)) /\ Provider(Top.query)[Top.step].op = "steal"
  BY <1>1, AtFacts
<1>3. c \in Pending[Top] /\ (Reader(c) \in Query => Reader(c) \in AskedBy[Top])
  BY <1>1, <1>2, StealFacts
<1>4. c \in Cells /\ c[1] # "mir_validated" /\ Top.query = Thief(c)
  BY <1>2, <1>3, FrameFacts
<1>5. /\ Top.query \in active /\ Top.query \notin results
      /\ Reader(c) \in Query => Reader(c) \in results
  BY <1>2, <1>3, TopAsked
<1>6. c \notin stolen
  BY <1>2, <1>3, StealInvFacts
<1>7. c \notin Borrowed
  <2> SUFFICES ASSUME NEW i \in 1..Len(stack), c \in stack[i].borrowed PROVE FALSE
    <3>1. DOMAIN stack = 1..Len(stack)
      BY LenProperties DEF EngineInv, Shape
    <3> QED BY <3>1 DEF Borrowed
  <2>1. stack[i] \in Frames
    BY <1>2, TopFacts DEF EngineInv
  <2>2. stack[i].query = Reader(c) /\ stack[i].query \in Query
    BY <1>2, <1>4, <2>1, FrameFacts DEF FrameOK
  <2>3. stack[i].query \in active /\ results \cap active = {}
    BY DEF EngineInv, ActiveInv
  <2> QED BY <1>5, <2>2, <2>3
<1>8. PICK g : g = [query |-> Top.query, step |-> Top.step, todo |-> Top.todo \ {c},
                   borrowed |-> Top.borrowed]
  OBVIOUS
<1>9. Provider(Top.query)[Top.step].op # "bug" /\ Provider(Top.query)[Top.step].op # "get"
  BY <1>2
<1>10. /\ g \in Frames /\ g.query = Top.query /\ AskedBy[g] \subseteq AskedBy[Top]
       /\ Pending[g] \subseteq Pending[Top] /\ c \notin Pending[g]
  <2>1. krate \in Crates /\ Top \in Frames /\ c \in Top.todo /\ Top.step <= Len(Provider(Top.query))
        /\ Provider(Top.query)[Top.step].op = "steal"
    BY <1>1, <1>2
  <2> QED BY <1>8, <1>9, <2>1, DoneFacts
<1>11. /\ stack' = Append(Front(stack), g) /\ failure' = "no" /\ stolen' = stolen \cup {c}
       /\ UNCHANGED <<krate, results, active, poisoned>>
  <2>1. DoneWith(c) = g
    BY <1>2, <1>8, DoneFrame DEF DoneWith
  <2> QED BY <1>6, <1>7, <2>1 DEF StealValue
<1>12. \A d \in stolen' : /\ d[1] # "mir_validated"
                          /\ Reader(d) \in Query => Reader(d) \in results
                          /\ Thief(d) \in results \cup active
  BY <1>2, <1>4, <1>5, <1>11, StealInvFacts
<1>13. Pending[g] \cap stolen' = {}
  BY <1>2, <1>10, <1>11, StealInvFacts
<1>14. ASSUME NEW i \in 1..(Len(stack) - 1) PROVE Pending[stack[i]] \cap stolen' = {}
  <2>1. i \in 1..Len(stack) /\ i # Len(stack)
    BY <1>2
  <2>2. stack[i] \in Frames /\ stack[i].query # Top.query
    BY <1>2, <2>1, TopFacts DEF EngineInv, ActiveInv
  <2>3. c \notin Pending[stack[i]]
    BY <1>2, <1>4, <2>2, FrameFacts
  <2> QED BY <1>2, <1>11, <2>1, <2>3, StealInvFacts
<1>15. stolen' \subseteq Cells
  BY <1>2, <1>4, <1>11, StealInvFacts
<1> QED BY <1>2, <1>10, <1>11, <1>12, <1>13, <1>14, <1>15, ReplaceTop

\* A cycle is reported: only the failure changes.
LEMMA CycleKeeps ==
  ASSUME EngineInv, NEW q, Cycle(q)
  PROVE  EngineInv'
<1> USE CrateFixed
<1>1. UNCHANGED <<krate, stack, results, active, poisoned, stolen>> /\ failure' = "cycle"
  BY DEF Cycle
<1>2. /\ Shape /\ ActiveInv /\ AnsweredInv /\ ConflictInv
  BY DEF EngineInv
<1>3. Shape' /\ ActiveInv' /\ AnsweredInv' /\ ConflictInv'
  BY <1>1, <1>2 DEF Shape, ActiveInv, AnsweredInv, ConflictInv
<1>4. AskedInv' /\ StealInv' /\ FailureInv'
  BY <1>1 DEF AskedInv, StealInv, FailureInv
<1> QED BY <1>3, <1>4 DEF EngineInv

\* mir_build stops the compiler, at something without a body only.
LEMMA SpanBugKeeps ==
  ASSUME EngineInv, SpanBug
  PROVE  EngineInv'
<1> USE CrateFixed
<1>1. UNCHANGED <<krate, stack, results, active, poisoned, stolen>> /\ failure' = "bug" /\ At("bug")
  BY DEF SpanBug
<1>2. /\ Shape /\ ActiveInv /\ AnsweredInv /\ ConflictInv
  BY DEF EngineInv
<1>3. Shape' /\ ActiveInv' /\ AnsweredInv' /\ ConflictInv'
  BY <1>1, <1>2 DEF Shape, ActiveInv, AnsweredInv, ConflictInv
<1>4. TracesBodyless
  BY <1>1, AtFacts DEF StepsOf, StepOK
<1>5. AskedInv' /\ StealInv' /\ FailureInv'
  BY <1>1, <1>4 DEF AskedInv, StealInv, FailureInv
<1> QED BY <1>3, <1>5 DEF EngineInv

\* A provider is started: nobody took what it is going to take, since it did
\* not run before.
LEMMA NotYetStartedKeeps ==
  ASSUME EngineInv, NEW q, NotYetStarted(q)
  PROVE  EngineInv'
<1> USE CrateFixed
<1> DEFINE n == Len(stack)
<1>1. At("get") /\ q \in Top.todo /\ q \notin results /\ q \notin active
  BY DEF NotYetStarted
<1>2. /\ failure = "no" /\ stack # <<>> /\ krate \in Crates /\ Top \in Frames
      /\ n \in Nat \ {0} /\ n \in 1..n /\ Top = stack[n]
      /\ Top.step <= Len(Provider(Top.query)) /\ Provider(Top.query)[Top.step].op = "get"
      /\ Provider(Top.query)[Top.step] \in StepsOf(Top.query)
      /\ Top.todo \subseteq Provider(Top.query)[Top.step].args
  BY <1>1, AtFacts
<1>3. q \in Query
  BY <1>1, <1>2 DEF StepsOf, StepOK
<1>4. PICK g : g = [query |-> Top.query, step |-> Top.step, todo |-> Top.todo \ {q},
                   borrowed |-> Top.borrowed]
  OBVIOUS
<1>5. /\ g \in Frames /\ g.query = Top.query /\ AskedBy[g] \subseteq AskedBy[Top] \cup {q}
      /\ Pending[g] \subseteq Pending[Top]
  <2>1. krate \in Crates /\ Top \in Frames /\ q \in Top.todo /\ Top.step <= Len(Provider(Top.query))
        /\ Provider(Top.query)[Top.step].op # "bug"
    BY <1>1, <1>2
  <2> QED BY <1>4, <2>1, DoneFacts
<1>6. PICK j : j = Job(q)
  OBVIOUS
<1>7. j \in Frames /\ j.query = q /\ AskedBy[j] = {}
  BY <1>2, <1>3, <1>6, JobFacts
<1>8. DoneWith(q) = g
  BY <1>2, <1>4, DoneFrame DEF DoneWith
<1>9. /\ stack' = Append(Append(Front(stack), g), j) /\ active' = active \cup {q}
      /\ UNCHANGED <<krate, results, poisoned, stolen, failure>>
  BY <1>6, <1>8 DEF NotYetStarted
<1>10. Shape /\ ActiveInv /\ AskedInv /\ AnsweredInv /\ StealInv /\ ConflictInv /\ FailureInv
  BY DEF EngineInv
<1>11. PICK s : s = Append(Front(stack), g)
  OBVIOUS
<1>12. s \in Seq(Frames) /\ Len(s) = n /\ (\A i \in 1..(n - 1) : s[i] = stack[i]) /\ s[n] = g
  BY <1>2, <1>5, <1>10, <1>11, ReplaceLastFacts DEF Shape
<1>13. /\ stack' \in Seq(Frames) /\ Len(stack') = n + 1
       /\ (\A i \in 1..n : stack'[i] = s[i]) /\ stack'[n + 1] = j
  BY <1>7, <1>9, <1>11, <1>12, PushFacts
<1> HIDE DEF n
<1>14. \A i \in 1..(n + 1) : i \in 1..(n - 1) \/ i = n \/ i = n + 1
  BY <1>2
<1>15. \A i \in 1..(n - 1) : i \in 1..n /\ i + 1 \in 1..n /\ i < n /\ i < n + 1 /\ stack'[i] = stack[i]
  BY <1>2, <1>12, <1>13
<1>16. stack'[n] = g
  BY <1>2, <1>12, <1>13
<1>17. \A i \in 1..n : stack'[i].query = stack[i].query
  <2> TAKE i \in 1..n
  <2>1. i \in 1..(n - 1) \/ i = n
    BY <1>2
  <2> QED BY <1>2, <1>5, <1>15, <1>16, <2>1
<1>18. Shape'
  BY <1>9, <1>10, <1>13 DEF Shape
<1>19. \A i \in 1..n : stack[i].query \in active
  BY <1>10 DEF ActiveInv, n
<1>20. active' = {stack'[i].query : i \in 1..(n + 1)}
  <2>1. \A i \in 1..(n + 1) : i \in 1..n \/ i = n + 1
    BY <1>2
  <2>2. 1..n \subseteq 1..(n + 1) /\ n + 1 \in 1..(n + 1)
    BY <1>2
  <2>3. active = {stack[i].query : i \in 1..n}
    BY <1>10 DEF ActiveInv, n
  <2> QED BY <1>7, <1>9, <1>13, <1>17, <2>1, <2>2, <2>3
<1>21. \A i, k \in 1..(n + 1) : stack'[i].query = stack'[k].query => i = k
  <2>1. \A i \in 1..(n + 1) : i \in 1..n \/ i = n + 1
    BY <1>2
  <2>2. \A i, k \in 1..n : stack[i].query = stack[k].query => i = k
    BY <1>10 DEF ActiveInv, n
  <2>3. \A i \in 1..n : stack'[i].query # q
    BY <1>1, <1>17, <1>19
  <2> QED BY <1>7, <1>13, <1>17, <2>1, <2>2, <2>3
<1>22. ActiveInv'
  BY <1>1, <1>2, <1>9, <1>10, <1>13, <1>20, <1>21 DEF ActiveInv
<1>23. AskedInv'
  <2>1. ASSUME NEW i \in 1..(n + 1), NEW x \in AskedBy[stack'[i]]
        PROVE  x \in results \/ (i < n + 1 /\ x = stack'[i + 1].query)
    <3>1. CASE i \in 1..(n - 1)
      <4>1. x \in results \/ (i < n /\ x = stack[i + 1].query)
        BY <1>2, <1>10, <1>15, <2>1, <3>1 DEF AskedInv, n
      <4> QED BY <1>15, <1>17, <3>1, <4>1
    <3>2. CASE i = n
      <4>1. x \in results \/ x = q
        BY <1>2, <1>5, <1>16, <2>1, <3>2, TopAsked
      <4>2. n < n + 1
        BY <1>2
      <4> QED BY <1>7, <1>13, <3>2, <4>1, <4>2
    <3>3. CASE i = n + 1
      BY <1>7, <1>13, <2>1, <3>3
    <3> QED BY <1>14, <3>1, <3>2, <3>3
  <2> QED BY <1>9, <1>13, <2>1 DEF AskedInv
<1>24. AnsweredInv' /\ ConflictInv' /\ FailureInv'
  BY <1>9, <1>10 DEF AnsweredInv, ConflictInv, FailureInv
<1>25. StealInv'
  <2>1. Pending[j] \cap stolen = {}
    <3>1. \A c \in Pending[j] : q = Thief(c)
      BY <1>2, <1>7, FrameFacts
    <3> QED BY <1>1, <1>2, <3>1, StealInvFacts
  <2>2. \A i \in 1..n : Pending[stack[i]] \cap stolen = {}
    BY <1>2, StealInvFacts DEF n
  <2>3. Pending[g] \cap stolen = {}
    BY <1>2, <1>5, <2>2
  <2>4. \A i \in 1..(n + 1) : Pending[stack'[i]] \cap stolen = {}
    BY <1>13, <1>14, <1>15, <1>16, <2>1, <2>2, <2>3
  <2>5. \A c \in stolen : /\ c[1] # "mir_validated"
                          /\ Reader(c) \in Query => Reader(c) \in results
                          /\ Thief(c) \in results \cup active'
    BY <1>2, <1>9, StealInvFacts
  <2> QED BY <1>9, <1>13, <2>4, <2>5 DEF StealInv, Reader, Thief
<1> QED BY <1>18, <1>22, <1>23, <1>24, <1>25 DEF EngineInv

\* A query is among the dependencies if a step asks for it.
LEMMA DependsIf ==
  ASSUME krate \in Crates, NEW q \in Query, NEW k \in 1..Len(Provider(q)), NEW X,
         Provider(q)[k] = Get(X)
  PROVE  X \subseteq Dependencies[q]
<1>1. Provider(q) \in Seq(StepsOf(q))
  BY ProviderSteps
<1>2. Provider(q)[k] \in StepsOf(q)
  BY <1>1, ElementOfSeq
<1>3. X \subseteq Query
  BY <1>2 DEF Get, StepsOf, StepOK
<1> QED BY <1>3 DEF Dependencies, Asks, Get

\* What the analysis of a crate, and the evaluation of its constants, needs.
LEMMA Depends ==
  ASSUME krate \in Crates
  PROVE  /\ \A d \in MirKeys : <<"optimized_mir", d>> \in Dependencies[<<"driver">>]
         /\ \A d \in Roots : <<"get_shared_objects", d>> \in Dependencies[<<"conflict_analysis">>]
         /\ \A d \in Roots : \A e \in {d} \cup Reachable(krate.traces[d], krate.traces) :
              <<"mir_validated", e>> \in Dependencies[<<"get_shared_objects", d>>]
         /\ \A d \in DefIds : HasBody(d) \/ d \in Analysed =>
              /\ <<"mir_const", d>> \in Dependencies[<<"mir_validated", d>>]
              /\ <<"mir_built", d>> \in Dependencies[<<"mir_const", d>>]
              /\ HasBody(d) =>
                   /\ <<"typeck_tables_of", krate.owner[d]>> \in Dependencies[<<"mir_built", d>>]
                   /\ \A c \in krate.built[d] : <<"const_eval", c>> \in Dependencies[<<"mir_built", d>>]
              /\ ~HasBody(d) => <<"mir_built", d>> \in Failing
         /\ \A d \in Owners : \A c \in krate.lengths[d] :
              <<"const_eval", c>> \in Dependencies[<<"typeck_tables_of", d>>]
         /\ \A d \in DefIds : Kind(d) = "const" =>
              /\ <<"optimized_mir", d>> \in Dependencies[<<"const_eval", d>>]
              /\ \A e \in Reachable(krate.calls[d], krate.calls) :
                   <<"optimized_mir", e>> \in Dependencies[<<"const_eval", d>>]
              /\ \A e \in {d} \cup Reachable(krate.calls[d], krate.calls) :
                   \A m \in krate.mentions[e] : <<"const_eval", m>> \in Dependencies[<<"const_eval", d>>]
         /\ \A d \in MirKeys : Kind(d) # "ctor" =>
              /\ <<"mir_borrowck", d>> \in Dependencies[<<"optimized_mir", d>>]
              /\ <<"mir_validated", d>> \in Dependencies[<<"mir_borrowck", d>>]
         /\ \A d \in MirKeys : Kind(d) \in {"fn", "closure"} =>
              <<"conflict_analysis">> \in Dependencies[<<"optimized_mir", d>>]
<1>1. \A d \in MirKeys : <<"optimized_mir", d>> \in Dependencies[<<"driver">>]
  <2> DEFINE q == <<"driver">>
             X == Q("optimized_mir", MirKeys) \cup Q("promoted_mir", MirKeys)
  <2>1. q \in Query /\ Provider(q) = Driver
    BY DEF Query, Provider
  <2>2. 3 \in 1..Len(Provider(q)) /\ Provider(q)[3] = Get(X)
    BY <2>1 DEF Driver
  <2> HIDE DEF q
  <2>3. X \subseteq Dependencies[q]
    BY <2>1, <2>2, DependsIf
  <2> QED BY <2>3 DEF Q, q
<1>2. \A d \in Roots : <<"get_shared_objects", d>> \in Dependencies[<<"conflict_analysis">>]
  <2> DEFINE q == <<"conflict_analysis">>
             X == Q("get_shared_objects", Roots)
  <2>1. q \in Query /\ Provider(q) = <<Get(X)>>
    BY DEF Query, Provider, ConflictAnalysis, Roots
  <2>2. 1 \in 1..Len(Provider(q)) /\ Provider(q)[1] = Get(X)
    BY <2>1
  <2> HIDE DEF q
  <2>3. X \subseteq Dependencies[q]
    BY <2>1, <2>2, DependsIf
  <2> QED BY <2>3 DEF Q, q
<1>3. ASSUME NEW d \in Roots, NEW e \in {d} \cup Reachable(krate.traces[d], krate.traces)
      PROVE  <<"mir_validated", e>> \in Dependencies[<<"get_shared_objects", d>>]
  <2> DEFINE q == <<"get_shared_objects", d>>
             C == Reachable(krate.traces[d], krate.traces)
  <2>1. q \in Query /\ Provider(q) = <<Get(Q("mir_validated", {d})), Borrow(Q("mir_validated", {d})),
                                       Get(Q("mir_validated", C)), Borrow(Q("mir_validated", C))>>
    BY DEF Query, Q, Provider, GetSharedObjects
  <2> HIDE DEF q, C
  <2>2. /\ 1 \in 1..Len(Provider(q)) /\ Provider(q)[1] = Get(Q("mir_validated", {d}))
        /\ 3 \in 1..Len(Provider(q)) /\ Provider(q)[3] = Get(Q("mir_validated", C))
    BY <2>1
  <2>3. Q("mir_validated", {d}) \subseteq Dependencies[q] /\ Q("mir_validated", C) \subseteq Dependencies[q]
    BY <2>1, <2>2, DependsIf
  <2> QED BY <2>3 DEF Q, q, C
<1>4. ASSUME NEW d \in DefIds, HasBody(d) \/ d \in Analysed
      PROVE  /\ <<"mir_const", d>> \in Dependencies[<<"mir_validated", d>>]
             /\ <<"mir_built", d>> \in Dependencies[<<"mir_const", d>>]
             /\ HasBody(d) =>
                  /\ <<"typeck_tables_of", krate.owner[d]>> \in Dependencies[<<"mir_built", d>>]
                  /\ \A c \in krate.built[d] : <<"const_eval", c>> \in Dependencies[<<"mir_built", d>>]
             /\ ~HasBody(d) => <<"mir_built", d>> \in Failing
  <2>1. /\ <<"mir_validated", d>> \in Query /\ <<"mir_const", d>> \in Query
        /\ <<"mir_built", d>> \in Query
    BY <1>4 DEF Query, Q
  <2>2. <<"mir_const", d>> \in Dependencies[<<"mir_validated", d>>]
    <3> DEFINE q == <<"mir_validated", d>>
    <3>1. Provider(q) = MirValidated(d)
      BY DEF Provider
    <3>2. 2 \in 1..Len(Provider(q)) /\ Provider(q)[2] = Get(Q("mir_const", {d}))
      BY <3>1 DEF MirValidated
    <3> HIDE DEF q
    <3>3. Q("mir_const", {d}) \subseteq Dependencies[q]
      BY <2>1, <3>2, DependsIf DEF q
    <3> QED BY <3>3 DEF Q, q
  <2>3. <<"mir_built", d>> \in Dependencies[<<"mir_const", d>>]
    <3> DEFINE q == <<"mir_const", d>>
    <3>1. Provider(q) = MirConst(d)
      BY DEF Provider
    <3>2. 2 \in 1..Len(Provider(q)) /\ Provider(q)[2] = Get(Q("mir_built", {d}))
      BY <3>1 DEF MirConst
    <3> HIDE DEF q
    <3>3. Q("mir_built", {d}) \subseteq Dependencies[q]
      BY <2>1, <3>2, DependsIf DEF q
    <3> QED BY <3>3 DEF Q, q
  <2> DEFINE q == <<"mir_built", d>>
  <2>4. Provider(q) = MirBuilt(d)
    BY DEF Provider
  <2>5. ASSUME HasBody(d)
        PROVE  /\ <<"typeck_tables_of", krate.owner[d]>> \in Dependencies[<<"mir_built", d>>]
               /\ \A c \in krate.built[d] : <<"const_eval", c>> \in Dependencies[<<"mir_built", d>>]
    <3> DEFINE X == Q("const_eval", krate.built[d])
    <3>1. /\ 1 \in 1..Len(Provider(q)) /\ Provider(q)[1] = Get(Q("typeck_tables_of", {krate.owner[d]}))
          /\ 2 \in 1..Len(Provider(q)) /\ Provider(q)[2] = Get(X)
      BY <2>4, <2>5 DEF MirBuilt, LowerPath, HasBody
    <3> HIDE DEF q, X
    <3>2. Q("typeck_tables_of", {krate.owner[d]}) \subseteq Dependencies[q] /\ X \subseteq Dependencies[q]
      BY <2>1, <3>1, DependsIf DEF q
    <3> QED BY <3>2 DEF Q, q, X
  <2>6. ASSUME ~HasBody(d) PROVE <<"mir_built", d>> \in Failing
    <3>1. 1 \in 1..Len(Provider(q)) /\ Provider(q)[1].op = "bug"
      BY <2>4, <2>6 DEF MirBuilt, LowerPath, HasBody, Bug
    <3> QED BY <2>1, <3>1 DEF Failing
  <2> QED BY <2>2, <2>3, <2>5, <2>6
<1>5. ASSUME NEW d \in Owners, NEW c \in krate.lengths[d]
      PROVE  <<"const_eval", c>> \in Dependencies[<<"typeck_tables_of", d>>]
  <2> DEFINE q == <<"typeck_tables_of", d>>
             X == Q("const_eval", krate.lengths[d])
  <2>1. q \in Query /\ Provider(q) = <<Get(X)>>
    BY DEF Query, Q, Provider, TypeckTablesOf
  <2> HIDE DEF q
  <2>2. 1 \in 1..Len(Provider(q)) /\ Provider(q)[1] = Get(X)
    BY <2>1
  <2>3. X \subseteq Dependencies[q]
    BY <2>1, <2>2, DependsIf
  <2> QED BY <2>3 DEF Q, q
<1>6. ASSUME NEW d \in DefIds, Kind(d) = "const"
      PROVE  /\ <<"optimized_mir", d>> \in Dependencies[<<"const_eval", d>>]
             /\ \A e \in Reachable(krate.calls[d], krate.calls) :
                  <<"optimized_mir", e>> \in Dependencies[<<"const_eval", d>>]
             /\ \A e \in {d} \cup Reachable(krate.calls[d], krate.calls) :
                  \A m \in krate.mentions[e] : <<"const_eval", m>> \in Dependencies[<<"const_eval", d>>]
  <2> DEFINE q == <<"const_eval", d>>
             R == Reachable(krate.calls[d], krate.calls)
             M == UNION {krate.mentions[e] : e \in R \cup {d}}
             X == Q("optimized_mir", R) \cup Q("const_eval", M)
  <2>1. q \in Query
        /\ Provider(q) = <<Get(Q("typeck_tables_of", {d})), Get(Q("optimized_mir", {d})), Get(X)>>
    BY <1>6 DEF Query, Q, Provider, ConstEval
  <2> HIDE DEF q, X
  <2>2. /\ 2 \in 1..Len(Provider(q)) /\ Provider(q)[2] = Get(Q("optimized_mir", {d}))
        /\ 3 \in 1..Len(Provider(q)) /\ Provider(q)[3] = Get(X)
    BY <2>1
  <2>3. Q("optimized_mir", {d}) \subseteq Dependencies[q] /\ X \subseteq Dependencies[q]
    BY <2>1, <2>2, DependsIf
  <2> HIDE DEF R
  <2>4. \A e \in {d} \cup R : \A m \in krate.mentions[e] : <<"const_eval", m>> \in X
    BY DEF X, Q
  <2>5. \A e \in R : <<"optimized_mir", e>> \in X
    BY DEF X, Q
  <2>6. <<"optimized_mir", d>> \in Q("optimized_mir", {d})
    BY DEF Q
  <2> QED BY <2>3, <2>4, <2>5, <2>6 DEF q, R
<1>7. ASSUME NEW d \in MirKeys, Kind(d) # "ctor"
      PROVE  /\ <<"mir_borrowck", d>> \in Dependencies[<<"optimized_mir", d>>]
             /\ <<"mir_validated", d>> \in Dependencies[<<"mir_borrowck", d>>]
  <2>1. <<"optimized_mir", d>> \in Query /\ <<"mir_borrowck", d>> \in Query
    BY <1>7 DEF Query, Q, MirKeys, HasBody
  <2>2. <<"mir_borrowck", d>> \in Dependencies[<<"optimized_mir", d>>]
    <3> DEFINE q == <<"optimized_mir", d>>
    <3>1. Provider(q) = OptimizedMir(d)
      BY DEF Provider
    <3>2. 1 \in 1..Len(Provider(q)) /\ Provider(q)[1] = Get(Q("mir_borrowck", {d}))
      BY <1>7, <3>1, OptimizedMirSteps
    <3> HIDE DEF q
    <3>3. Q("mir_borrowck", {d}) \subseteq Dependencies[q]
      BY <2>1, <3>2, DependsIf DEF q
    <3> QED BY <3>3 DEF Q, q
  <2>3. <<"mir_validated", d>> \in Dependencies[<<"mir_borrowck", d>>]
    <3> DEFINE q == <<"mir_borrowck", d>>
    <3>1. Provider(q) = MirBorrowck(d)
      BY DEF Provider
    <3>2. 1 \in 1..Len(Provider(q)) /\ Provider(q)[1] = Get(Q("mir_validated", {d}))
      BY <3>1 DEF MirBorrowck
    <3> HIDE DEF q
    <3>3. Q("mir_validated", {d}) \subseteq Dependencies[q]
      BY <2>1, <3>2, DependsIf DEF q
    <3> QED BY <3>3 DEF Q, q
  <2> QED BY <2>2, <2>3
<1>8. ASSUME NEW d \in MirKeys, Kind(d) \in {"fn", "closure"}
      PROVE  <<"conflict_analysis">> \in Dependencies[<<"optimized_mir", d>>]
  <2> DEFINE q == <<"optimized_mir", d>>
  <2>1. q \in Query /\ Provider(q) = OptimizedMir(d)
    BY DEF Query, Q, Provider
  <2>2. 2 \in 1..Len(Provider(q)) /\ Provider(q)[2] = Get({<<"conflict_analysis">>})
    BY <1>8, <2>1, OptimizedMirSteps
  <2> HIDE DEF q
  <2>3. {<<"conflict_analysis">>} \subseteq Dependencies[q]
    BY <2>1, <2>2, DependsIf
  <2> QED BY <2>3 DEF q
<1> QED BY <1>1, <1>2, <1>3, <1>4, <1>5, <1>6, <1>7, <1>8

\* When everything conflict analysis asks for is answered, every body it
\* looks at has one, and if building their MIR needs a const fn, the analysis is
\* answered as well: the const fn was compiled on the way.
LEMMA AnalysisAnswers ==
  ASSUME krate \in Crates, NEW R, R \subseteq Query,
         \A q \in R : Dependencies[q] \subseteq R /\ q \notin Failing,
         Dependencies[<<"conflict_analysis">>] \subseteq R
  PROVE  /\ \A d \in Roots : <<"get_shared_objects", d>> \in R
         /\ ~TracesBodyless
         /\ MirNeedsConstFn => <<"conflict_analysis">> \in R
<1>1. \A d \in Roots : <<"get_shared_objects", d>> \in R
  BY Depends
<1>2. Analysed \subseteq DefIds
  BY AnalysedFacts
<1>3. ASSUME NEW e \in Analysed PROVE <<"mir_validated", e>> \in R
  <2>1. PICK d \in Roots : e \in {d} \cup Reachable(krate.traces[d], krate.traces)
    BY AnalysedFacts
  <2>2. <<"mir_validated", e>> \in Dependencies[<<"get_shared_objects", d>>]
    BY <2>1, Depends
  <2> QED BY <1>1, <2>2
<1>4. ASSUME NEW d \in DefIds, HasBody(d) \/ d \in Analysed, <<"mir_validated", d>> \in R
      PROVE  HasBody(d) /\ \A c \in BuiltWith(d) : <<"const_eval", c>> \in R
  <2>1. <<"mir_const", d>> \in R
    BY <1>4, Depends
  <2>2. <<"mir_built", d>> \in R
    BY <1>4, <2>1, Depends
  <2>3. HasBody(d)
    BY <1>4, <2>2, Depends
  <2>4. <<"typeck_tables_of", krate.owner[d]>> \in R /\ krate.owner[d] \in Owners
    BY <1>4, <2>2, <2>3, Depends, CrateFacts
  <2>5. \A c \in krate.lengths[krate.owner[d]] :
          <<"const_eval", c>> \in Dependencies[<<"typeck_tables_of", krate.owner[d]>>]
    BY <2>4, Depends
  <2>6. \A c \in krate.built[d] : <<"const_eval", c>> \in R
    BY <1>4, <2>2, <2>3, Depends
  <2> QED BY <2>3, <2>4, <2>5, <2>6 DEF BuiltWith
<1>5. ~TracesBodyless
  BY <1>2, <1>3, <1>4 DEF TracesBodyless, HasBody
<1>6. ASSUME MirNeedsConstFn PROVE <<"conflict_analysis">> \in R
  <2>1. PICK d \in Analysed : NeedsConstFn(d)
    BY <1>6 DEF MirNeedsConstFn
  <2> DEFINE L == BuiltWith(d)
             C == {c \in DefIds : Kind(c) = "const" /\ <<"const_eval", c>> \in R}
             F == {e \in DefIds : \E c \in C : e \in Reachable(krate.calls[c], krate.calls)}
  <2>2. PICK f \in Reachable(L, Needed) : Kind(f) \in {"fn", "closure"}
    BY <2>1 DEF NeedsConstFn
  <2>0. \A e \in DefIds : BuiltWith(e) \subseteq {c \in DefIds : Kind(c) = "const"}
    BY CrateFacts DEF BuiltWith
  <2>3. d \in DefIds /\ krate.owner[d] \in DefIds /\ L \subseteq C
    BY <1>2, <1>3, <1>4, <2>0, CrateFacts
  <2>4. \A e \in F : e \in DefIds /\ <<"optimized_mir", e>> \in R
    BY Depends
  <2>5. \A c \in C : <<"optimized_mir", c>> \in R
    BY Depends
  <2>6. ASSUME NEW e \in DefIds, <<"optimized_mir", e>> \in R, e \in MirKeys
        PROVE  BuiltWith(e) \subseteq C
    <3>1. CASE Kind(e) = "ctor"
      <4>1. krate.owner[e] = e /\ krate.lengths[e] = {} /\ krate.built[e] = {}
        BY <3>1, CratesAssumption DEF Kind, DefIds
      <4> QED BY <4>1 DEF BuiltWith
    <3>2. CASE Kind(e) # "ctor"
      <4>1. HasBody(e)
        BY <2>6, <3>2 DEF MirKeys, HasBody
      <4>2. <<"mir_borrowck", e>> \in R
        BY <2>6, <3>2, Depends
      <4>3. <<"mir_validated", e>> \in R
        BY <2>6, <3>2, <4>2, Depends
      <4>4. \A c \in BuiltWith(e) : <<"const_eval", c>> \in R
        BY <1>4, <4>1, <4>3
      <4> QED BY <2>0, <4>4
    <3> QED BY <3>1, <3>2
  <2>7. \A c \in C : Reachable(krate.calls[c], krate.calls) \subseteq F
        /\ krate.calls[c] \subseteq Reachable(krate.calls[c], krate.calls)
        /\ \A e \in Reachable(krate.calls[c], krate.calls) :
             krate.calls[e] \subseteq Reachable(krate.calls[c], krate.calls)
    <3> TAKE c \in C
    <3>1. \A e \in DefIds : krate.calls[e] \subseteq DefIds
      BY CrateFacts DEF MirKeys
    <3>2. /\ krate.calls[c] \subseteq Reachable(krate.calls[c], krate.calls)
          /\ Reachable(krate.calls[c], krate.calls) \subseteq DefIds
          /\ \A e \in Reachable(krate.calls[c], krate.calls) :
               krate.calls[e] \subseteq Reachable(krate.calls[c], krate.calls)
      BY <3>1, ReachableFacts
    <3> QED BY <3>2
  <2>8. \A e \in DefIds : krate.mentions[e] \subseteq {c \in DefIds : Kind(c) = "const"}
    BY CrateFacts
  <2>9. ASSUME NEW e \in C PROVE Needed[e] \subseteq C \cup F
    <3>1. e \in DefIds /\ e \in MirKeys /\ Kind(e) = "const"
      BY DEF MirKeys
    <3>2. BuiltWith(e) \subseteq C
      BY <2>5, <2>6, <3>1
    <3>3. krate.mentions[e] \subseteq C
      BY <2>8, <3>1, Depends
    <3>4. krate.calls[e] \subseteq F
      BY <2>7
    <3> QED BY <3>1, <3>2, <3>3, <3>4 DEF Needed
  <2>10. ASSUME NEW e \in F PROVE Needed[e] \subseteq C \cup F
    <3>1. PICK c \in C : e \in Reachable(krate.calls[c], krate.calls)
      OBVIOUS
    <3>2. e \in DefIds /\ <<"optimized_mir", e>> \in R
      BY <2>4
    <3>3. e \in MirKeys
      BY <3>2 DEF Query, Q
    <3>4. BuiltWith(e) \subseteq C
      BY <2>6, <3>2, <3>3
    <3>5. krate.mentions[e] \subseteq C
      BY <2>8, <3>1, <3>2, Depends
    <3>6. krate.calls[e] \subseteq F
      BY <2>7, <3>1
    <3> QED BY <3>2, <3>4, <3>5, <3>6 DEF Needed
  <2>11. \A e \in DefIds : Needed[e] \subseteq DefIds
    BY <2>0, CrateFacts DEF Needed, MirKeys
  <2>12. C \cup F \in SUBSET DefIds /\ L \subseteq DefIds /\ L \subseteq C \cup F
    BY <2>3
  <2>13. f \in C \cup F
    <3> HIDE DEF C, F, L
    <3>1. \A e \in C \cup F : Needed[e] \subseteq C \cup F
      BY <2>9, <2>10
    <3>2. \A W \in SUBSET DefIds : L \subseteq W /\ (\A e \in W : Needed[e] \subseteq W)
            => Reachable(L, Needed) \subseteq W
      BY <2>11, <2>12, ReachableFacts
    <3>3. Reachable(L, Needed) \subseteq C \cup F
      BY <2>12, <3>1, <3>2
    <3> QED BY <2>2, <3>3
  <2>14. f \in F
    BY <2>2, <2>13
  <2>15. <<"optimized_mir", f>> \in R /\ f \in MirKeys
    BY <2>2, <2>4, <2>14 DEF MirKeys
  <2> QED BY <2>2, <2>15, Depends
<1> QED BY <1>1, <1>5, <1>6

\* The innermost provider leaves the stack.
LEMMA PopFacts ==
  ASSUME Shape, ActiveInv, stack # <<>>, stack' = Front(stack), active' = active \ {Top.query}
  PROVE  /\ stack' \in Seq(Frames) /\ Len(stack') = Len(stack) - 1
         /\ \A i \in 1..(Len(stack) - 1) : stack'[i] = stack[i] /\ i \in 1..Len(stack)
         /\ active' = {stack'[i].query : i \in 1..Len(stack')}
         /\ \A i, j \in 1..Len(stack') : stack'[i].query = stack'[j].query => i = j
<1> DEFINE n == Len(stack)
<1>1. n \in Nat \ {0} /\ Top = stack[n]
  BY TopFacts
<1>2. /\ stack' \in Seq(Frames) /\ Len(stack') = n - 1
      /\ \A i \in 1..(n - 1) : stack'[i] = stack[i]
  BY FrontFacts DEF Shape
<1>3. /\ active = {stack[i].query : i \in 1..n}
      /\ \A i, j \in 1..n : stack[i].query = stack[j].query => i = j
  BY DEF ActiveInv
<1> HIDE DEF n
<1>4. \A i : i \in 1..(n - 1) <=> i \in 1..n /\ i # n
  BY <1>1
<1>5. n \in 1..n
  BY <1>1
<1>6. active' = {stack'[i].query : i \in 1..(n - 1)}
  BY <1>1, <1>2, <1>3, <1>4, <1>5
<1>7. \A i, j \in 1..(n - 1) : stack'[i].query = stack'[j].query => i = j
  BY <1>2, <1>3, <1>4
<1> QED BY <1>2, <1>4, <1>6, <1>7 DEF n

\* The innermost provider is unwound: it is poisoned and active no more.
LEMMA UnwindKeeps ==
  ASSUME EngineInv, Unwind
  PROVE  EngineInv'
<1> USE CrateFixed
<1>1. /\ failure # "no" /\ stack # <<>> /\ stack' = Front(stack)
      /\ active' = active \ {Top.query} /\ poisoned' = poisoned \cup {Top.query}
      /\ UNCHANGED <<krate, results, stolen, failure>>
  BY DEF Unwind
<1>2. Shape /\ ActiveInv /\ AnsweredInv /\ ConflictInv /\ FailureInv
  BY DEF EngineInv
<1>3. /\ stack' \in Seq(Frames)
      /\ active' = {stack'[i].query : i \in 1..Len(stack')}
      /\ \A i, j \in 1..Len(stack') : stack'[i].query = stack'[j].query => i = j
  BY <1>1, <1>2, PopFacts
<1>4. Top.query \in Query
  BY <1>1, <1>2, TopFacts, FrameFacts DEF Shape
<1>5. Shape'
  BY <1>1, <1>2, <1>3, <1>4 DEF Shape
<1>6. ActiveInv'
  BY <1>1, <1>2, <1>3 DEF ActiveInv
<1>7. AnsweredInv' /\ ConflictInv' /\ FailureInv'
  BY <1>1, <1>2 DEF AnsweredInv, ConflictInv, FailureInv
<1>8. AskedInv' /\ StealInv'
  BY <1>1 DEF AskedInv, StealInv
<1> QED BY <1>5, <1>6, <1>7, <1>8 DEF EngineInv

\* A provider returns: everything it asked for is answered.  Conflict analysis
\* cannot return when a type needs a const fn, for it would be answered
\* already.
LEMMA CompleteKeeps ==
  ASSUME EngineInv, Complete
  PROVE  EngineInv'
<1> USE CrateFixed
<1> DEFINE n == Len(stack)
<1>1. /\ failure = "no" /\ stack # <<>> /\ Top.step > Len(Provider(Top.query))
      /\ stack' = Front(stack) /\ active' = active \ {Top.query}
      /\ results' = results \cup {Top.query}
      /\ UNCHANGED <<krate, poisoned, stolen, failure>>
  BY DEF Complete, Running, Returns
<1>2. Shape /\ ActiveInv /\ AskedInv /\ AnsweredInv /\ StealInv /\ ConflictInv /\ FailureInv
  BY DEF EngineInv
<1>3. krate \in Crates /\ n \in Nat \ {0} /\ Top = stack[n] /\ Top \in Frames /\ Top.query \in Query
  BY <1>1, <1>2, TopFacts, FrameFacts DEF Shape
<1>4. /\ stack' \in Seq(Frames) /\ Len(stack') = n - 1
      /\ \A i \in 1..(n - 1) : stack'[i] = stack[i] /\ i \in 1..n
      /\ active' = {stack'[i].query : i \in 1..Len(stack')}
      /\ \A i, j \in 1..Len(stack') : stack'[i].query = stack'[j].query => i = j
  BY <1>1, <1>2, PopFacts
<1>5. Dependencies[Top.query] \subseteq results /\ Top.query \notin Failing /\ Top.query \notin results
  BY <1>1, <1>3, ReturnFacts, TopAsked
<1>6. Shape'
  BY <1>1, <1>2, <1>3, <1>4 DEF Shape
<1>7. ActiveInv'
  BY <1>1, <1>2, <1>4 DEF ActiveInv
<1>8. AskedInv'
  <2>1. ASSUME NEW i \in 1..(n - 1), NEW x \in AskedBy[stack'[i]]
        PROVE  x \in results' \/ (i < n - 1 /\ x = stack'[i + 1].query)
    <3>1. x \in results \/ (i < n /\ x = stack[i + 1].query)
      BY <1>1, <1>2, <1>4, <2>1 DEF AskedInv
    <3>2. CASE i = n - 1
      <4>1. i + 1 = n
        BY <1>3, <3>2
      <4> QED BY <1>1, <1>3, <3>1, <4>1
    <3>3. CASE i # n - 1
      <4>1. i < n - 1 /\ i + 1 \in 1..(n - 1)
        BY <1>3, <3>3
      <4> QED BY <1>1, <1>4, <3>1, <4>1
    <3> QED BY <3>2, <3>3
  <2> QED BY <1>1, <1>4, <2>1 DEF AskedInv
<1>9. AnsweredInv'
  BY <1>1, <1>2, <1>5 DEF AnsweredInv
<1>10. StealInv'
  <2>1. \A c \in stolen : Thief(c) \in results' \cup active'
    BY <1>1, StealInvFacts
  <2>2. \A i \in 1..(n - 1) : Pending[stack'[i]] \cap stolen = {}
    BY <1>1, <1>4, StealInvFacts
  <2>3. \A c \in stolen : c[1] # "mir_validated" /\ (Reader(c) \in Query => Reader(c) \in results')
    BY <1>1, StealInvFacts
  <2> QED BY <1>1, <1>4, <2>1, <2>2, <2>3 DEF StealInv, Reader, Thief
<1>11. ConflictInv'
  <2>1. CASE Top.query = <<"conflict_analysis">>
    <3>1. /\ results \subseteq Query
          /\ \A q \in results : Dependencies[q] \subseteq results /\ q \notin Failing
      BY <1>2 DEF Shape, AnsweredInv
    <3>2. ~MirNeedsConstFn
      BY <1>3, <1>5, <2>1, <3>1, AnalysisAnswers
    <3> QED BY <1>1, <3>2 DEF ConflictInv
  <2>2. CASE Top.query # <<"conflict_analysis">>
    BY <1>1, <1>2, <2>2 DEF ConflictInv
  <2> QED BY <2>1, <2>2
<1>12. FailureInv'
  BY <1>1, <1>2 DEF FailureInv
<1> QED BY <1>6, <1>7, <1>8, <1>9, <1>10, <1>11, <1>12 DEF EngineInv

-----------------------------------------------------------------------------
(* For every crate and every order in which its bodies are compiled, the    *)
(* engine's invariant holds.                                                *)
THEOREM EngineCorrect == QuerySpec => []EngineInv
<1>1. QueryInit => EngineInv
  <2> SUFFICES ASSUME QueryInit PROVE EngineInv
    OBVIOUS
  <2> DEFINE q == <<"driver">>
  <2>1. /\ krate \in Crates /\ q \in Query /\ stack = <<Job(q)>> /\ active = {q}
        /\ results = {} /\ poisoned = {} /\ stolen = {} /\ failure = "no"
    BY DEF QueryInit, Query
  <2> HIDE DEF q
  <2>2. Job(q) \in Frames /\ Job(q).query = q /\ AskedBy[Job(q)] = {}
    BY <2>1, JobFacts
  <2> DEFINE j == Job(q)
  <2> HIDE DEF j
  <2>3. stack = <<j>> /\ j \in Frames /\ j.query = q /\ AskedBy[j] = {}
    BY <2>1, <2>2 DEF j
  <2>4. stack \in Seq(Frames) /\ Len(stack) = 1 /\ stack[1] = j
    BY <2>3
  <2>5. Shape
    BY <2>1, <2>4 DEF Shape
  <2>6. \A i \in 1..Len(stack) : i = 1
    BY <2>4
  <2>7. ActiveInv
    <3>1. active = {stack[i].query : i \in 1..Len(stack)}
      BY <2>1, <2>3, <2>4, <2>6
    <3> QED BY <2>1, <2>6, <3>1 DEF ActiveInv
  <2>8. AskedInv /\ AnsweredInv /\ StealInv /\ ConflictInv /\ FailureInv
    BY <2>1, <2>3, <2>4, <2>6 DEF AskedInv, AnsweredInv, StealInv, ConflictInv, FailureInv
  <2> QED BY <2>5, <2>7, <2>8 DEF EngineInv
<1>2. EngineInv /\ [QueryNext]_query_vars => EngineInv'
  <2> SUFFICES ASSUME EngineInv, [QueryNext]_query_vars PROVE EngineInv'
    OBVIOUS
  <2>1. CASE NextStep
    BY <2>1, NextStepKeeps
  <2>2. CASE Complete
    BY <2>2, CompleteKeeps
  <2>3. CASE SpanBug
    BY <2>3, SpanBugKeeps
  <2>4. CASE Unwind
    BY <2>4, UnwindKeeps
  <2>5. ASSUME NEW x \in Top.todo,
               JobCompleted(x) \/ NotYetStarted(x) \/ Cycle(x) \/ BorrowValue(x) \/ StealValue(x)
        PROVE  EngineInv'
    BY <2>5, JobCompletedKeeps, NotYetStartedKeeps, CycleKeeps, BorrowValueKeeps, StealValueKeeps
  <2>6. CASE UNCHANGED query_vars
    <3> USE CrateFixed
    <3>1. UNCHANGED <<krate, stack, results, active, poisoned, stolen, failure>>
      BY <2>6 DEF query_vars
    <3> QED BY <3>1 DEF EngineInv, Shape, ActiveInv, AskedInv, AnsweredInv, StealInv, FailureInv,
                        ConflictInv, Reader, Thief
  <2> QED BY <2>1, <2>2, <2>3, <2>4, <2>5, <2>6 DEF QueryNext, QueryStep, CompilerEnded
<1> QED BY <1>1, <1>2, PTL DEF QuerySpec

(* Only queries there are are asked for, answered or poisoned, only Steals  *)
(* there are are taken, and no answered query runs.                         *)
THEOREM QueryTypes == QuerySpec => []QueryTypeOK
<1>1. EngineInv => QueryTypeOK
  <2> SUFFICES ASSUME EngineInv PROVE QueryTypeOK
    OBVIOUS
  <2>1. Shape /\ ActiveInv
    BY DEF EngineInv
  <2>2. \A q \in Query : q[1] \in Names
    BY DEF Query, Q, Names
  <2>3. DOMAIN stack = 1..Len(stack) /\ \A i \in 1..Len(stack) : stack[i] \in Frames
    BY <2>1, LenProperties, ElementOfSeq DEF Shape
  <2>4. \A i \in 1..Len(stack) : stack[i].query \in Query
    BY <2>3 DEF Frames
  <2>5. results \cup active \cup poisoned \subseteq Query
    BY <2>1, <2>4 DEF Shape, ActiveInv
  <2> QED BY <2>1, <2>2, <2>3, <2>4, <2>5 DEF QueryTypeOK, Shape, ActiveInv, Cells
<1> QED BY <1>1, EngineCorrect, PTL

(* No Steal is read or taken after it was taken, nor taken while it is      *)
(* being read, in any crate and any order of the bodies.                    *)
THEOREM NeverStolen == QuerySpec => []NoStolenRead
<1>1. EngineInv => NoStolenRead
  BY DEF EngineInv, FailureInv, NoStolenRead
<1> QED BY <1>1, EngineCorrect, PTL

(* The queries that are marked as running are those on the stack, each of   *)
(* them once, and none of them was poisoned.                                *)
THEOREM ActiveStack == QuerySpec => []ActiveIsTheStack
<1>1. EngineInv => ActiveIsTheStack
  <2> SUFFICES ASSUME EngineInv PROVE ActiveIsTheStack
    OBVIOUS
  <2> DEFINE n == Len(stack)
             f == [i \in 1..n |-> stack[i].query]
  <2>1. /\ active = {stack[i].query : i \in 1..n}
        /\ \A i, j \in 1..n : stack[i].query = stack[j].query => i = j
        /\ poisoned \cap active = {}
    BY DEF EngineInv, ActiveInv
  <2>2. DOMAIN stack = 1..n /\ n \in Nat
    BY LenProperties DEF EngineInv, Shape
  <2>3. f \in Bijection(1..n, active)
    <3>1. f \in [1..n -> active]
      BY <2>1
    <3>2. \A i, j \in 1..n : f[i] = f[j] => i = j
      BY <2>1
    <3>3. \A q \in active : \E i \in 1..n : f[i] = q
      BY <2>1
    <3> QED BY <3>1, <3>2, <3>3, Fun_IsBij
  <2>4. Cardinality(active) = n
    BY <2>2, <2>3, Fun_ExistsBij, FS_CountingElements
  <2> QED BY <2>1, <2>2, <2>4 DEF ActiveIsTheStack
<1> QED BY <1>1, EngineCorrect, PTL

(* When the MIR of a function or a closure is there, the whole crate was    *)
(* analysed before: optimized_mir has asked for the conflict sets.          *)
THEOREM PatchedLate == QuerySpec => []PatchedAfterAnalysis
<1>1. EngineInv => PatchedAfterAnalysis
  <2> SUFFICES ASSUME EngineInv, NEW d \in DefIds, <<"optimized_mir", d>> \in results,
                      Kind(d) \in {"fn", "closure"}, NEW e \in Analysed \ krate.const_fn
               PROVE  <<"get_shared_objects", e>> \in results
    BY DEF PatchedAfterAnalysis
  <2>1. /\ krate \in Crates /\ results \subseteq Query
        /\ \A q \in results : Dependencies[q] \subseteq results /\ q \notin Failing
    BY DEF EngineInv, Shape, AnsweredInv
  <2>2. d \in MirKeys
    BY DEF MirKeys
  <2>3. <<"conflict_analysis">> \in results
    BY <2>1, <2>2, Depends
  <2>4. ~TracesBodyless /\ \A r \in Roots : <<"get_shared_objects", r>> \in results
    BY <2>1, <2>3, AnalysisAnswers
  <2>5. e \in Roots
    BY <2>1, <2>4, AnalysedFacts DEF TracesBodyless, Roots, MirKeys, IsConstFn
  <2> QED BY <2>4, <2>5
<1> QED BY <1>1, EngineCorrect, PTL

(* A crate with a function or a closure, in which the types or the patterns *)
(* of an analysed body depend on a const fn or a shared object is passed to *)
(* a function without a body, is compiled in no order of its bodies.        *)
THEOREM UnsupportedFail == QuerySpec => []UnsupportedCratesFail
<1>1. EngineInv => UnsupportedCratesFail
  <2> SUFFICES ASSUME EngineInv, <<"driver">> \in results, AsksForPatches
               PROVE  ~MirNeedsConstFn /\ ~TracesBodyless
    BY DEF UnsupportedCratesFail
  <2>1. /\ krate \in Crates /\ results \subseteq Query /\ ConflictInv
        /\ \A q \in results : Dependencies[q] \subseteq results /\ q \notin Failing
    BY DEF EngineInv, Shape, AnsweredInv
  <2>2. PICK d \in MirKeys : Kind(d) \in {"fn", "closure"}
    BY DEF AsksForPatches, MirKeys
  <2>3. <<"optimized_mir", d>> \in results
    BY <2>1, Depends
  <2>4. <<"conflict_analysis">> \in results
    BY <2>1, <2>2, <2>3, Depends
  <2>5. ~TracesBodyless
    BY <2>1, <2>4, AnalysisAnswers
  <2> QED BY <2>1, <2>4, <2>5 DEF ConflictInv
<1> QED BY <1>1, EngineCorrect, PTL
=============================================================================
