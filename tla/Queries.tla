-------------------------------- MODULE Queries --------------------------------
(***************************************************************************)
(* The queries through which a crate is compiled, with the passes of       *)
(* TORTIS among them: get_shared_objects and conflict_analysis of          *)
(* librustc_mir/transform/mod.rs and make_patches, which optimized_mir     *)
(* calls.                                                                  *)
(*                                                                         *)
(* A query is computed by its provider, which asks for other queries; the  *)
(* engine (librustc/ty/query/plumbing.rs) keeps the answers, and the       *)
(* queries whose provider is running, to report a query that needs itself. *)
(* The MIR of a body is handed from one provider to the next in a Steal    *)
(* (librustc/ty/steal.rs): whoever steals it must be the last to use it.   *)
(* Upstream every body is compiled by itself; conflict_analysis needs the  *)
(* MIR of all bodies of the crate, whichever body is compiled first.       *)
(*                                                                         *)
(* A provider is the sequence of its steps, each with the set of queries   *)
(* or Steals it applies to, in any order: the sets that are gone through   *)
(* are hash sets.  What the providers compute is left out.  The compiler   *)
(* is the single-threaded one, without incremental compilation.            *)
(***************************************************************************)
EXTENDS Naturals, Sequences, FiniteSets, SequencesExt

(* A crate is a record:                                                      *)
(*   kind      body -> "fn", "closure", "method", "const" (a constant or the *)
(*             length of an array), "ctor" (of a tuple struct) or "bodyless" *)
(*             (a required method of a trait, a foreign function)            *)
(*   const_fn  the bodies declared const fn                                  *)
(*   owner     body -> the body it is type-checked with: itself, or for a    *)
(*             closure the function it is in                                 *)
(*   lengths   body -> constants the types of its expressions depend on      *)
(*   built     body -> constants that building its MIR evaluates: those its  *)
(*             patterns name, the counts of its repeat expressions, and the  *)
(*             discriminants of the enums it tests                           *)
(*   mentions  body -> constants its MIR mentions, and the discriminants of  *)
(*             the enums whose layout it takes to evaluate or optimize it    *)
(*   calls     body -> functions of the crate it calls, that have MIR        *)
(*   traces    body -> functions of the crate it passes a shared object to   *)
(*   txs       bodies with a transaction that uses a shared object           *)
(*   inlining  whether -Z mir-opt-level asks for inlining                    *)
(* Bodies are numbers, in the order of their node ids.                       *)
CONSTANT Crates

ASSUME CratesAssumption ==
  \A k \in Crates :
    LET D == DOMAIN k.kind
    IN /\ D \subseteq Nat
       /\ k.kind \in [D -> {"fn", "closure", "method", "const", "ctor", "bodyless"}]
       /\ k.const_fn \subseteq {d \in D : k.kind[d] \in {"fn", "method"}} /\ k.txs \subseteq D
       /\ k.owner \in [D -> D]
       /\ {k.lengths, k.built, k.mentions, k.calls, k.traces} \subseteq [D -> SUBSET D]
       /\ \A d \in D :
            /\ IF k.kind[d] = "closure" THEN k.kind[k.owner[d]] # "closure" ELSE k.owner[d] = d
            /\ \A c \in k.lengths[d] \cup k.built[d] \cup k.mentions[d] : k.kind[c] = "const"
            /\ \A f \in k.calls[d] : k.kind[f] \notin {"const", "bodyless"}
            /\ k.kind[d] \in {"ctor", "bodyless"} =>
                 k.lengths[d] = {} /\ k.built[d] = {} /\ k.mentions[d] = {} /\ k.calls[d] = {}
       /\ \A d \in k.txs : k.kind[d] \notin {"ctor", "bodyless"}
       /\ k.inlining \in BOOLEAN

VARIABLES
  krate,    \* the crate; never changes
  stack,    \* running providers, innermost last: the query, the step it is at,
            \* what the step has not been applied to, the Steals it borrows
  results,  \* queries that are answered
  active,   \* queries whose provider is running
  poisoned, \* queries whose provider was unwound
  stolen,   \* Steals whose value was taken
  failure   \* "no", or what ended the compiler

query_vars == <<krate, stack, results, active, poisoned, stolen, failure>>

DefIds == DOMAIN krate.kind
Kind(d) == krate.kind[d]

-----------------------------------------------------------------------------
(* Steps of providers.                                                      *)

Get(queries) == [op |-> "get", args |-> queries]
Borrow(cells) == [op |-> "borrow", args |-> cells] \* until the provider returns
Read(cells) == [op |-> "read", args |-> cells]     \* for this step only
Steal(cell) == [op |-> "steal", args |-> {cell}]
Bug == [op |-> "bug", args |-> {"bug"}]

Q(name, ds) == {<<name, d>> : d \in ds}

MirKeys == {d \in DefIds : Kind(d) # "bodyless"}
IsConstFn(d) == d \in krate.const_fn \/ Kind(d) = "ctor"
ClosuresOf(d) == {c \in DefIds : Kind(c) = "closure" /\ krate.owner[c] = d /\ c # d}

\* What one comes to from ds: what is in every set that holds ds and leads
\* nowhere else.
Reachable(ds, relation) ==
  {d \in DefIds : \A S \in SUBSET DefIds :
                    ds \subseteq S /\ (\A e \in S : relation[e] \subseteq S) => d \in S}

\* What conflict analysis looks at: bodies that are no const fns, and the
\* functions shared objects are passed to.
Analysed == LET roots == {d \in MirKeys : ~IsConstFn(d)}
            IN Reachable(roots, krate.traces)

(* The bodies whose transactions are in the conflict sets.                  *)
TxBodies == {d \in krate.txs : ~IsConstFn(d) \/ d \in Analysed}

(* Type checking evaluates the lengths of arrays.                           *)
TypeckTablesOf(d) == <<Get(Q("const_eval", krate.lengths[d]))>>

(* Evaluating a constant: its MIR is loaded, and that of every const fn the *)
(* evaluation calls; the constants they mention are evaluated.              *)
ConstEval(d) ==
  LET callees == Reachable(krate.calls[d], krate.calls)
  IN <<Get(Q("typeck_tables_of", {d})), Get(Q("optimized_mir", {d})),
       Get(Q("optimized_mir", callees)
             \cup Q("const_eval", UNION {krate.mentions[e] : e \in callees \cup {d}}))>>

(* Building MIR evaluates the constants that patterns name (lower_path) and *)
(* the counts of repeat expressions, and for a switch on the variants of an *)
(* enum the discriminants they are given.                                   *)
LowerPath(d) == Q("const_eval", krate.built[d])

\* Mutant: MIR is built for anything.
BuildAnything(d) == <<Get(Q("typeck_tables_of", {krate.owner[d]})), Get(LowerPath(d))>>

(* mir_build stops the compiler at what has no body of its own.             *)
MirBuilt(d) ==
  IF Kind(d) \in {"ctor", "bodyless"} THEN <<Bug>>
  ELSE <<Get(Q("typeck_tables_of", {krate.owner[d]})), Get(LowerPath(d))>>

UnsafetyCheckResult(d) ==
  <<Get(Q("mir_built", {d})), Borrow(Q("mir_built", {d})),
    Get(Q("unsafety_check_result", ClosuresOf(d)))>>

MirConst(d) ==
  <<Get(Q("unsafety_check_result", {d})),
    Get(Q("mir_built", {d})), Steal(<<"mir_built", d>>)>>

MirConstQualif(d) ==
  <<Get(Q("mir_const", {d})), Borrow(Q("mir_const", {d})),
    Get(Q("mir_const_qualif", krate.mentions[d]))>>

(* The qualification of a constant reads mir_const, so it comes first.      *)
MirValidated(d) ==
  <<Get(IF Kind(d) = "const" THEN Q("mir_const_qualif", {d}) ELSE {}),
    Get(Q("mir_const", {d})), Steal(<<"mir_const", d>>),
    Get(Q("mir_const_qualif", krate.mentions[d]))>>

MirBorrowck(d) ==
  <<Get(Q("mir_validated", {d})),
    Borrow({<<"mir_validated", d>>, <<"promoted", d>>}),
    Get(Q("mir_borrowck", ClosuresOf(d)))>>

(* Use-def analysis follows shared objects into the functions they are      *)
(* passed to, and reads their MIR.                                          *)
GetSharedObjects(d) ==
  LET callees == Reachable(krate.traces[d], krate.traces)
  IN <<Get(Q("mir_validated", {d})), Borrow(Q("mir_validated", {d})),
       Get(Q("mir_validated", callees)), Borrow(Q("mir_validated", callees))>>

\* Mutant: the const fns are analysed as well.
AnalyseAll == <<Get(Q("get_shared_objects", MirKeys))>>

ConflictAnalysis == <<Get(Q("get_shared_objects", {d \in MirKeys : ~IsConstFn(d)}))>>

\* Mutant: closures are no bodies of their own.
FunctionsOnly(d) ==
  IF Kind(d) = "fn"
    THEN <<Get({<<"conflict_analysis">>}),
           Get(Q("mir_validated", TxBodies)), Read(Q("mir_validated", TxBodies))>>
    ELSE <<>>

(* The conflict sets, and the MIR of every body with a transaction in them. *)
MakePatches(d) ==
  IF Kind(d) \in {"fn", "closure"}
    THEN <<Get({<<"conflict_analysis">>}),
           Get(Q("mir_validated", TxBodies)), Read(Q("mir_validated", TxBodies))>>
    ELSE <<>>

(* Of the optimization passes: constants are propagated, with the promoted  *)
(* ones of this body, and functions with a higher node id are inlined.      *)
RunOptimizationPasses(d) ==
  <<Get(IF krate.inlining THEN Q("optimized_mir", {f \in krate.calls[d] : d < f}) ELSE {}),
    Get(IF Kind(d) = "const" THEN {}
        ELSE Q("const_eval", krate.mentions[d]) \cup Q("promoted_mir", {d}))>>

\* Mutant: the MIR is stolen, as upstream does ("used to be body.steal()").
StealValidated(d) ==
  IF Kind(d) = "ctor" THEN <<>>
  ELSE <<Get(Q("mir_borrowck", {d}))>> \o MakePatches(d) \o
       <<Get(Q("mir_validated", {d})), Steal(<<"mir_validated", d>>)>> \o
       RunOptimizationPasses(d)

OptimizedMir(d) ==
  IF Kind(d) = "ctor" THEN <<>>
  ELSE <<Get(Q("mir_borrowck", {d}))>> \o MakePatches(d) \o
       <<Get(Q("mir_validated", {d})), Read(Q("mir_validated", {d}))>> \o
       RunOptimizationPasses(d)

PromotedMir(d) ==
  IF Kind(d) = "ctor" THEN <<>>
  ELSE <<Get(Q("mir_borrowck", {d})), Get(Q("mir_validated", {d})), Steal(<<"promoted", d>>)>>

(* The driver: all bodies are type-checked, then borrow-checked, and then   *)
(* code is generated for them.  Discriminants are evaluated before and the  *)
(* constants of patterns after the bodies are type-checked, by the checks   *)
(* of items and of matches; the model takes them in any order.              *)
Driver ==
  LET owners == {d \in MirKeys : Kind(d) # "ctor"}
  IN <<Get(Q("typeck_tables_of", {krate.owner[d] : d \in owners})
             \cup Q("const_eval", UNION {krate.built[d] : d \in owners})),
       Get(Q("mir_borrowck", owners)),
       Get(Q("optimized_mir", MirKeys) \cup Q("promoted_mir", MirKeys))>>

Provider(q) ==
  CASE q[1] = "driver" -> Driver
    [] q[1] = "typeck_tables_of" -> TypeckTablesOf(q[2])
    [] q[1] = "const_eval" -> ConstEval(q[2])
    [] q[1] = "mir_built" -> MirBuilt(q[2])
    [] q[1] = "unsafety_check_result" -> UnsafetyCheckResult(q[2])
    [] q[1] = "mir_const" -> MirConst(q[2])
    [] q[1] = "mir_const_qualif" -> MirConstQualif(q[2])
    [] q[1] = "mir_validated" -> MirValidated(q[2])
    [] q[1] = "mir_borrowck" -> MirBorrowck(q[2])
    [] q[1] = "get_shared_objects" -> GetSharedObjects(q[2])
    [] q[1] = "conflict_analysis" -> ConflictAnalysis
    [] q[1] = "optimized_mir" -> OptimizedMir(q[2])
    [] q[1] = "promoted_mir" -> PromotedMir(q[2])

Args(q, i) == IF i <= Len(Provider(q)) THEN Provider(q)[i].args ELSE {}

Job(q) == [query |-> q, step |-> 1, todo |-> Args(q, 1), borrowed |-> {}]

-----------------------------------------------------------------------------
(* The engine.                                                              *)

QueryInit ==
  /\ krate \in Crates
  /\ stack = <<Job(<<"driver">>)>>
  /\ results = {}
  /\ active = {<<"driver">>}
  /\ poisoned = {}
  /\ stolen = {}
  /\ failure = "no"

Running == failure = "no" /\ stack # <<>>
Top == Last(stack)
Returns == Top.step > Len(Provider(Top.query))
At(op) == Running /\ ~Returns /\ Provider(Top.query)[Top.step].op = op

\* The innermost provider, when it is done with one argument of its step.
DoneWith(x) == [Top EXCEPT !.todo = @ \ {x}]

(* The provider goes on to its next step.                                   *)
NextStep ==
  /\ Running /\ ~Returns /\ Top.todo = {}
  /\ stack' = Append(Front(stack),
                [Top EXCEPT !.step = @ + 1, !.todo = Args(Top.query, Top.step + 1)])
  /\ UNCHANGED <<krate, results, active, poisoned, stolen, failure>>

\* Mutant: an answer that is there is asked for again.
AskAgain(q) ==
  /\ At("get") /\ q \in Top.todo /\ q \in results
  /\ UNCHANGED query_vars

(* try_get: the query is answered already.                                  *)
JobCompleted(q) ==
  /\ At("get") /\ q \in Top.todo /\ q \in results
  /\ stack' = Append(Front(stack), DoneWith(q))
  /\ UNCHANGED <<krate, results, active, poisoned, stolen, failure>>

(* try_get: the provider is started.                                        *)
NotYetStarted(q) ==
  /\ At("get") /\ q \in Top.todo /\ q \notin results \cup active
  /\ stack' = Append(Append(Front(stack), DoneWith(q)), Job(q))
  /\ active' = active \cup {q}
  /\ UNCHANGED <<krate, results, poisoned, stolen, failure>>

(* try_get: the provider is running: handle_cycle_error reports the cycle   *)
(* and the compiler stops.                                                  *)
Cycle(q) ==
  /\ At("get") /\ q \in Top.todo /\ q \in active \ results
  /\ failure' = "cycle"
  /\ UNCHANGED <<krate, stack, results, active, poisoned, stolen>>

\* Mutant: the query stays active.
CompleteStillActive ==
  /\ Running /\ Returns
  /\ stack' = Front(stack)
  /\ results' = results \cup {Top.query}
  /\ UNCHANGED <<krate, active, poisoned, stolen, failure>>

(* The provider returns.                                                    *)
Complete ==
  /\ Running /\ Returns
  /\ stack' = Front(stack)
  /\ active' = active \ {Top.query}
  /\ results' = results \cup {Top.query}
  /\ UNCHANGED <<krate, poisoned, stolen, failure>>

(* Steal::borrow.                                                           *)
BorrowValue(cell) ==
  /\ At("borrow") \/ At("read")
  /\ cell \in Top.todo
  /\ failure' = IF cell \in stolen THEN "stolen" ELSE "no"
  /\ stack' = Append(Front(stack),
                [DoneWith(cell) EXCEPT !.borrowed = IF At("borrow") THEN @ \cup {cell} ELSE @])
  /\ UNCHANGED <<krate, results, active, poisoned, stolen>>

Borrowed == UNION {stack[i].borrowed : i \in DOMAIN stack}

(* Steal::steal; a value that is borrowed cannot be taken.                  *)
StealValue(cell) ==
  /\ At("steal") /\ cell \in Top.todo
  /\ failure' = IF cell \in stolen THEN "stolen" ELSE IF cell \in Borrowed THEN "locked" ELSE "no"
  /\ stolen' = stolen \cup {cell}
  /\ stack' = Append(Front(stack), DoneWith(cell))
  /\ UNCHANGED <<krate, results, active, poisoned>>

SpanBug ==
  /\ At("bug")
  /\ failure' = "bug"
  /\ UNCHANGED <<krate, stack, results, active, poisoned, stolen>>

\* Mutant: the query is poisoned and stays active.
UnwindStillActive ==
  /\ failure # "no" /\ stack # <<>>
  /\ stack' = Front(stack)
  /\ poisoned' = poisoned \cup {Top.query}
  /\ UNCHANGED <<krate, results, active, stolen, failure>>

(* The compiler unwinds: JobOwner::drop.                                    *)
Unwind ==
  /\ failure # "no" /\ stack # <<>>
  /\ stack' = Front(stack)
  /\ active' = active \ {Top.query}
  /\ poisoned' = poisoned \cup {Top.query}
  /\ UNCHANGED <<krate, results, stolen, failure>>

QueryStep ==
  \/ Running /\ \E x \in Top.todo :
       JobCompleted(x) \/ NotYetStarted(x) \/ Cycle(x) \/ BorrowValue(x) \/ StealValue(x)
  \/ NextStep \/ Complete \/ SpanBug \/ Unwind

CompilerEnded == stack = <<>> /\ UNCHANGED query_vars

QueryNext == QueryStep \/ CompilerEnded

QuerySpec == QueryInit /\ [][QueryNext]_query_vars

(* Providers run to completion on the compiler's thread.                    *)
FairQuerySpec == QuerySpec /\ WF_query_vars(QueryStep)

-----------------------------------------------------------------------------
Names == {"driver", "typeck_tables_of", "const_eval", "mir_built", "unsafety_check_result",
          "mir_const", "mir_const_qualif", "mir_validated", "mir_borrowck",
          "get_shared_objects", "conflict_analysis", "optimized_mir", "promoted_mir"}

QueryTypeOK ==
  /\ krate \in Crates
  /\ \A q \in results \cup active \cup poisoned : q[1] \in Names
  /\ \A i \in DOMAIN stack : stack[i].query[1] \in Names
  /\ results \cap active = {}
  /\ stolen \subseteq {"mir_built", "mir_const", "mir_validated", "promoted"} \X DefIds
  /\ failure \in {"no", "cycle", "stolen", "locked", "bug"}

(* "Once you steal, any further attempt to read will panic": although every *)
(* body may ask for the MIR of every other one, in any order, no Steal is   *)
(* read or taken after it was taken, nor taken while it is being read.      *)
NoStolenRead == failure \notin {"stolen", "locked"}

(* A query that meets itself is found among the running providers, so that  *)
(* find_cycle_in_stack has a cycle to report; after a failure nothing is    *)
(* left marked as running.                                                  *)
ActiveIsTheStack ==
  /\ active = {stack[i].query : i \in DOMAIN stack}
  /\ Cardinality(active) = Len(stack)
  /\ active \cap poisoned = {}

\* The constants that are evaluated to type-check d and to build its MIR.
BuiltWith(d) == krate.lengths[krate.owner[d]] \cup krate.built[d]

\* To evaluate d, or a constant that mentions or calls d, takes these.
Needed == [d \in DefIds |-> BuiltWith(d) \cup krate.mentions[d] \cup krate.calls[d]]

\* Building the MIR of d evaluates a const fn that make_patches is called for.
NeedsConstFn(d) == \E f \in Reachable(BuiltWith(d), Needed) : Kind(f) \in {"fn", "closure"}

MirNeedsConstFn == \E d \in Analysed \cap MirKeys : NeedsConstFn(d)
TracesBodyless == \E d \in Analysed : Kind(d) \in {"ctor", "bodyless"}

\* A function is checked together with its closures, so what one of them
\* needs all of them do.  No constant of a Rust program may need itself.
Involved ==
  [d \in DefIds |-> Needed[d] \cup ClosuresOf(d) \cup ({krate.owner[d]} \ {d})]
ConstantInvolvesItself ==
  \E c \in DefIds : Kind(c) = "const" /\ c \in Reachable(Involved[c], Involved)

(* For a crate whose constants do not involve themselves, compilation fails *)
(* in two cases only: the MIR of a body that is analysed cannot be built    *)
(* without evaluating a const fn of the crate, because of its types or of   *)
(* its patterns, and then there is a cycle through conflict_analysis; or a  *)
(* shared object is passed to a function without a body.                    *)
FailuresExplained ==
  /\ failure = "cycle" => MirNeedsConstFn \/ ConstantInvolvesItself
  /\ failure = "bug" => TracesBodyless

\* Without a function and a closure nothing asks for the conflict sets.
AsksForPatches == \E d \in DefIds : Kind(d) \in {"fn", "closure"}

(* In these two cases no crate with a function or a closure is compiled,    *)
(* whatever body comes first.                                               *)
UnsupportedCratesFail ==
  <<"driver">> \in results /\ AsksForPatches => ~MirNeedsConstFn /\ ~TracesBodyless

(* No function or closure is patched before the whole crate was analysed.   *)
PatchedAfterAnalysis ==
  \A d \in DefIds :
    <<"optimized_mir", d>> \in results /\ Kind(d) \in {"fn", "closure"} =>
      \A e \in Analysed \ krate.const_fn : <<"get_shared_objects", e>> \in results

(* A test of the compiler (test/ui/consts/const-fn.rs) is compiled.         *)
NoCycle == failure # "cycle"

(* The compiler ends, with code for every body or with a failure that is    *)
(* unwound to the end.                                                      *)
CompilerEnds == <>(stack = <<>>)
=============================================================================
