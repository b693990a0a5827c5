---------------------------- MODULE CrateAnalysis ----------------------------
(***************************************************************************)
(* The query conflict_analysis as a whole (librustc_mir/transform/mod.rs): *)
(* use-def analysis of every function of the crate, then ConflictAnalysis  *)
(* on what they reported.                                                  *)
(*                                                                         *)
(* UseDef's allocation_sets is the input of ConflictAnalysis.  One block   *)
(* may be reported by several functions: by the one that allocates an      *)
(* object, by its callers that allocate others.  What the two analyses     *)
(* compute together is compared with what executions of the crate do.      *)
(***************************************************************************)
EXTENDS UseDefReference

VARIABLES pc, next_set, object_users, tx_to_objects, tx_todo, neighbours,
          keys, visited, dfs, conflict_set, conflict_sets

\* The allocations and the transaction blocks of the programs.
Positions(p, f, op) == {i \in DOMAIN p[f] : p[f][i].op = op}
CrateObjects == UNION {UNION {{<<f, p[f][i].dst, i, 0>> : i \in Positions(p, f, "new")} :
                                f \in DOMAIN p} : p \in Programs}
CrateSites == UNION {UNION {{<<f, i>> : i \in Positions(p, f, "lock")} :
                              f \in DOMAIN p} : p \in Programs}

CA == INSTANCE ConflictAnalysis
        WITH Objects <- CrateObjects, Sites <- CrateSites,
             Inputs <- {<<>>},
             vertices <- object_users, edges <- neighbours, stack <- dfs

crate_vars == <<use_vars, pc, next_set, object_users, tx_to_objects, tx_todo, neighbours,
                keys, visited, dfs, conflict_set, conflict_sets>>

CrateInit == UseInit /\ CA!Init

\* The first loop of conflict_analysis.
AskForSharedObjects ==
  /\ UseStep
  /\ UNCHANGED <<pc, next_set, object_users, tx_to_objects, tx_todo, neighbours,
                 keys, visited, dfs, conflict_set, conflict_sets>>

(* ConflictAnalysis::new(all).perform().                                    *)
PerformConflictAnalysis ==
  /\ AllShared /\ pc # "done" /\ CA!Next
  /\ UNCHANGED <<prog, todo, root, stack, maps, status>>

CrateStep == AskForSharedObjects \/ PerformConflictAnalysis

CrateEnded == (pc = "done" \/ Crashed) /\ UNCHANGED crate_vars

CrateNext == CrateStep \/ CrateEnded

CrateSpec == CrateInit /\ [][CrateNext]_crate_vars

(* The query runs to its end on the compiler's thread.                      *)
FairCrateSpec == CrateSpec /\ WF_crate_vars(CrateStep)

-----------------------------------------------------------------------------
(* What executions of the crate do, and the locks that makes necessary.     *)

AllExecuted == UNION {Executed(f) : f \in DOMAIN prog}

\* The smallest sets of blocks that borrow no common object.
Components(uses) ==
  LET Together(txs) ==
        {u.tx : u \in {v \in uses : \E w \in uses : w.tx \in txs /\ w.shared_object = v.shared_object}}
      round[n \in Nat, tx \in {u.tx : u \in uses}] ==
        IF n = 0 THEN {tx} ELSE Together(round[n - 1, tx])
  IN {round[Cardinality(uses), u.tx] : u \in uses}

(* End to end: the locks of the crate are exactly the ones its executions   *)
(* need.  Two blocks take one lock if and only if a chain of objects that   *)
(* executions borrow in them connects them, however many functions the      *)
(* objects were allocated in and the blocks were reported by.               *)
LocksAreTheNeededOnes ==
  pc = "done" /\ prog \in Supported =>
    LET needed == Components(AllExecuted)
    IN /\ {{t.site : t \in conflict_sets[i]} : i \in DOMAIN conflict_sets} = needed
       /\ Len(conflict_sets) = Cardinality(needed)

(* A block has a writer among its Transactions if and only if an execution  *)
(* writes a shared object in it: no update is made under a reader's lock,   *)
(* and no block that only reads excludes other readers.                     *)
WritersAreTheNeededOnes ==
  pc = "done" /\ prog \in Supported =>
    {t.site : t \in {s \in UNION ToSet(conflict_sets) : s.is_write}}
      = {u.tx : u \in {v \in AllExecuted : v.is_write}}

(* The query ends for every crate, by an answer or by a panic.              *)
QueryEnds == <>(pc = "done" \/ Crashed)
=============================================================================
