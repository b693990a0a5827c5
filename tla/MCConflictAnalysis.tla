------------------------- MODULE MCConflictAnalysis -------------------------
(* Small inputs for ConflictAnalysis.  map_allocation creates an entry of   *)
(* an allocation set together with its first use, so none is empty.         *)
EXTENDS ConflictAnalysis

CONSTANTS a, b, c,     \* three transaction blocks
          MaxUses      \* most uses one AllocationSet lists

SmallSubsets(S) == {x \in SUBSET S : Cardinality(x) \in 1..MaxUses}

\* Every pair of AllocationSets of two blocks: a block can be reported twice,
\* as a reader by one function and as a writer by another.
Pairs ==
  [1..2 -> [site : {a, b}, allocations : SmallSubsets(TransactionUse)]]

\* Three blocks that only read: objects are joined through chains of
\* transactions in every way.
Chains ==
  {<<[site |-> a, allocations |-> ua],
     [site |-> b, allocations |-> ub],
     [site |-> c, allocations |-> uc]>> :
       ua, ub, uc \in SmallSubsets([shared_object : Objects, is_write : {FALSE}])}

MCInputs == Pairs \cup Chains
=============================================================================
