-------------------------- MODULE AtomicTransactions --------------------------
(***************************************************************************)
(* What a program is promised when it puts accesses to shared objects into *)
(* a transaction block: "real-time software transactional memory without   *)
(* retries" (README).  A thread asks for a transaction, and at some later  *)
(* moment all its updates happen in one step.  Every transaction that is   *)
(* asked for commits.                                                      *)
(*                                                                         *)
(* Updating an object means replacing its value by the successor: an       *)
(* update is a read followed by a write, so that a lost update shows.      *)
(***************************************************************************)
EXTENDS Naturals

CONSTANTS Threads, Sites, Objects, Values

VARIABLES
  writable, \* block -> objects it may update; fixed by the program
  store,    \* the committed value of every object
  pending   \* thread -> the block it is executing, as a set of at most one

atomic_vars == <<writable, store, pending>>

AtomicInit ==
  /\ writable \in [Sites -> SUBSET Objects]
  /\ store = [o \in Objects |-> 0]
  /\ pending = [th \in Threads |-> {}]

Request(th, s) ==
  /\ pending[th] = {}
  /\ pending' = [pending EXCEPT ![th] = {s}]
  /\ UNCHANGED <<writable, store>>

(* The updates of a transaction: some of the objects its block may write.   *)
Commit(th) ==
  \E s \in pending[th] : \E updated \in SUBSET writable[s] :
    /\ store' = [o \in Objects |-> IF o \in updated THEN (store[o] + 1) % Values ELSE store[o]]
    /\ pending' = [pending EXCEPT ![th] = {}]
    /\ UNCHANGED writable

AtomicNext ==
  \E th \in Threads : Commit(th) \/ \E s \in Sites : Request(th, s)

AtomicSafety == AtomicInit /\ [][AtomicNext]_atomic_vars

AtomicSpec ==
  /\ AtomicSafety
  /\ \A th \in Threads : WF_atomic_vars(Commit(th))
=============================================================================
