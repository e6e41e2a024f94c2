------------------------------- MODULE RayonPool -------------------------------
(***************************************************************************)
(* A rayon thread pool as the readers of src/history use it:               *)
(*   pool.install(|| items.par_iter().map(f).collect::<Result<Vec<_>,_>>)  *)
(* Items are taken by at most Threads threads, in no particular order, and *)
(* end in any order.  Once an item has failed, items not yet taken may be  *)
(* skipped; the call returns when no item is waiting or being worked on.   *)
(* rayon is not part of the repository: this is what its callers rely on.  *)
(***************************************************************************)
EXTENDS Naturals, FiniteSets

CONSTANTS
  Items,      \* the items, numbered in their order
  Threads     \* threads of the pool

VARIABLE work    \* what has become of each item

Waiting == {k \in Items : work[k] = "waiting"}
Running == {k \in Items : work[k] = "running"}
Failed == {k \in Items : work[k] = "failed"}

PoolTypeOK == work \in [Items -> {"waiting", "running", "done", "failed", "skipped"}]

PoolInit == work = [k \in Items |-> "waiting"]

Start(k) ==
  /\ work[k] = "waiting"
  /\ Cardinality(Running) < Threads
  /\ work' = [work EXCEPT ![k] = "running"]

Finish(k) ==
  /\ work[k] = "running"
  /\ work' = [work EXCEPT ![k] = "done"]

Fail(k) ==
  /\ work[k] = "running"
  /\ work' = [work EXCEPT ![k] = "failed"]

Skip(k) ==
  /\ work[k] = "waiting"
  /\ Failed # {}
  /\ work' = [work EXCEPT ![k] = "skipped"]

PoolStep(k) == Start(k) \/ Finish(k) \/ Fail(k) \/ Skip(k)

Settled == Waiting = {} /\ Running = {}
=============================================================================
