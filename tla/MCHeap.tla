------------------------------- MODULE MCHeap -------------------------------
(***************************************************************************)
(* Heap with the statistics recomputed from the list, for TLC.             *)
(***************************************************************************)
EXTENDS Heap, FiniteSetsExt

\* Fields of addresses that hold no listed header, and slots of pointers nobody
\* holds, influence no step: states that differ only there are the same.
HeapView ==
  <<[b \in blocks |-> <<size[b], is_free[b], next[b], prev[b]>>], heap_cur_size, total_size, stats,
    stale, [p \in live |-> <<slot[p], len[p]>>], pc, call>>

InUse == {b \in blocks : ~is_free[b]}
PayloadOf(S) == MapThenSumSet(LAMBDA b : size[b], S)

\* heap_stats always equals what a walk of the list would count.
StatsExact ==
  /\ num_blocks = Cardinality(blocks)
  /\ used_size = PayloadOf(InUse)
  /\ free_size = PayloadOf(blocks \ InUse)
  /\ num_allocations = Cardinality(InUse)

\* No memory is lost: between operations every block in use belongs to a pointer a
\* client holds, the statistics are those of the list, and a heap of which everything
\* was freed is one free block.
NothingLost == StatsExact /\ NoLeak /\ AllFreedCoalesced
=============================================================================
