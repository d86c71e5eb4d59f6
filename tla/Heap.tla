-------------------------------- MODULE Heap --------------------------------
(***************************************************************************)
(* The kernel heap of kernel/heap.c: a first-fit list of blocks that tile  *)
(* the heap area, split on allocation, merged with both neighbours on      *)
(* release and extended at the end up to a limit.                          *)
(*                                                                         *)
(* Addresses are offsets from heap_base_addr, counted in 4-byte words.     *)
(* Each operation is one irq_save() section; its loops and helpers are the *)
(* values of pc, and a new operation starts only when pc = "idle".  The    *)
(* clients' side is live, the pointers they hold.                          *)
(***************************************************************************)
EXTENDS Integers, FiniteSets

CONSTANTS
  HEADER_SIZE,     \* words of a heap_block_t
  MIN_BLOCK_SIZE,  \* smallest payload worth splitting off
  GRAIN,           \* kmalloc rounds sizes up to a multiple of this (8 bytes)
  META,            \* words kmalloc_aligned keeps in front of the pointer
  CHUNK,           \* heap_expand grows by multiples of this (1 MB)
  InitialSize,     \* heap_init_at's initial_size
  MaxLimit,        \* and max_size
  Requests,        \* sizes the clients ask for
  Alignments,      \* alignments they ask kmalloc_aligned for
  MaxLive          \* bound of the model: pointers held at a time

ASSUME SizeAssumption ==
  /\ HEADER_SIZE \in Nat \ {0} /\ MIN_BLOCK_SIZE \in Nat /\ META \in Nat
  /\ GRAIN \in Nat \ {0} /\ CHUNK \in Nat \ {0}
  /\ MaxLimit \in Nat /\ InitialSize \in HEADER_SIZE..MaxLimit
  /\ Requests \subseteq Nat \ {0} /\ Alignments \subseteq Nat \ {0}
  /\ MaxLive \in Nat

NULL == -1
Addr == 0..MaxLimit

VARIABLES
  blocks,        \* addresses of the headers on the list
  size, is_free, next, prev,            \* heap_block_t fields
  heap_cur_size,
  total_size, used_size, free_size, num_allocations, num_blocks,  \* heap_stats
  stale,         \* addresses where an absorbed header's magic is still in memory
  live,          \* pointers held by clients
  slot,          \* block a client's pointer was carved from (slot[-2] if aligned)
  len,           \* words the client asked for
  pc,            \* "idle" or the helper that runs next
  call           \* arguments of the operation in progress

fields == <<size, is_free, next, prev>>
stats == <<used_size, free_size, num_allocations, num_blocks>>
area == <<heap_cur_size, total_size>>
clients == <<live, slot, len>>
vars == <<blocks, fields, area, stats, stale, clients, pc, call>>

MutRoundDown(n, align) == n - (n % align)
\* ALIGN_UP: add align - 1 and clear the low bits.
RoundUp(n, align) == (n + align - 1) - ((n + align - 1) % align)

Idle == [blk |-> 0, req |-> 0, ask |-> 0, align |-> 0, op |-> "none", old |-> NULL, ret |-> "idle"]

\* heap_init_at: one free block covers the initial area.
Init ==
  /\ blocks = {0}
  /\ size = [a \in Addr |-> IF a = 0 THEN InitialSize - HEADER_SIZE ELSE 0]
  /\ is_free = [a \in Addr |-> TRUE]
  /\ next = [a \in Addr |-> NULL]
  /\ prev = [a \in Addr |-> NULL]
  /\ heap_cur_size = InitialSize /\ total_size = InitialSize
  /\ used_size = 0 /\ free_size = InitialSize - HEADER_SIZE
  /\ num_allocations = 0 /\ num_blocks = 1
  /\ stale = {}
  /\ live = {} /\ slot = [a \in Addr |-> NULL] /\ len = [a \in Addr |-> 0]
  /\ pc = "idle" /\ call = Idle

-----------------------------------------------------------------------------
(***************************************************************************)
(* kmalloc, kzalloc, kmalloc_aligned and krealloc: the calls.              *)
(***************************************************************************)
MayCall == pc = "idle" /\ Cardinality(live) < MaxLive

Enter(op, req, ask, align, old) ==
  /\ MayCall
  /\ pc' = "find"
  /\ call' = [blk |-> 0, req |-> RoundUp(req, GRAIN), ask |-> ask, align |-> align,
              op |-> op, old |-> old, ret |-> "refind"]
  /\ UNCHANGED <<blocks, fields, area, stats, stale, clients>>

kmalloc(n) == Enter("kmalloc", n, n, 0, NULL)
kzalloc(n) == Enter("kzalloc", n, n, 0, NULL)
kmalloc_aligned(n, align) == Enter("aligned", n + align + META, n, align, NULL)

\* Only a block too small for the new size is moved; p is a kmalloc pointer.
krealloc(p, n) ==
  /\ p \in live /\ slot[p] = p - HEADER_SIZE
  /\ size[p - HEADER_SIZE] < n
  /\ Enter("krealloc", n, n, 0, p)

-----------------------------------------------------------------------------
\* find_free_block; list order is address order.
Fits(b) == is_free[b] /\ size[b] >= call.req
FirstFit(b) == b \in blocks /\ Fits(b) /\ \A c \in blocks : c < b => ~Fits(c)
NoFit == \A b \in blocks : ~Fits(b)

find_hit ==
  /\ pc \in {"find", "refind"}
  /\ \E b \in blocks :
       /\ FirstFit(b)
       /\ call' = [call EXCEPT !.blk = b]
  /\ pc' = "split"
  /\ UNCHANGED <<blocks, fields, area, stats, stale, clients>>

\* Writing a header at address a destroys an old magic word under it.
Overwritten(a) == a..(a + HEADER_SIZE - 2)

\* The accounting of a header that appears (split) or disappears (merge).
HeaderAdded ==
  /\ num_blocks' = num_blocks + 1
  /\ free_size' = free_size - HEADER_SIZE

HeaderRemoved ==
  /\ num_blocks' = num_blocks - 1
  /\ free_size' = free_size + HEADER_SIZE

\* The block behind, if there is one, gets a new predecessor.
MutNoBackLink(behind, to) == prev' = prev
BackLink(behind, to) ==
  prev' = [a \in Addr |-> IF behind # NULL /\ a = behind THEN to ELSE prev[a]]

Grow ==
  LET want == RoundUp(call.req + HEADER_SIZE, CHUNK)
  IN IF heap_cur_size + want > MaxLimit THEN MaxLimit - heap_cur_size ELSE want

\* No block fits: heap_expand once, else kmalloc (and krealloc) return NULL.
find_miss ==
  /\ pc \in {"find", "refind"}
  /\ NoFit
  /\ IF pc = "find" /\ Grow >= call.req + HEADER_SIZE
     THEN LET new == heap_cur_size IN
          \E tail \in blocks :
            /\ next[tail] = NULL
            /\ blocks' = blocks \cup {new}
            /\ size' = [size EXCEPT ![new] = Grow - HEADER_SIZE]
            /\ is_free' = [is_free EXCEPT ![new] = TRUE]
            /\ next' = [next EXCEPT ![new] = NULL, ![tail] = new]
            /\ prev' = [prev EXCEPT ![new] = tail]
            /\ heap_cur_size' = heap_cur_size + Grow
            /\ total_size' = total_size + Grow
            /\ free_size' = free_size + (Grow - HEADER_SIZE)
            /\ num_blocks' = num_blocks + 1
            /\ call' = [call EXCEPT !.blk = new]
            /\ pc' = "coalesce_next"
            /\ UNCHANGED <<used_size, num_allocations, stale, clients>>
     ELSE /\ pc' = "idle" /\ call' = Idle
          /\ UNCHANGED <<blocks, fields, area, stats, stale, clients>>

\* split_block: the tail of the block becomes a free block if it is worth it.
WorthSplitting == size[call.blk] >= call.req + HEADER_SIZE + MIN_BLOCK_SIZE

split_block ==
  LET b == call.blk
      new == b + HEADER_SIZE + call.req
  IN /\ pc = "split"
     /\ pc' = "take"
     /\ IF WorthSplitting
        THEN /\ blocks' = blocks \cup {new}
             /\ size' = [size EXCEPT ![new] = size[b] - call.req - HEADER_SIZE, ![b] = call.req]
             /\ is_free' = [is_free EXCEPT ![new] = TRUE]
             /\ next' = [next EXCEPT ![new] = next[b], ![b] = new]
             /\ prev' = [a \in Addr |-> IF a = new THEN b
                                        ELSE IF next[b] # NULL /\ a = next[b] THEN new ELSE prev[a]]
             /\ HeaderAdded
             /\ stale' = stale \ Overwritten(new)
        ELSE UNCHANGED <<blocks, fields, num_blocks, free_size, stale>>
     /\ UNCHANGED <<area, used_size, num_allocations, clients, call>>

\* kmalloc's tail: mark the block, account for it, hand the pointer out; then
\* kmalloc_aligned stores the way back in front of the aligned address, kzalloc
\* clears the payload and krealloc (having copied) releases the old block.
Returned(raw) == IF call.op # "aligned" THEN raw ELSE RoundUp(raw + META, call.align)

take ==
  LET b == call.blk
      p == Returned(b + HEADER_SIZE)
  IN /\ pc = "take"
     /\ is_free' = [is_free EXCEPT ![b] = FALSE]
     /\ used_size' = used_size + size[b]
     /\ free_size' = free_size - size[b]
     /\ num_allocations' = num_allocations + 1
     /\ live' = live \cup {p}
     /\ slot' = [slot EXCEPT ![p] = b]
     /\ len' = [len EXCEPT ![p] = call.ask]
     /\ stale' = IF call.op = "kzalloc" THEN stale \ (p..(p + call.ask - 1))
                 ELSE IF call.op = "aligned" THEN stale \ {p - 1, p - 2}
                 ELSE stale
     /\ pc' = IF call.old # NULL THEN "free_old" ELSE "idle"
     /\ call' = IF call.old # NULL THEN call ELSE Idle
     /\ UNCHANGED <<blocks, size, next, prev, area, num_blocks>>

-----------------------------------------------------------------------------
\* The header kfree(p) settles on: the words in front of p if they carry the
\* block magic, otherwise the block kmalloc_aligned noted.
MutNoUnwrapping(p) == p - HEADER_SIZE
HeaderOf(p) == IF p - HEADER_SIZE \in blocks \cup stale THEN p - HEADER_SIZE ELSE slot[p]

\* The body of kfree; an absorbed header still says is_free, so kfree returns.
Release(p) ==
  LET b == HeaderOf(p)
  IN /\ live' = live \ {p}
     /\ IF b \in blocks /\ ~is_free[b]
        THEN /\ is_free' = [is_free EXCEPT ![b] = TRUE]
             /\ used_size' = used_size - size[b]
             /\ free_size' = free_size + size[b]
             /\ num_allocations' = IF num_allocations > 0 THEN num_allocations - 1 ELSE 0
             /\ pc' = "coalesce_next"
             /\ call' = [Idle EXCEPT !.blk = b]
        ELSE /\ pc' = "idle" /\ call' = Idle
             /\ UNCHANGED <<is_free, used_size, free_size, num_allocations>>
     /\ UNCHANGED <<blocks, size, next, prev, area, num_blocks, stale, slot, len>>

kfree(p) == pc = "idle" /\ p \in live /\ Release(p)

krealloc_free_old == pc = "free_old" /\ Release(call.old)

-----------------------------------------------------------------------------
\* A neighbour coalesce merges with.
MutMergesUsed(n) == n # NULL
Mergeable(n) == n # NULL /\ is_free[n]

\* coalesce, first half: absorb the block behind.
coalesce_next ==
  LET b == call.blk
      n == next[b]
  IN /\ pc = "coalesce_next"
     /\ pc' = "coalesce_prev"
     /\ IF Mergeable(n)
        THEN /\ blocks' = blocks \ {n}
             /\ size' = [size EXCEPT ![b] = size[b] + HEADER_SIZE + size[n]]
             /\ next' = [next EXCEPT ![b] = next[n]]
             /\ BackLink(next[n], b)
             /\ HeaderRemoved
             /\ stale' = stale \cup {n}
        ELSE UNCHANGED <<blocks, size, next, prev, num_blocks, free_size, stale>>
     /\ UNCHANGED <<is_free, area, used_size, num_allocations, clients, call>>

\* Second half: be absorbed by the block in front.
MutForwardOnly ==
  /\ pc = "coalesce_prev"
  /\ pc' = call.ret
  /\ call' = IF call.ret = "idle" THEN Idle ELSE call
  /\ UNCHANGED <<blocks, fields, area, stats, stale, clients>>
coalesce_prev ==
  LET b == call.blk
      q == prev[b]
  IN /\ pc = "coalesce_prev"
     /\ pc' = call.ret
     /\ call' = IF call.ret = "idle" THEN Idle ELSE call
     /\ IF Mergeable(q)
        THEN /\ blocks' = blocks \ {b}
             /\ size' = [size EXCEPT ![q] = size[q] + HEADER_SIZE + size[b]]
             /\ next' = [next EXCEPT ![q] = next[b]]
             /\ BackLink(next[b], q)
             /\ HeaderRemoved
             /\ stale' = stale \cup {b}
        ELSE UNCHANGED <<blocks, size, next, prev, num_blocks, free_size, stale>>
     /\ UNCHANGED <<is_free, area, used_size, num_allocations, clients>>

-----------------------------------------------------------------------------
Next ==
  \/ \E n \in Requests : kmalloc(n) \/ kzalloc(n)
  \/ \E n \in Requests, align \in Alignments : kmalloc_aligned(n, align)
  \/ \E p \in live : kfree(p) \/ \E n \in Requests : krealloc(p, n)
  \/ find_hit \/ find_miss \/ split_block \/ take
  \/ krealloc_free_old
  \/ coalesce_next \/ coalesce_prev

Spec == Init /\ [][Next]_vars

-----------------------------------------------------------------------------
\* Type correctness; in particular the heap never grows past max_size.
TypeOK ==
  /\ blocks \subseteq Addr /\ stale \subseteq Addr
  /\ size \in [Addr -> Nat] /\ is_free \in [Addr -> BOOLEAN]
  /\ next \in [Addr -> Addr \cup {NULL}] /\ prev \in [Addr -> Addr \cup {NULL}]
  /\ heap_cur_size \in Addr /\ total_size \in Nat
  /\ used_size \in Int /\ free_size \in Int /\ num_allocations \in Nat /\ num_blocks \in Int
  /\ live \subseteq Addr /\ slot \in [Addr -> Addr \cup {NULL}] /\ len \in [Addr -> Nat]
  /\ pc \in {"idle", "find", "refind", "split", "take", "free_old", "coalesce_next", "coalesce_prev"}
  /\ call \in [blk : Addr, req : Nat, ask : Nat, align : Nat, old : Addr \cup {NULL},
               op : {"none", "kmalloc", "kzalloc", "aligned", "krealloc"}, ret : {"idle", "refind"}]

End(b) == b + HEADER_SIZE + size[b]

\* The list of headers tiles the heap area: every block ends where its successor
\* begins, the last one at the end of the area, and prev is the inverse of next.
Tiling ==
  /\ 0 \in blocks /\ prev[0] = NULL
  /\ \A b \in blocks :
       /\ End(b) <= heap_cur_size
       /\ IF next[b] = NULL THEN End(b) = heap_cur_size
          ELSE next[b] \in blocks /\ next[b] = End(b) /\ prev[next[b]] = b
       /\ b # 0 => prev[b] \in blocks /\ next[prev[b]] = b

\* The memory handed to two clients never overlaps, nor does it touch a header
\* of the list, whatever splits, merges and expansions happen around it.
PayloadsDisjoint ==
  \A p \in live :
    /\ \A q \in live \ {p} : p + len[p] <= q \/ q + len[q] <= p
    /\ \A b \in blocks : b + HEADER_SIZE <= p \/ p + len[p] <= b
    /\ p + len[p] <= heap_cur_size

\* Between operations no two neighbours are both free: coalesce is complete.
NoAdjacentFree ==
  pc = "idle" => \A b \in blocks : next[b] # NULL => ~(is_free[b] /\ is_free[next[b]])

\* heap_stats accounts for every word of the area at every moment.
StatsBalance ==
  /\ total_size = heap_cur_size
  /\ used_size + free_size + HEADER_SIZE * num_blocks = total_size

\* At every moment, in the middle of an operation too, the list describes the whole
\* area: well typed and within max_size, tiled by blocks, and accounted for.
AreaDescribed == TypeOK /\ Tiling /\ StatsBalance

\* Every block in use belongs to a pointer some client holds: kfree of a pointer,
\* plain or aligned, releases the block behind it.
NoLeak == pc = "idle" => {b \in blocks : ~is_free[b]} = {slot[p] : p \in live}

\* Once the clients have freed everything the heap is one free block again, as
\* the host test asserts ("Coalesced back into 1 single contiguous block!").
AllFreedCoalesced ==
  pc = "idle" /\ live = {} => num_blocks = 1 /\ used_size = 0 /\ num_allocations = 0

\* While a client holds a pointer its block neither moves nor changes size, so
\* that krealloc may read block->size and copy without disabling interrupts.
HeldBlocksStable ==
  [][\A p \in live : p \in live' =>
       slot'[p] = slot[p] /\ size'[slot[p]] = size[slot[p]] /\ slot[p] \in blocks']_vars

\* What the clients hold.
Held == {[at |-> p, len |-> len[p]] : p \in live}
Client == INSTANCE Allocator WITH Limit <- MaxLimit, held <- Held

\* To its clients the heap is an allocator: the pointers returned at the end of
\* kmalloc, kzalloc, kmalloc_aligned and krealloc are to memory no other client
\* holds, kfree gives back the piece it is called for and no other, and no search,
\* split, merge or expansion between them is visible.
IsAllocator == Client!Spec
=============================================================================
