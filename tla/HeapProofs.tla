----------------------------- MODULE HeapProofs -----------------------------
(***************************************************************************)
(* Proofs, for every heap size, request size and alignment, that the block *)
(* list tiles the heap area, that clients' memory never overlaps, that no  *)
(* two free blocks stay adjacent, that heap_stats balances, that a held    *)
(* block never changes, and that the heap implements module Allocator.     *)
(***************************************************************************)
EXTENDS Heap, TLAPS

\* Blocks do not overlap; Tiling, being local to neighbours, does not say so by itself.
NoOverlap == \A b, c \in blocks : b < c => End(b) <= c

\* What is true of the pointers clients hold: each lies in a block of its own.
Owned ==
  /\ \A p \in live : /\ slot[p] \in blocks /\ ~is_free[slot[p]]
                     /\ slot[p] + HEADER_SIZE <= p /\ p + len[p] <= End(slot[p])
                     /\ len[p] > 0
  /\ \A p, q \in live : slot[p] = slot[q] => p = q

\* The rounded request leaves room for what the client asked for.
RequestOK ==
  /\ call.ask > 0
  /\ IF call.op = "aligned" THEN call.align > 0 /\ call.ask + call.align + META <= call.req
     ELSE call.ask <= call.req

\* What the helpers of an operation may rely on.
PhaseOK ==
  /\ pc \in {"find", "refind", "split", "take"} => RequestOK /\ call.ret = "refind"
  /\ pc \in {"split", "take"} =>
       call.blk \in blocks /\ is_free[call.blk] /\ call.req <= size[call.blk]
  /\ pc \in {"coalesce_next", "coalesce_prev"} =>
       call.blk \in blocks /\ is_free[call.blk] /\ (call.ret = "refind" => RequestOK)
  /\ pc = "free_old" => call.old \in Addr

\* Where two neighbours may both be free while an operation is in progress.
FreePairs ==
  \A b \in blocks : next[b] # NULL /\ is_free[b] /\ is_free[next[b]] =>
    \/ pc = "coalesce_next" /\ call.blk \in {b, next[b]}
    \/ pc = "coalesce_prev" /\ call.blk = next[b]
    \/ pc = "take" /\ call.blk = b

IInv == TypeOK /\ Tiling /\ NoOverlap /\ Owned /\ PhaseOK /\ FreePairs /\ StatsBalance

\* The pointer krealloc is replacing is still held by its caller.
OldLive ==
  /\ pc = "free_old" => call.old # NULL
  /\ call.old # NULL => call.old \in live

\* ALIGN_UP returns at least its argument and adds less than the alignment.
LEMMA RoundUpFact ==
  ASSUME NEW n \in Nat, NEW a \in Nat \ {0}
  PROVE  RoundUp(n, a) \in Nat /\ n <= RoundUp(n, a) /\ RoundUp(n, a) < n + a
  <1>1. (n + a - 1) % a \in 0..(a - 1)
    OBVIOUS
  <1> QED
    BY <1>1 DEF RoundUp

\* The words taken by headers when there is one more, or one less.
LEMMA OneMore ==
  ASSUME NEW h \in Int, NEW n \in Int
  PROVE  h * (n + 1) = h * n + h /\ h * (n - 1) = h * n - h
  OBVIOUS

\* heap_init_at establishes the invariant.
LEMMA InitIInv == Init => IInv
  <1> SUFFICES ASSUME Init PROVE IInv
    OBVIOUS
  <1> USE SizeAssumption DEF Init, Addr, NULL, Idle, End
  <1>1. TypeOK
    BY DEF TypeOK
  <1>2. Tiling /\ NoOverlap /\ FreePairs
    BY DEF Tiling, NoOverlap, FreePairs
  <1>3. Owned /\ PhaseOK /\ StatsBalance
    BY DEF Owned, PhaseOK, StatsBalance
  <1> QED
    BY <1>1, <1>2, <1>3 DEF IInv

\* A step that leaves blocks, fields, area and statistics alone.
LEMMA SameAreaIInv ==
  ASSUME IInv, UNCHANGED <<blocks, fields, area, stats>>
  PROVE  Tiling' /\ NoOverlap' /\ StatsBalance'
  BY DEF IInv, Tiling, NoOverlap, StatsBalance, End, fields, area, stats

\* The calls only note their arguments.
LEMMA EnterIInv ==
  ASSUME IInv, NEW op \in {"kmalloc", "kzalloc", "aligned", "krealloc"},
         NEW req \in Nat, NEW ask \in Nat \ {0}, NEW align \in Nat, NEW old \in Addr \cup {NULL},
         IF op = "aligned" THEN align > 0 /\ ask + align + META <= req ELSE ask <= req,
         Enter(op, req, ask, align, old)
  PROVE  IInv'
  <1> USE SizeAssumption
  <1>1. RoundUp(req, GRAIN) \in Nat /\ req <= RoundUp(req, GRAIN)
    BY Zenon, RoundUpFact
  <1>2. TypeOK'
    <2>1. call' \in [blk : Addr, req : Nat, ask : Nat, align : Nat, old : Addr \cup {NULL},
                     op : {"none", "kmalloc", "kzalloc", "aligned", "krealloc"}, ret : {"idle", "refind"}]
      BY <1>1 DEF Enter, Addr
    <2> QED
      BY <2>1 DEF IInv, TypeOK, Enter, fields, area, stats, clients
  <1>3. PhaseOK'
    BY <1>1 DEF PhaseOK, RequestOK, Enter
  <1>4. Owned' /\ FreePairs'
    BY DEF IInv, Owned, FreePairs, Enter, MayCall, End, fields, clients
  <1> QED
    BY <1>2, <1>3, <1>4, SameAreaIInv DEF IInv, Enter

\* find_free_block found a block.
LEMMA FindHitIInv ==
  ASSUME IInv, find_hit
  PROVE  IInv'
  <1>1. PICK b \in blocks : FirstFit(b) /\ call' = [call EXCEPT !.blk = b]
    BY DEF find_hit
  <1>2. TypeOK'
    BY Zenon, <1>1 DEF IInv, TypeOK, find_hit, Addr, fields, area, stats, clients
  <1>3. PhaseOK'
    BY <1>1 DEF IInv, TypeOK, PhaseOK, RequestOK, find_hit, FirstFit, Fits, fields
  <1>4. Owned' /\ FreePairs'
    BY DEF IInv, Owned, FreePairs, find_hit, End, fields, clients
  <1> QED
    BY <1>2, <1>3, <1>4, SameAreaIInv DEF IInv, find_hit

\* heap_expand appends a block behind the last one, or kmalloc returns NULL.
LEMMA FindMissIInv ==
  ASSUME IInv, find_miss
  PROVE  IInv'
  <1> USE SizeAssumption
  <1>1. CASE pc = "find" /\ Grow >= call.req + HEADER_SIZE
    <2>0. PICK new : new = heap_cur_size
      OBVIOUS
    <2>1. PICK tail \in blocks :
            /\ next[tail] = NULL
            /\ size' = [size EXCEPT ![new] = Grow - HEADER_SIZE]
            /\ is_free' = [is_free EXCEPT ![new] = TRUE]
            /\ next' = [next EXCEPT ![new] = NULL, ![tail] = new]
            /\ prev' = [prev EXCEPT ![new] = tail]
            /\ blocks' = blocks \cup {new}
            /\ heap_cur_size' = new + Grow
            /\ total_size' = total_size + Grow
            /\ free_size' = free_size + (Grow - HEADER_SIZE)
            /\ num_blocks' = num_blocks + 1
            /\ call' = [call EXCEPT !.blk = new]
            /\ pc' = "coalesce_next"
            /\ UNCHANGED <<used_size, num_allocations, stale, clients>>
      BY <1>1, <2>0 DEF find_miss
    <2>2. PICK g : g = Grow
      OBVIOUS
    <2>3. g \in Nat /\ g >= HEADER_SIZE /\ new + g \in Addr /\ new \in Addr
      <3>1. call.req \in Nat /\ heap_cur_size \in Addr
        BY DEF IInv, TypeOK
      <3>2. RoundUp(call.req + HEADER_SIZE, CHUNK) \in Nat
        BY <3>1, RoundUpFact
      <3> QED
        BY <1>1, <2>0, <2>2, <3>1, <3>2 DEF Grow, Addr
    <2>4. /\ \A b \in blocks : b \in Addr /\ b \in Nat /\ size[b] \in Nat
          /\ \A b \in blocks : End(b) <= new /\ (next[b] = NULL => End(b) = new)
      <3>1. \A b \in blocks : b \in Addr /\ b \in Nat /\ size[b] \in Nat
        BY DEF IInv, TypeOK, Addr
      <3>2. \A b \in blocks : End(b) <= heap_cur_size /\ (next[b] = NULL => End(b) = heap_cur_size)
        BY Zenon DEF IInv, Tiling
      <3> QED
        BY <2>0, <3>1, <3>2
    <2>5. new \notin blocks /\ End(tail) = new /\ \A b \in blocks : next[b] = NULL => b = tail
      <3>1. \A b \in blocks : b < End(b) /\ End(b) \in Nat
        BY <2>4 DEF End
      <3> QED
        BY <2>1, <2>3, <2>4, <3>1 DEF IInv, NoOverlap, Addr
    <2>6. /\ size'[new] = g - HEADER_SIZE /\ next'[new] = NULL
          /\ prev'[new] = tail /\ next'[tail] = new
          /\ \A b \in blocks : /\ size'[b] = size[b] /\ prev'[b] = prev[b]
                               /\ b # tail => next'[b] = next[b]
          /\ blocks' = blocks \cup {new} /\ heap_cur_size' = new + g
      BY <2>1, <2>2, <2>3, <2>4, <2>5 DEF IInv, TypeOK
    <2>6f. is_free'[new] /\ \A b \in blocks : is_free'[b] = is_free[b]
      BY Zenon, <2>1, <2>3, <2>4, <2>5 DEF IInv, TypeOK
    <2>7. /\ End(new)' = new + g
          /\ \A b \in blocks : End(b)' = End(b)
      BY <2>6, <2>3 DEF End, Addr
    <2>8. TypeOK'
      <3>1. size' \in [Addr -> Nat] /\ total_size' \in Nat /\ heap_cur_size' \in Addr
        BY <2>1, <2>2, <2>3 DEF IInv, TypeOK
      <3>2. next' \in [Addr -> Addr \cup {NULL}] /\ prev' \in [Addr -> Addr \cup {NULL}]
        BY <2>1, <2>3, <2>4 DEF IInv, TypeOK
      <3>3. is_free' \in [Addr -> BOOLEAN] /\ blocks' \subseteq Addr
        BY <2>1, <2>3 DEF IInv, TypeOK
      <3>4. free_size' \in Int /\ num_blocks' \in Int
        BY <2>1, <2>2, <2>3, SizeAssumption DEF IInv, TypeOK
      <3>5. call' \in [blk : Addr, req : Nat, ask : Nat, align : Nat, old : Addr \cup {NULL},
                       op : {"none", "kmalloc", "kzalloc", "aligned", "krealloc"}, ret : {"idle", "refind"}]
        BY <2>1, <2>3 DEF IInv, TypeOK
      <3> QED
        BY <2>1, <3>1, <3>2, <3>3, <3>4, <3>5 DEF IInv, TypeOK, clients
    <2>9. Tiling'
      <3>1. /\ 0 \in blocks /\ prev[0] = NULL
            /\ \A b \in blocks : /\ End(b) \in Int
                                 /\ next[b] # NULL => next[b] \in blocks /\ next[b] = End(b) /\ prev[next[b]] = b
                                 /\ b # 0 => prev[b] \in blocks /\ next[prev[b]] = b
        BY <2>4 DEF IInv, Tiling, End
      <3>2. new # NULL /\ new \in Int /\ g \in Nat
        BY <2>3 DEF NULL, Addr
      <3>4. ASSUME NEW b \in blocks
            PROVE  /\ End(b)' <= heap_cur_size'
                   /\ next'[b] # NULL /\ next'[b] \in blocks' /\ next'[b] = End(b)' /\ prev'[next'[b]] = b
        <4>1. End(b)' = End(b) /\ End(b) <= new /\ End(b) \in Int
          BY <3>1, <2>4, <2>7
        <4>2. CASE b = tail
          BY <4>1, <4>2, <3>2, <2>5, <2>6
        <4>3. CASE b # tail
          BY <4>1, <4>3, <3>1, <3>2, <2>5, <2>6
        <4> QED
          BY <4>2, <4>3
      <3>5. ASSUME NEW b \in blocks, b # 0
            PROVE  prev'[b] \in blocks' /\ next'[prev'[b]] = b
        <4>1. prev[b] \in blocks /\ next[prev[b]] = b /\ b # NULL
          BY <3>1, <3>5, <2>4 DEF NULL
        <4>2. prev[b] # tail
          BY <4>1, <2>1
        <4> QED
          BY <4>1, <4>2, <2>6
      <3>6. new # 0
        BY <3>1, <2>5
      <3> QED
        BY <3>1, <3>2, <3>4, <3>5, <3>6, <2>5, <2>6, <2>7 DEF Tiling
    <2>10. NoOverlap'
      <3>1. \A b, c \in blocks : b < c => End(b) <= c
        BY DEF IInv, NoOverlap
      <3>2. \A b \in blocks : b \in Nat /\ b < new
        BY <2>4, <2>3, SizeAssumption DEF End, Addr
      <3> QED
        BY <3>1, <3>2, <2>1, <2>3, <2>4, <2>7 DEF NoOverlap, Addr
    <2>11. Owned'
      BY <2>1, <2>5, <2>6, <2>6f, <2>7 DEF IInv, Owned, clients
    <2>12. PhaseOK'
      BY <1>1, <2>1, <2>3, <2>6f DEF IInv, TypeOK, PhaseOK, RequestOK
    <2>13. FreePairs'
      <3>1. \A b \in blocks : next[b] # NULL => next[b] \in blocks /\ ~(is_free[b] /\ is_free[next[b]])
        BY <1>1 DEF IInv, FreePairs, Tiling
      <3>2. call'.blk = new
        BY <2>1 DEF IInv, TypeOK
      <3> QED
        BY Zenon, <3>1, <3>2, <2>1, <2>5, <2>6, <2>6f DEF FreePairs
    <2>14. StatsBalance'
      <3>1. HEADER_SIZE * num_blocks' = HEADER_SIZE * num_blocks + HEADER_SIZE
        BY <2>1, OneMore DEF IInv, TypeOK
      <3>2. HEADER_SIZE * num_blocks \in Int
        BY DEF IInv, TypeOK
      <3> QED
        <4>1. /\ used_size \in Int /\ free_size \in Int /\ total_size = new /\ g \in Int /\ new \in Int
              /\ used_size + free_size + HEADER_SIZE * num_blocks = total_size
          BY <2>0, <2>3 DEF IInv, TypeOK, StatsBalance, Addr
        <4>2. /\ used_size' = used_size /\ free_size' = free_size + (g - HEADER_SIZE)
              /\ total_size' = total_size + g /\ heap_cur_size' = new + g
          BY <2>1, <2>2
        <4>3. used_size' + free_size' + HEADER_SIZE * num_blocks' = total_size'
          BY <4>1, <4>2, <3>1, <3>2
        <4> QED
          BY <4>1, <4>2, <4>3 DEF StatsBalance
    <2> QED
      BY <2>8, <2>9, <2>10, <2>11, <2>12, <2>13, <2>14 DEF IInv
  <1>2. CASE ~(pc = "find" /\ Grow >= call.req + HEADER_SIZE)
    <2>1. /\ pc' = "idle" /\ call' = Idle
          /\ UNCHANGED <<blocks, fields, area, stats, stale, clients>>
      BY <1>2 DEF find_miss
    <2>2. TypeOK' /\ PhaseOK'
      <3>1. Idle \in [blk : Addr, req : Nat, ask : Nat, align : Nat, old : Addr \cup {NULL},
                      op : {"none", "kmalloc", "kzalloc", "aligned", "krealloc"}, ret : {"idle", "refind"}]
        BY DEF Idle, Addr
      <3> QED
        BY <2>1, <3>1 DEF IInv, TypeOK, PhaseOK, fields, area, stats, clients
    <2>3. Owned' /\ FreePairs'
      BY <2>1 DEF IInv, Owned, FreePairs, find_miss, End, fields, clients
    <2> QED
      BY <2>1, <2>2, <2>3, SameAreaIInv DEF IInv
  <1> QED
    BY <1>1, <1>2

\* Facts about neighbours that the proofs of split and merge share.
LEMMA Neighbours ==
  ASSUME IInv
  PROVE  /\ 0 \in blocks /\ prev[0] = NULL
         /\ \A b \in blocks : /\ b \in Addr /\ b \in Nat /\ size[b] \in Nat /\ b # NULL
                              /\ End(b) \in Nat /\ b < End(b) /\ End(b) <= heap_cur_size
                              /\ next[b] = NULL => End(b) = heap_cur_size
                              /\ next[b] # NULL => /\ next[b] \in blocks /\ next[b] = End(b)
                                                   /\ prev[next[b]] = b
                              /\ b # 0 => prev[b] \in blocks /\ next[prev[b]] = b
         /\ \A b, c \in blocks : b < c => End(b) <= c
  <1> USE SizeAssumption
  <1>1. \A b \in blocks : b \in Addr /\ b \in Nat /\ size[b] \in Nat /\ b # NULL
    BY DEF IInv, TypeOK, Addr, NULL
  <1>2. \A b \in blocks : End(b) \in Nat /\ b < End(b)
    BY <1>1 DEF End
  <1> QED
    BY <1>1, <1>2 DEF IInv, Tiling, NoOverlap

\* One block absorbs the free block behind it.
Absorb(b, n) ==
  /\ blocks' = blocks \ {n}
  /\ size' = [size EXCEPT ![b] = size[b] + HEADER_SIZE + size[n]]
  /\ next' = [next EXCEPT ![b] = next[n]]
  /\ BackLink(next[n], b)
  /\ UNCHANGED <<is_free, heap_cur_size, total_size, clients>>

\* Absorbing keeps the tiling, and no client's block is touched.
LEMMA AbsorbTiling ==
  ASSUME IInv, NEW b \in blocks, NEW n \in blocks, next[b] = n, is_free[b], is_free[n], Absorb(b, n)
  PROVE  /\ Tiling' /\ NoOverlap' /\ Owned'
         /\ size' \in [Addr -> Nat] /\ blocks' \subseteq Addr
         /\ next' \in [Addr -> Addr \cup {NULL}] /\ prev' \in [Addr -> Addr \cup {NULL}]
         /\ b \in blocks' /\ next'[b] = next[n]
         /\ \A c \in blocks' : c # b => next'[c] = next[c] /\ next[c] # n
  <1> USE SizeAssumption
  <1>1. /\ \A c \in blocks : /\ c \in Addr /\ c \in Nat /\ size[c] \in Nat /\ c # NULL
                             /\ End(c) \in Nat /\ c < End(c) /\ End(c) <= heap_cur_size
                             /\ next[c] = NULL => End(c) = heap_cur_size
                             /\ next[c] # NULL => /\ next[c] \in blocks /\ next[c] = End(c)
                                                  /\ prev[next[c]] = c
                             /\ c # 0 => prev[c] \in blocks /\ next[prev[c]] = c
        /\ \A c, d \in blocks : c < d => End(c) <= d
        /\ 0 \in blocks /\ prev[0] = NULL
    BY Neighbours
  <1>2. b < n /\ n = End(b) /\ prev[n] = b /\ n # 0 /\ b # n
    BY <1>1
  <1>3. size' \in [Addr -> Nat] /\ blocks' \subseteq Addr
    BY <1>1 DEF IInv, TypeOK, Absorb
  <1>4. next' \in [Addr -> Addr \cup {NULL}] /\ prev' \in [Addr -> Addr \cup {NULL}]
    BY <1>1 DEF IInv, TypeOK, Absorb, BackLink
  <1>5. /\ blocks' = blocks \ {n} /\ heap_cur_size' = heap_cur_size
        /\ size'[b] = size[b] + HEADER_SIZE + size[n]
        /\ \A c \in blocks : c # b => size'[c] = size[c]
    BY <1>1 DEF IInv, TypeOK, Absorb
  <1>6. next'[b] = next[n] /\ \A c \in blocks : c # b => next'[c] = next[c]
    BY <1>1 DEF IInv, TypeOK, Absorb
  <1>7. /\ next[n] # NULL => prev'[next[n]] = b
        /\ \A c \in blocks : c # next[n] => prev'[c] = prev[c]
    BY <1>1 DEF IInv, TypeOK, Absorb, BackLink
  <1>8. End(b)' = End(n) /\ \A c \in blocks : c # b => End(c)' = End(c)
    BY <1>1, <1>2, <1>5 DEF End
  <1>9. \A c \in blocks : c # b => next[c] # n
    BY <1>1, <1>2
  <1>10. Tiling'
    <2>1. ASSUME NEW c \in blocks'
          PROVE  /\ End(c)' <= heap_cur_size'
                 /\ next'[c] = NULL => End(c)' = heap_cur_size'
                 /\ next'[c] # NULL => next'[c] \in blocks' /\ next'[c] = End(c)' /\ prev'[next'[c]] = c
      <3>1. c \in blocks /\ c # n
        BY <1>5
      <3>2. CASE c = b
        <4>1. next[n] # NULL => next[n] \in blocks /\ next[n] = End(n) /\ next[n] # n
          BY <1>1
        <4> QED
          BY <3>2, <4>1, <1>1, <1>5, <1>6, <1>7, <1>8
      <3>3. CASE c # b
        <4>1. /\ End(c)' = End(c) /\ next'[c] = next[c] /\ next[c] # n
              /\ next[c] # NULL => next[c] \in blocks /\ next[c] = End(c) /\ prev[next[c]] = c
          BY <3>1, <3>3, <1>1, <1>6, <1>8, <1>9
        <4>2. next[c] # NULL => next[c] # next[n]
          <5>1. next[n] # NULL => prev[next[n]] = n
            BY <1>1
          <5> QED
            BY <4>1, <5>1, <3>1
        <4> QED
          BY <4>1, <4>2, <3>1, <1>1, <1>5, <1>7
      <3> QED
        BY <3>2, <3>3
    <2>2. ASSUME NEW c \in blocks', c # 0
          PROVE  prev'[c] \in blocks' /\ next'[prev'[c]] = c
      <3>1. c \in blocks /\ c # n
        BY <1>5
      <3>2. CASE c = next[n]
        BY <3>1, <3>2, <1>1, <1>2, <1>5, <1>6, <1>7
      <3>3. CASE c # next[n]
        <4>1. prev'[c] = prev[c] /\ prev[c] \in blocks /\ next[prev[c]] = c
          BY <2>2, <3>1, <3>3, <1>1, <1>7
        <4>2. prev[c] # n /\ prev[c] # b
          BY <4>1, <3>1, <3>3, <1>1
        <4> QED
          BY <4>1, <4>2, <1>5, <1>6
      <3> QED
        BY <3>2, <3>3
    <2>3. 0 \in blocks' /\ prev'[0] = NULL
      <3>1. next[n] # 0
        BY <1>1
      <3> QED
        BY <3>1, <1>1, <1>2, <1>5, <1>7
    <2> QED
      BY <2>1, <2>2, <2>3 DEF Tiling
  <1>11. NoOverlap'
    <2>1. ASSUME NEW c \in blocks', NEW d \in blocks', c < d PROVE End(c)' <= d
      <3>1. c \in blocks /\ d \in blocks /\ c # n /\ d # n /\ End(c) <= d
        BY <2>1, <1>1, <1>5
      <3>2. CASE c = b
        <4>1. n < d
          <5>1. n <= d /\ n # d /\ n \in Nat /\ d \in Nat
            BY <3>1, <3>2, <1>1, <1>2
          <5> QED
            BY <5>1
        <4> QED
          BY <4>1, <3>1, <3>2, <1>1, <1>8
      <3> QED
        BY <3>1, <3>2, <1>8
    <2> QED
      BY <2>1 DEF NoOverlap
  <1>12. Owned'
    <2>1. /\ \A p \in live : slot[p] # b /\ slot[p] # n
          /\ UNCHANGED <<live, slot, len, is_free>>
      BY DEF IInv, Owned, Absorb, clients
    <2> QED
      BY <2>1, <1>5, <1>8 DEF IInv, Owned
  <1> QED
    BY <1>2, <1>3, <1>4, <1>5, <1>6, <1>9, <1>10, <1>11, <1>12

\* A merge takes one header out of the statistics.
LEMMA HeaderRemovedBalance ==
  ASSUME IInv, HeaderRemoved, UNCHANGED <<used_size, heap_cur_size, total_size>>
  PROVE  StatsBalance' /\ num_blocks' \in Int /\ free_size' \in Int
  <1> USE SizeAssumption
  <1>1. /\ used_size \in Int /\ free_size \in Int /\ num_blocks \in Int /\ HEADER_SIZE * num_blocks \in Int
        /\ used_size + free_size + HEADER_SIZE * num_blocks = total_size /\ total_size = heap_cur_size
    BY DEF IInv, TypeOK, StatsBalance
  <1>2. HEADER_SIZE * num_blocks' = HEADER_SIZE * num_blocks - HEADER_SIZE
    BY <1>1, OneMore DEF HeaderRemoved
  <1>3. used_size' + free_size' + HEADER_SIZE * num_blocks' = total_size'
    BY <1>1, <1>2 DEF HeaderRemoved
  <1> QED
    BY <1>1, <1>3 DEF StatsBalance, HeaderRemoved

\* First half of coalesce.
LEMMA CoalesceNextIInv ==
  ASSUME IInv, coalesce_next
  PROVE  IInv'
  <1>1. PICK b : b = call.blk
    OBVIOUS
  <1>2. /\ b \in blocks /\ is_free[b] /\ pc = "coalesce_next" /\ pc' = "coalesce_prev" /\ call' = call
        /\ UNCHANGED <<is_free, area, used_size, num_allocations, clients>>
        /\ call.ret = "refind" => RequestOK
    BY <1>1 DEF IInv, PhaseOK, coalesce_next
  <1>3. CASE Mergeable(next[b])
    <2>1. PICK n : n = next[b]
      OBVIOUS
    <2>2. n \in blocks /\ is_free[n] /\ next[b] = n
      BY <1>2, <1>3, <2>1, Neighbours DEF Mergeable
    <2>3. Absorb(b, n) /\ HeaderRemoved /\ stale' = stale \cup {n}
      BY <1>1, <1>2, <1>3, <2>1 DEF coalesce_next, Absorb, area
    <2>4. /\ Tiling' /\ NoOverlap' /\ Owned'
          /\ size' \in [Addr -> Nat] /\ blocks' \subseteq Addr
          /\ next' \in [Addr -> Addr \cup {NULL}] /\ prev' \in [Addr -> Addr \cup {NULL}]
          /\ b \in blocks' /\ next'[b] = next[n]
          /\ \A c \in blocks' : c # b => next'[c] = next[c] /\ next[c] # n
      BY <1>2, <2>2, <2>3, AbsorbTiling
    <2>5. StatsBalance' /\ num_blocks' \in Int /\ free_size' \in Int
      BY <1>2, <2>3, HeaderRemovedBalance DEF area
    <2>6. stale' \subseteq Addr
      BY <2>2, <2>3 DEF IInv, TypeOK
    <2>7. TypeOK'
      BY <1>2, <2>4, <2>5, <2>6 DEF IInv, TypeOK, area, clients
    <2>8. PhaseOK'
      BY <1>1, <1>2, <2>4 DEF PhaseOK, RequestOK
    <2>9. FreePairs'
      <3>1. \A c \in blocks : next[c] # NULL /\ is_free[c] /\ is_free[next[c]] => b \in {c, next[c]}
        BY <1>1, <1>2 DEF IInv, FreePairs
      <3>2. ASSUME NEW c \in blocks', next'[c] # NULL, is_free[c], is_free[next'[c]]
            PROVE  next'[c] = b
        <4>1. CASE c = b
          <5>1. next[n] # NULL /\ is_free[next[n]] /\ n \in blocks
            BY <3>2, <4>1, <2>2, <2>4
          <5>2. b \in {n, next[n]}
            BY <5>1, <3>1, <2>2
          <5>3. b < n /\ n < next[n] /\ b \in Nat /\ n \in Nat /\ next[n] \in Nat
            BY <5>1, <1>2, <2>2, Neighbours
          <5> QED
            BY <5>2, <5>3
        <4>2. CASE c # b
          <5>1. c \in blocks
            BY <2>3 DEF Absorb
          <5> QED
            BY <5>1, <4>2, <3>1, <3>2, <2>4
        <4> QED
          BY <4>1, <4>2
      <3> QED
        BY <1>1, <1>2, <3>2 DEF FreePairs
    <2> QED
      BY <2>4, <2>5, <2>7, <2>8, <2>9 DEF IInv
  <1>4. CASE ~Mergeable(next[b])
    <2>1. UNCHANGED <<blocks, fields, area, stats, stale, clients>>
      BY <1>1, <1>2, <1>4 DEF coalesce_next, fields, stats
    <2>2. TypeOK' /\ PhaseOK'
      BY <1>1, <1>2, <2>1 DEF IInv, TypeOK, PhaseOK, RequestOK, fields, area, stats, clients
    <2>3. Owned'
      BY <2>1 DEF IInv, Owned, End, fields, clients
    <2>4. FreePairs'
      BY <1>1, <1>2, <1>4, <2>1 DEF IInv, FreePairs, Mergeable, fields
    <2> QED
      BY <2>1, <2>2, <2>3, <2>4, SameAreaIInv DEF IInv
  <1> QED
    BY <1>3, <1>4

\* Second half: the block in front absorbs this one.
LEMMA CoalescePrevIInv ==
  ASSUME IInv, coalesce_prev
  PROVE  IInv'
  <1>1. PICK n : n = call.blk
    OBVIOUS
  <1>2. /\ n \in blocks /\ is_free[n] /\ pc = "coalesce_prev" /\ pc' = call.ret
        /\ call' = IF call.ret = "idle" THEN Idle ELSE call
        /\ UNCHANGED <<is_free, area, used_size, num_allocations, clients>>
        /\ call.ret = "refind" => RequestOK
    BY <1>1 DEF IInv, PhaseOK, coalesce_prev
  <1>3. call' \in [blk : Addr, req : Nat, ask : Nat, align : Nat, old : Addr \cup {NULL},
                   op : {"none", "kmalloc", "kzalloc", "aligned", "krealloc"}, ret : {"idle", "refind"}]
    <2>1. Idle \in [blk : Addr, req : Nat, ask : Nat, align : Nat, old : Addr \cup {NULL},
                    op : {"none", "kmalloc", "kzalloc", "aligned", "krealloc"}, ret : {"idle", "refind"}]
      BY SizeAssumption DEF Idle, Addr
    <2> QED
      BY <1>2, <2>1 DEF IInv, TypeOK
  <1>4. PhaseOK' /\ pc' \in {"idle", "refind"}
    BY <1>2 DEF IInv, TypeOK, PhaseOK, RequestOK
  <1>5. CASE Mergeable(prev[n])
    <2>1. PICK b : b = prev[n]
      OBVIOUS
    <2>2. b \in blocks /\ is_free[b] /\ next[b] = n
      BY <1>2, <1>5, <2>1, Neighbours DEF Mergeable
    <2>3. Absorb(b, n) /\ HeaderRemoved /\ stale' = stale \cup {n}
      BY <1>1, <1>2, <1>5, <2>1 DEF coalesce_prev, Absorb, area
    <2>4. /\ Tiling' /\ NoOverlap' /\ Owned'
          /\ size' \in [Addr -> Nat] /\ blocks' \subseteq Addr
          /\ next' \in [Addr -> Addr \cup {NULL}] /\ prev' \in [Addr -> Addr \cup {NULL}]
          /\ b \in blocks' /\ next'[b] = next[n]
          /\ \A c \in blocks' : c # b => next'[c] = next[c] /\ next[c] # n
      BY <1>2, <2>2, <2>3, AbsorbTiling
    <2>5. StatsBalance' /\ num_blocks' \in Int /\ free_size' \in Int
      BY <1>2, <2>3, HeaderRemovedBalance DEF area
    <2>6. stale' \subseteq Addr
      BY <1>2, <2>3 DEF IInv, TypeOK
    <2>7. TypeOK'
      BY <1>2, <1>3, <1>4, <2>4, <2>5, <2>6 DEF IInv, TypeOK, area, clients
    <2>8. FreePairs'
      <3>1. \A c \in blocks : next[c] # NULL /\ is_free[c] /\ is_free[next[c]] => next[c] = n
        BY <1>1, <1>2 DEF IInv, FreePairs
      <3>2. ASSUME NEW c \in blocks', next'[c] # NULL, is_free[c], is_free[next'[c]]
            PROVE  FALSE
        <4>1. CASE c = b
          <5>1. next[n] # NULL /\ is_free[next[n]]
            BY <3>2, <4>1, <2>4
          <5>2. next[n] = n
            BY <5>1, <3>1, <1>2
          <5>3. n < next[n] /\ n \in Nat
            BY <5>1, <1>2, Neighbours
          <5> QED
            BY <5>2, <5>3
        <4>2. CASE c # b
          <5>1. c \in blocks
            BY <2>3 DEF Absorb
          <5> QED
            BY <5>1, <4>2, <3>1, <3>2, <2>4
        <4> QED
          BY <4>1, <4>2
      <3> QED
        BY <1>2, <3>2 DEF FreePairs
    <2> QED
      BY <1>4, <2>4, <2>5, <2>7, <2>8 DEF IInv
  <1>6. CASE ~Mergeable(prev[n])
    <2>1. UNCHANGED <<blocks, fields, area, stats, stale, clients>>
      BY <1>1, <1>2, <1>6 DEF coalesce_prev, fields, stats
    <2>2. TypeOK'
      BY <1>3, <1>4, <2>1 DEF IInv, TypeOK, fields, area, stats, clients
    <2>3. Owned'
      BY <2>1 DEF IInv, Owned, End, fields, clients
    <2>4. FreePairs'
      <3>1. \A c \in blocks : next[c] # NULL /\ is_free[c] /\ is_free[next[c]] => next[c] = n
        BY <1>1, <1>2 DEF IInv, FreePairs
      <3>2. ASSUME NEW c \in blocks, next[c] = n, n # NULL, is_free[c] PROVE FALSE
        BY <3>2, <1>6, Neighbours DEF Mergeable
      <3> QED
        BY <3>1, <3>2, <2>1 DEF FreePairs, fields
    <2> QED
      BY <1>4, <2>1, <2>2, <2>3, <2>4, SameAreaIInv DEF IInv
  <1> QED
    BY <1>5, <1>6

\* split_block cuts the free block it was given in two.
LEMMA SplitIInv ==
  ASSUME IInv, split_block
  PROVE  IInv'
  <1> USE SizeAssumption
  <1>1. PICK b, r, new : b = call.blk /\ r = call.req /\ new = b + HEADER_SIZE + r
    OBVIOUS
  <1>2. /\ b \in blocks /\ is_free[b] /\ r \in Nat /\ r <= size[b]
        /\ pc = "split" /\ pc' = "take" /\ call' = call
        /\ UNCHANGED <<area, used_size, num_allocations, clients>>
    BY <1>1 DEF IInv, TypeOK, PhaseOK, split_block
  <1>3. CASE WorthSplitting
    <2>1. /\ \A c \in blocks : /\ c \in Addr /\ c \in Nat /\ size[c] \in Nat /\ c # NULL
                               /\ End(c) \in Nat /\ c < End(c) /\ End(c) <= heap_cur_size
                               /\ next[c] = NULL => End(c) = heap_cur_size
                               /\ next[c] # NULL => /\ next[c] \in blocks /\ next[c] = End(c)
                                                    /\ prev[next[c]] = c
                               /\ c # 0 => prev[c] \in blocks /\ next[prev[c]] = c
          /\ \A c, d \in blocks : c < d => End(c) <= d
          /\ 0 \in blocks /\ prev[0] = NULL
      BY Neighbours
    <2>2. /\ size[b] >= r + HEADER_SIZE + MIN_BLOCK_SIZE
          /\ blocks' = blocks \cup {new}
          /\ size' = [size EXCEPT ![new] = size[b] - r - HEADER_SIZE, ![b] = r]
          /\ is_free' = [is_free EXCEPT ![new] = TRUE]
          /\ next' = [next EXCEPT ![new] = next[b], ![b] = new]
          /\ prev' = [a \in Addr |-> IF a = new THEN b
                                     ELSE IF next[b] # NULL /\ a = next[b] THEN new ELSE prev[a]]
          /\ HeaderAdded
          /\ stale' = stale \ Overwritten(new)
      BY <1>1, <1>3 DEF split_block, WorthSplitting
    <2>3. /\ b < new /\ new < End(b) /\ new \in Nat /\ new + HEADER_SIZE <= End(b)
          /\ new + HEADER_SIZE + (size[b] - r - HEADER_SIZE) = End(b)
      BY <1>1, <1>2, <2>1, <2>2 DEF End
    <2>4. new \in Addr /\ new # NULL /\ new \notin blocks /\ new # 0
      <3>1. heap_cur_size \in Addr
        BY DEF IInv, TypeOK
      <3>2. new \notin blocks
        BY <1>2, <2>1, <2>3
      <3> QED
        BY <1>2, <2>1, <2>3, <3>1, <3>2 DEF Addr, NULL
    <2>5. /\ size' \in [Addr -> Nat] /\ blocks' \subseteq Addr /\ stale' \subseteq Addr
          /\ next' \in [Addr -> Addr \cup {NULL}] /\ prev' \in [Addr -> Addr \cup {NULL}]
      <3>1. size[b] - r - HEADER_SIZE \in Nat
        BY <1>2, <2>1, <2>2
      <3> QED
        BY <1>2, <2>1, <2>2, <2>4, <3>1 DEF IInv, TypeOK
    <2>6. /\ size'[new] = size[b] - r - HEADER_SIZE /\ size'[b] = r
          /\ \A c \in blocks : c # b => size'[c] = size[c]
          /\ next'[new] = next[b] /\ next'[b] = new
          /\ \A c \in blocks : c # b => next'[c] = next[c]
          /\ blocks' = blocks \cup {new} /\ heap_cur_size' = heap_cur_size
      BY <1>2, <2>1, <2>2, <2>3, <2>4 DEF IInv, TypeOK, area
    <2>7. /\ prev'[new] = b /\ (next[b] # NULL => prev'[next[b]] = new)
          /\ \A c \in blocks : c # next[b] => prev'[c] = prev[c]
      BY <1>2, <2>1, <2>2, <2>4
    <2>8. is_free'[new] /\ \A c \in blocks : is_free'[c] = is_free[c]
      <3>1. is_free \in [Addr -> BOOLEAN] /\ blocks \subseteq Addr
        BY DEF IInv, TypeOK
      <3>2. is_free' = [is_free EXCEPT ![new] = TRUE] /\ new \in Addr /\ new \notin blocks
        BY <2>2, <2>4
      <3>3. is_free'[new] = TRUE
        BY <3>1, <3>2
      <3>4. \A c \in blocks : is_free'[c] = is_free[c]
        BY Zenon, <3>1, <3>2
      <3> QED
        BY <3>3, <3>4
    <2>9. End(new)' = End(b) /\ End(b)' = new /\ \A c \in blocks : c # b => End(c)' = End(c)
      BY <1>1, <2>3, <2>6 DEF End
    <2>10. Tiling'
      <3>1. ASSUME NEW c \in blocks'
            PROVE  /\ End(c)' <= heap_cur_size'
                   /\ next'[c] = NULL => End(c)' = heap_cur_size'
                   /\ next'[c] # NULL => next'[c] \in blocks' /\ next'[c] = End(c)' /\ prev'[next'[c]] = c
        <4>1. CASE c = new
          BY <4>1, <1>2, <2>1, <2>4, <2>6, <2>7, <2>9
        <4>2. CASE c = b
          <5>1. /\ End(c)' = new /\ next'[c] = new /\ new # NULL /\ new \in blocks' /\ prev'[new] = b
                /\ heap_cur_size' = heap_cur_size
            BY <4>2, <1>2, <2>4, <2>6, <2>7, <2>9
          <5>2. new <= heap_cur_size
            <6>1. heap_cur_size \in Nat
              BY DEF IInv, TypeOK, Addr
            <6> QED
              BY <6>1, <1>2, <2>1, <2>3
          <5> QED
            BY <5>1, <5>2, <4>2
        <4>3. CASE c # b /\ c # new
          <5>1. /\ c \in blocks /\ End(c)' = End(c) /\ next'[c] = next[c]
                /\ next[c] # NULL => next[c] \in blocks /\ next[c] = End(c) /\ prev[next[c]] = c
            BY <4>3, <2>1, <2>6, <2>9
          <5>2. next[c] # NULL => next[c] # next[b]
            BY <5>1, <4>3, <1>2, <2>1
          <5> QED
            BY <5>1, <5>2, <2>1, <2>6, <2>7
        <4> QED
          BY <4>1, <4>2, <4>3
      <3>2. ASSUME NEW c \in blocks', c # 0
            PROVE  prev'[c] \in blocks' /\ next'[prev'[c]] = c
        <4>1. CASE c = new
          BY <4>1, <1>2, <2>6, <2>7
        <4>2. CASE c # new /\ c = next[b]
          BY <4>2, <2>1, <2>6, <2>7
        <4>3. CASE c # new /\ c # next[b]
          <5>1. c \in blocks /\ prev'[c] = prev[c] /\ prev[c] \in blocks /\ next[prev[c]] = c
            BY <3>2, <4>3, <2>1, <2>6, <2>7
          <5> QED
            BY <5>1, <4>3, <2>6
        <4> QED
          BY <4>1, <4>2, <4>3
      <3>3. 0 \in blocks' /\ prev'[0] = NULL
        <4>1. next[b] # 0
          BY <1>2, <2>1
        <4> QED
          BY <4>1, <2>1, <2>6, <2>7
      <3> QED
        BY <3>1, <3>2, <3>3 DEF Tiling
    <2>11. NoOverlap'
      <3>1. ASSUME NEW c \in blocks', NEW d \in blocks', c < d PROVE End(c)' <= d
        <4>1. CASE c = new
          <5>1. d \in blocks /\ d # b /\ b < d
            BY <3>1, <4>1, <1>2, <2>1, <2>3, <2>6
          <5> QED
            BY <5>1, <4>1, <1>2, <2>1, <2>9
        <4>2. CASE c = b
          <5>1. d = new \/ (d \in blocks /\ End(b) <= d /\ d \in Nat)
            BY <3>1, <4>2, <1>2, <2>1, <2>6
          <5> QED
            BY <5>1, <4>2, <1>2, <2>1, <2>3, <2>9
        <4>3. CASE c # new /\ c # b
          <5>1. c \in blocks /\ c \in Nat /\ End(c)' = End(c) /\ End(c) \in Nat
            BY <4>3, <2>1, <2>6, <2>9
          <5>2. CASE d = new
            <6>1. c < b
              <7>1. b \in Nat /\ ~(b < c)
                BY <5>1, <5>2, <3>1, <1>2, <2>1, <2>3
              <7> QED
                BY <7>1, <5>1, <4>3
            <6>2. End(c) <= b
              BY <6>1, <5>1, <1>2, <2>1
            <6> QED
              BY <6>2, <5>1, <5>2, <1>2, <2>1, <2>3
          <5>3. CASE d # new
            BY <5>1, <5>3, <3>1, <2>1, <2>6
          <5> QED
            BY <5>2, <5>3
        <4> QED
          BY <4>1, <4>2, <4>3
      <3> QED
        BY <3>1 DEF NoOverlap
    <2>12. Owned'
      <3>1. (\A p \in live : slot[p] # b) /\ UNCHANGED <<live, slot, len>>
        BY <1>2 DEF IInv, Owned, clients
      <3> QED
        BY <3>1, <2>6, <2>8, <2>9 DEF IInv, Owned
    <2>13. StatsBalance' /\ num_blocks' \in Int /\ free_size' \in Int
      <3>1. /\ used_size \in Int /\ free_size \in Int /\ num_blocks \in Int /\ HEADER_SIZE * num_blocks \in Int
            /\ used_size + free_size + HEADER_SIZE * num_blocks = total_size /\ total_size = heap_cur_size
        BY DEF IInv, TypeOK, StatsBalance
      <3>2. HEADER_SIZE * num_blocks' = HEADER_SIZE * num_blocks + HEADER_SIZE
        BY <2>2, <3>1, OneMore DEF HeaderAdded
      <3>3. used_size' + free_size' + HEADER_SIZE * num_blocks' = total_size'
        BY <1>2, <2>2, <3>1, <3>2 DEF HeaderAdded, area
      <3> QED
        BY <1>2, <2>2, <3>1, <3>3 DEF StatsBalance, HeaderAdded, area
    <2>14. is_free' \in [Addr -> BOOLEAN]
      BY Zenon, <2>2 DEF IInv, TypeOK
    <2>15. TypeOK'
      BY <1>2, <2>5, <2>13, <2>14 DEF IInv, TypeOK, area, clients
    <2>16. PhaseOK'
      <3>1. call'.blk \in blocks' /\ is_free'[call'.blk] /\ call'.req <= size'[call'.blk]
        BY <1>1, <1>2, <2>6, <2>8
      <3> QED
        BY <3>1, <1>2 DEF IInv, PhaseOK, RequestOK
    <2>17. FreePairs'
      <3>1. \A c \in blocks : next[c] # NULL => ~(is_free[c] /\ is_free[next[c]])
        BY <1>2 DEF IInv, FreePairs
      <3>2. ASSUME NEW c \in blocks', next'[c] # NULL, is_free'[c], is_free'[next'[c]], c # b PROVE FALSE
        <4>1. CASE c = new
          BY <4>1, <3>1, <3>2, <1>2, <2>1, <2>6, <2>8
        <4>2. CASE c # new
          BY <4>2, <3>1, <3>2, <2>1, <2>6, <2>8
        <4> QED
          BY <4>1, <4>2
      <3> QED
        BY <3>2, <1>1, <1>2 DEF FreePairs
    <2> QED
      BY <2>10, <2>11, <2>12, <2>13, <2>15, <2>16, <2>17 DEF IInv
  <1>4. CASE ~WorthSplitting
    <2>1. UNCHANGED <<blocks, fields, area, stats, stale, clients>>
      BY <1>2, <1>4 DEF split_block, stats
    <2>2. TypeOK' /\ PhaseOK'
      BY <1>2, <2>1 DEF IInv, TypeOK, PhaseOK, RequestOK, fields, area, stats, clients
    <2>3. Owned' /\ FreePairs'
      BY <1>2, <2>1 DEF IInv, Owned, FreePairs, End, fields, clients
    <2> QED
      BY <2>1, <2>2, <2>3, SameAreaIInv DEF IInv
  <1> QED
    BY <1>3, <1>4

\* The pointer kmalloc is about to hand out lies in the block it found, with room
\* for the request, and nobody holds it.
LEMMA TakeFresh ==
  ASSUME IInv, take
  PROVE  LET b == call.blk
             p == Returned(b + HEADER_SIZE)
         IN /\ p \in Addr /\ p \in Nat /\ b + HEADER_SIZE <= p /\ p + call.ask <= End(b) /\ call.ask > 0
            /\ \A q \in live : slot[q] # b /\ q # p
  <1> USE SizeAssumption
  <1>1. PICK b, p : b = call.blk /\ p = Returned(b + HEADER_SIZE)
    OBVIOUS
  <1>2. /\ b \in blocks /\ is_free[b] /\ RequestOK /\ call.req <= size[b]
        /\ b \in Nat /\ size[b] \in Nat /\ End(b) \in Nat /\ End(b) <= heap_cur_size
        /\ call.req \in Nat /\ call.ask \in Nat /\ call.align \in Nat /\ call.old \in Addr \cup {NULL}
    <2>1. /\ b \in blocks /\ is_free[b] /\ RequestOK /\ call.req <= size[b]
      BY <1>1 DEF IInv, PhaseOK, take
    <2>2. /\ b \in Nat /\ size[b] \in Nat
          /\ call.req \in Nat /\ call.ask \in Nat /\ call.align \in Nat /\ call.old \in Addr \cup {NULL}
      BY <2>1 DEF IInv, TypeOK, Addr
    <2>3. End(b) \in Nat /\ End(b) <= heap_cur_size
      BY <2>1, <2>2 DEF IInv, Tiling, End
    <2> QED
      BY <2>1, <2>2, <2>3
  <1>3. /\ is_free' = [is_free EXCEPT ![b] = FALSE]
        /\ live' = live \cup {p}
        /\ slot' = [slot EXCEPT ![p] = b]
        /\ len' = [len EXCEPT ![p] = call.ask]
        /\ used_size' = used_size + size[b] /\ free_size' = free_size - size[b]
        /\ num_allocations' = num_allocations + 1
        /\ stale' \subseteq stale
        /\ pc' = (IF call.old # NULL THEN "free_old" ELSE "idle")
        /\ call' = (IF call.old # NULL THEN call ELSE Idle)
        /\ UNCHANGED <<blocks, size, next, prev, area, num_blocks>>
    BY <1>1 DEF take
  <1>4. p \in Nat /\ b + HEADER_SIZE <= p /\ p + call.ask <= End(b) /\ call.ask > 0
    <2>1. CASE call.op = "aligned"
      <3>1. /\ call.ask > 0 /\ call.align > 0 /\ call.ask + call.align + META <= call.req
            /\ p = RoundUp(b + HEADER_SIZE + META, call.align)
        BY <1>1, <1>2, <2>1 DEF RequestOK, Returned
      <3>2. b + HEADER_SIZE + META \in Nat /\ call.align \in Nat \ {0}
        BY <1>2, <3>1
      <3>3. p \in Nat /\ b + HEADER_SIZE + META <= p /\ p < b + HEADER_SIZE + META + call.align
        BY Zenon, <3>1, <3>2, RoundUpFact
      <3> QED
        BY <3>1, <3>3, <1>2 DEF End
    <2>2. CASE call.op # "aligned"
      BY <1>1, <1>2, <2>2 DEF RequestOK, Returned, End
    <2> QED
      BY <2>1, <2>2
  <1>5. p \in Addr
    <2>1. heap_cur_size \in Addr
      BY DEF IInv, TypeOK
    <2> QED
      BY <2>1, <1>2, <1>4 DEF Addr
  <1>6. \A q \in live : slot[q] # b /\ q # p
    <2> SUFFICES ASSUME NEW q \in live PROVE slot[q] # b /\ q # p
      OBVIOUS
    <2>1. /\ slot[q] \in blocks /\ slot[q] # b /\ slot[q] + HEADER_SIZE <= q /\ q + len[q] <= End(slot[q])
          /\ len[q] > 0 /\ len[q] \in Nat /\ q \in Nat /\ slot[q] \in Nat /\ End(slot[q]) \in Nat
      <3>1. /\ slot[q] \in blocks /\ slot[q] # b /\ slot[q] + HEADER_SIZE <= q /\ q + len[q] <= End(slot[q])
            /\ len[q] > 0
        BY <1>2 DEF IInv, Owned
      <3>2. len[q] \in Nat /\ q \in Nat /\ slot[q] \in Nat /\ size[slot[q]] \in Nat
        <4>1. q \in Addr /\ slot[q] \in Addr
          BY <3>1 DEF IInv, TypeOK
        <4>2. len[q] \in Nat /\ size[slot[q]] \in Nat
          BY <4>1 DEF IInv, TypeOK
        <4> QED
          BY <4>1, <4>2 DEF Addr
      <3> QED
        BY <3>1, <3>2 DEF End
    <2>2. slot[q] < b => End(slot[q]) <= b
      BY <2>1, <1>2 DEF IInv, NoOverlap
    <2>3. b < slot[q] => End(b) <= slot[q]
      BY <2>1, <1>2 DEF IInv, NoOverlap
    <2> QED
      BY <2>1, <2>2, <2>3, <1>2, <1>4
  <1> QED
    BY <1>1, <1>4, <1>5, <1>6

\* The end of kmalloc hands out a pointer into a free block.
LEMMA TakeIInv ==
  ASSUME IInv, OldLive, take
  PROVE  IInv' /\ OldLive'
  <1> USE SizeAssumption
  <1>1. PICK b, p : b = call.blk /\ p = Returned(b + HEADER_SIZE)
    OBVIOUS
  <1>2. /\ b \in blocks /\ is_free[b] /\ RequestOK /\ call.req <= size[b]
        /\ b \in Nat /\ size[b] \in Nat /\ End(b) \in Nat /\ End(b) <= heap_cur_size
        /\ call.req \in Nat /\ call.ask \in Nat /\ call.align \in Nat /\ call.old \in Addr \cup {NULL}
    <2>1. /\ b \in blocks /\ is_free[b] /\ RequestOK /\ call.req <= size[b]
      BY <1>1 DEF IInv, PhaseOK, take
    <2>2. /\ b \in Nat /\ size[b] \in Nat
          /\ call.req \in Nat /\ call.ask \in Nat /\ call.align \in Nat /\ call.old \in Addr \cup {NULL}
      BY <2>1 DEF IInv, TypeOK, Addr
    <2>3. End(b) \in Nat /\ End(b) <= heap_cur_size
      BY <2>1, <2>2 DEF IInv, Tiling, End
    <2> QED
      BY <2>1, <2>2, <2>3
  <1>3. /\ is_free' = [is_free EXCEPT ![b] = FALSE]
        /\ live' = live \cup {p}
        /\ slot' = [slot EXCEPT ![p] = b]
        /\ len' = [len EXCEPT ![p] = call.ask]
        /\ used_size' = used_size + size[b] /\ free_size' = free_size - size[b]
        /\ num_allocations' = num_allocations + 1
        /\ stale' \subseteq stale
        /\ pc' = (IF call.old # NULL THEN "free_old" ELSE "idle")
        /\ call' = (IF call.old # NULL THEN call ELSE Idle)
        /\ UNCHANGED <<blocks, size, next, prev, area, num_blocks>>
    BY <1>1 DEF take
  <1>4. /\ p \in Nat /\ b + HEADER_SIZE <= p /\ p + call.ask <= End(b) /\ call.ask > 0
    BY <1>1, TakeFresh
  <1>5. p \in Addr
    BY <1>1, TakeFresh
  <1>6. \A q \in live : slot[q] # b /\ q # p
    BY <1>1, TakeFresh
  <1>7. /\ slot'[p] = b /\ len'[p] = call.ask
        /\ \A q \in live : slot'[q] = slot[q] /\ len'[q] = len[q]
    BY <1>3, <1>5, <1>6 DEF IInv, TypeOK
  <1>8. /\ is_free' \in [Addr -> BOOLEAN] /\ ~is_free'[b]
        /\ \A c \in blocks : c # b => is_free'[c] = is_free[c]
    <2>1. is_free \in [Addr -> BOOLEAN] /\ blocks \subseteq Addr
      BY DEF IInv, TypeOK
    <2> QED
      BY <2>1, <1>2, <1>3
  <1>9. TypeOK'
    <2>1. /\ slot' \in [Addr -> Addr \cup {NULL}] /\ len' \in [Addr -> Nat] /\ live' \subseteq Addr
          /\ stale' \subseteq Addr /\ num_allocations' \in Nat /\ used_size' \in Int /\ free_size' \in Int
      BY <1>2, <1>3, <1>5 DEF IInv, TypeOK
    <2>2. call' \in [blk : Addr, req : Nat, ask : Nat, align : Nat, old : Addr \cup {NULL},
               op : {"none", "kmalloc", "kzalloc", "aligned", "krealloc"}, ret : {"idle", "refind"}]
      BY <1>3 DEF IInv, TypeOK, Idle, Addr
    <2>3. pc' \in {"free_old", "idle"}
      BY <1>3
    <2> QED
      BY <1>3, <1>8, <2>1, <2>2, <2>3 DEF IInv, TypeOK, area
  <1>10. Tiling' /\ NoOverlap'
    BY <1>3 DEF IInv, Tiling, NoOverlap, End, area
  <1>11. StatsBalance'
    <2>1. /\ used_size \in Int /\ free_size \in Int /\ HEADER_SIZE * num_blocks \in Int /\ size[b] \in Int
          /\ used_size + free_size + HEADER_SIZE * num_blocks = total_size /\ total_size = heap_cur_size
      BY <1>2 DEF IInv, TypeOK, StatsBalance
    <2>2. used_size' + free_size' + HEADER_SIZE * num_blocks = total_size
      BY <2>1, <1>3
    <2> QED
      BY <2>1, <2>2, <1>3 DEF StatsBalance, area
  <1>12. Owned'
    <2>1. \A q \in live : /\ slot[q] \in blocks /\ ~is_free[slot[q]]
                          /\ slot[q] + HEADER_SIZE <= q /\ q + len[q] <= End(slot[q]) /\ len[q] > 0
      BY DEF IInv, Owned
    <2>2. \A q, t \in live : slot[q] = slot[t] => q = t
      BY DEF IInv, Owned
    <2>3. \A c \in blocks : End(c)' = End(c)
      BY <1>3 DEF End
    <2>4. ASSUME NEW q \in live' PROVE ~is_free'[slot'[q]] /\ slot'[q] \in blocks'
      BY <2>1, <1>2, <1>3, <1>6, <1>7, <1>8
    <2>5. ASSUME NEW q \in live'
          PROVE  /\ slot'[q] + HEADER_SIZE <= q /\ len'[q] > 0
                 /\ q + len'[q] <= slot'[q] + HEADER_SIZE + size'[slot'[q]]
      <3>1. CASE q = p
        BY <3>1, <1>2, <1>3, <1>4, <1>7 DEF End
      <3>2. CASE q \in live
        BY <3>2, <2>1, <1>3, <1>7 DEF End
      <3> QED
        BY <3>1, <3>2, <1>3
    <2>6. \A q, t \in live' : slot'[q] = slot'[t] => q = t
      BY <2>2, <1>3, <1>6, <1>7
    <2> QED
      BY <2>4, <2>5, <2>6 DEF Owned, End
  <1>13. FreePairs'
    <2>1. pc = "take" /\ pc' \notin {"take", "coalesce_next", "coalesce_prev"}
      BY <1>3 DEF take
    <2>2. \A c \in blocks : next[c] # NULL /\ is_free[c] /\ is_free[next[c]] => c = b
      BY <2>1, <1>1 DEF IInv, FreePairs
    <2>3. \A c \in blocks : next[c] # NULL => next[c] \in blocks
      BY DEF IInv, Tiling
    <2>4. \A c \in blocks : next[c] # NULL => ~(is_free'[c] /\ is_free'[next[c]])
      BY <2>2, <2>3, <1>8
    <2> QED
      BY <2>4, <1>3 DEF FreePairs
  <1>14. PhaseOK' /\ OldLive'
    BY <1>2, <1>3 DEF PhaseOK, OldLive, Idle, NULL
  <1> QED
    BY <1>9, <1>10, <1>11, <1>12, <1>13, <1>14 DEF IInv

\* The header kfree settles on, when it is one of the list, is the pointer's block.
LEMMA HeaderFact ==
  ASSUME IInv, NEW p \in live, HeaderOf(p) \in blocks
  PROVE  HeaderOf(p) = slot[p]
  <1> USE SizeAssumption
  <1>1. /\ slot[p] \in blocks /\ slot[p] + HEADER_SIZE <= p /\ p + len[p] <= End(slot[p]) /\ len[p] > 0
    BY DEF IInv, Owned
  <1>2. p \in Addr /\ slot[p] \in Addr
    BY <1>1 DEF IInv, TypeOK
  <1>3. len[p] \in Nat /\ size[slot[p]] \in Nat
    BY <1>2 DEF IInv, TypeOK
  <1>4. p \in Nat /\ slot[p] \in Nat /\ End(slot[p]) \in Nat
    BY <1>2, <1>3 DEF Addr, End
  <1>5. CASE HeaderOf(p) = p - HEADER_SIZE
    <2>1. slot[p] < p - HEADER_SIZE => End(slot[p]) <= p - HEADER_SIZE
      BY <1>1, <1>5 DEF IInv, NoOverlap
    <2> QED
      BY <2>1, <1>1, <1>3, <1>4, <1>5
  <1> QED
    BY <1>5 DEF HeaderOf

\* kfree, called by a client or at the end of krealloc.
LEMMA ReleaseIInv ==
  ASSUME IInv, NEW p \in live, pc \in {"idle", "free_old"}, Release(p)
  PROVE  IInv' /\ OldLive'
  <1> USE SizeAssumption
  <1>1. PICK b : b = HeaderOf(p)
    OBVIOUS
  <1>2. /\ live' = live \ {p}
        /\ UNCHANGED <<blocks, size, next, prev, area, num_blocks, stale, slot, len>>
    BY DEF Release
  <1>3. Tiling' /\ NoOverlap'
    BY <1>2 DEF IInv, Tiling, NoOverlap, End, area
  <1>4. \A c \in blocks : next[c] # NULL => next[c] \in blocks /\ ~(is_free[c] /\ is_free[next[c]])
    BY DEF IInv, Tiling, FreePairs
  <1>5. CASE b \in blocks /\ ~is_free[b]
    <2>1. /\ is_free' = [is_free EXCEPT ![b] = TRUE]
          /\ used_size' = used_size - size[b] /\ free_size' = free_size + size[b]
          /\ num_allocations' = (IF num_allocations > 0 THEN num_allocations - 1 ELSE 0)
          /\ pc' = "coalesce_next" /\ call' = [Idle EXCEPT !.blk = b]
      BY <1>1, <1>5 DEF Release
    <2>2. b = slot[p] /\ b \in Addr /\ size[b] \in Nat
      BY <1>1, <1>5, HeaderFact DEF IInv, TypeOK
    <2>3. /\ is_free' \in [Addr -> BOOLEAN] /\ is_free'[b]
          /\ \A c \in blocks : c # b => is_free'[c] = is_free[c]
      <3>1. is_free \in [Addr -> BOOLEAN] /\ blocks \subseteq Addr
        BY DEF IInv, TypeOK
      <3>2. is_free'[b] = TRUE
        BY <2>1, <2>2, <3>1
      <3> QED
        BY <2>1, <2>2, <3>1, <3>2
    <2>4. call'.blk = b /\ call'.ret = "idle" /\ call'.old = NULL
      BY <2>1 DEF Idle
    <2>5. TypeOK'
      <3>1. /\ used_size' \in Int /\ free_size' \in Int /\ num_allocations' \in Nat
        BY <2>1, <2>2 DEF IInv, TypeOK
      <3>2. call' \in [blk : Addr, req : Nat, ask : Nat, align : Nat, old : Addr \cup {NULL},
               op : {"none", "kmalloc", "kzalloc", "aligned", "krealloc"}, ret : {"idle", "refind"}]
        BY <2>1, <2>2 DEF Idle
      <3> QED
        BY <1>2, <2>1, <2>3, <3>1, <3>2 DEF IInv, TypeOK, area
    <2>6. Owned'
      <3>1. \A q \in live' : slot[q] \in blocks /\ slot[q] # b /\ ~is_free[slot[q]]
        BY <1>2, <2>2 DEF IInv, Owned
      <3>2. \A q \in live' : ~is_free'[slot[q]]
        BY <3>1, <2>3
      <3> QED
        BY <3>1, <3>2, <1>2 DEF IInv, Owned, End
    <2>7. StatsBalance'
      <3>1. /\ used_size \in Int /\ free_size \in Int /\ HEADER_SIZE * num_blocks \in Int
            /\ used_size + free_size + HEADER_SIZE * num_blocks = total_size /\ total_size = heap_cur_size
        BY DEF IInv, TypeOK, StatsBalance
      <3>2. used_size' + free_size' + HEADER_SIZE * num_blocks = total_size
        BY <2>1, <2>2, <3>1
      <3> QED
        BY <1>2, <3>1, <3>2 DEF StatsBalance, area
    <2>8. FreePairs'
      BY <1>2, <1>4, <2>1, <2>3, <2>4 DEF FreePairs
    <2>9. PhaseOK' /\ OldLive'
      BY <1>2, <1>5, <2>1, <2>3, <2>4 DEF PhaseOK, OldLive
    <2> QED
      BY <1>3, <2>5, <2>6, <2>7, <2>8, <2>9 DEF IInv
  <1>6. CASE ~(b \in blocks /\ ~is_free[b])
    <2>1. /\ pc' = "idle" /\ call' = Idle
          /\ UNCHANGED <<is_free, used_size, free_size, num_allocations>>
      BY <1>1, <1>6 DEF Release
    <2>2. call' \in [blk : Addr, req : Nat, ask : Nat, align : Nat, old : Addr \cup {NULL},
               op : {"none", "kmalloc", "kzalloc", "aligned", "krealloc"}, ret : {"idle", "refind"}]
      BY <2>1 DEF Idle, Addr
    <2>3. TypeOK'
      BY <1>2, <2>1, <2>2 DEF IInv, TypeOK, area
    <2>4. Owned'
      BY <1>2, <2>1 DEF IInv, Owned, End
    <2>5. FreePairs' /\ StatsBalance'
      BY Zenon, <1>2, <1>4, <2>1 DEF IInv, FreePairs, StatsBalance, area
    <2>6. PhaseOK' /\ OldLive'
      BY <2>1 DEF PhaseOK, OldLive, Idle
    <2> QED
      BY <1>3, <2>3, <2>4, <2>5, <2>6 DEF IInv
  <1> QED
    BY <1>5, <1>6

\* A step that leaves the clients alone and only picks the block keeps OldLive.
LEMMA OldLiveKept ==
  ASSUME OldLive, live' = live, pc' # "free_old", call'.old \in {call.old, NULL}
  PROVE  OldLive'
  BY DEF OldLive

\* Every step keeps the invariant.
LEMMA NextIInv == IInv /\ OldLive /\ [Next]_vars => IInv' /\ OldLive'
  <1> SUFFICES ASSUME IInv, OldLive, [Next]_vars PROVE IInv' /\ OldLive'
    OBVIOUS
  <1> USE SizeAssumption
  <1>1. ASSUME NEW n \in Requests, kmalloc(n) \/ kzalloc(n) PROVE IInv' /\ OldLive'
    <2>1. n \in Nat \ {0} /\ NULL \in Addr \cup {NULL}
      OBVIOUS
    <2>2. IInv'
      BY <1>1, <2>1, EnterIInv DEF kmalloc, kzalloc
    <2> QED
      BY <1>1, <2>2, OldLiveKept DEF kmalloc, kzalloc, Enter, clients
  <1>2. ASSUME NEW n \in Requests, NEW align \in Alignments, kmalloc_aligned(n, align)
        PROVE  IInv' /\ OldLive'
    <2>1. n \in Nat \ {0} /\ align \in Nat \ {0} /\ NULL \in Addr \cup {NULL} /\ n + align + META \in Nat
      OBVIOUS
    <2>2. IInv'
      BY <1>2, <2>1, EnterIInv DEF kmalloc_aligned
    <2> QED
      BY <1>2, <2>2, OldLiveKept DEF kmalloc_aligned, Enter, clients
  <1>3. ASSUME NEW p \in live, NEW n \in Requests, krealloc(p, n) PROVE IInv' /\ OldLive'
    <2>1. n \in Nat \ {0} /\ p \in Addr \cup {NULL}
      BY DEF IInv, TypeOK
    <2>2. IInv'
      BY <1>3, <2>1, EnterIInv DEF krealloc
    <2> QED
      BY <1>3, <2>2 DEF krealloc, Enter, clients, OldLive
  <1>4. ASSUME NEW p \in live, kfree(p) PROVE IInv' /\ OldLive'
    BY <1>4, ReleaseIInv DEF kfree
  <1>5. CASE krealloc_free_old
    <2>1. pc = "free_old" /\ call.old \in live /\ Release(call.old)
      BY <1>5 DEF krealloc_free_old, OldLive
    <2> QED
      BY <2>1, ReleaseIInv
  <1>6. CASE find_hit
    <2>1. IInv'
      BY <1>6, FindHitIInv
    <2>2. live' = live /\ pc' # "free_old" /\ call'.old = call.old
      BY <1>6 DEF find_hit, clients, IInv, TypeOK
    <2> QED
      BY <2>1, <2>2, OldLiveKept
  <1>7. CASE find_miss
    <2>1. IInv'
      BY <1>7, FindMissIInv
    <2>2. live' = live /\ pc' # "free_old" /\ call'.old \in {call.old, NULL}
      BY <1>7 DEF find_miss, clients, IInv, TypeOK, Idle
    <2> QED
      BY <2>1, <2>2, OldLiveKept
  <1>8. CASE split_block
    <2>1. IInv'
      BY <1>8, SplitIInv
    <2>2. live' = live /\ pc' # "free_old" /\ call' = call
      BY <1>8 DEF split_block, clients
    <2> QED
      BY <2>1, <2>2, OldLiveKept
  <1>9. CASE take
    BY <1>9, TakeIInv
  <1>10. CASE coalesce_next
    <2>1. IInv'
      BY <1>10, CoalesceNextIInv
    <2>2. live' = live /\ pc' # "free_old" /\ call' = call
      BY <1>10 DEF coalesce_next, clients
    <2> QED
      BY <2>1, <2>2, OldLiveKept
  <1>11. CASE coalesce_prev
    <2>1. IInv'
      BY <1>11, CoalescePrevIInv
    <2>2. live' = live /\ pc' # "free_old" /\ call'.old \in {call.old, NULL}
      BY Zenon, <1>11 DEF coalesce_prev, clients, IInv, TypeOK, Idle
    <2> QED
      BY <2>1, <2>2, OldLiveKept
  <1>12. CASE UNCHANGED vars
    <2>1. UNCHANGED <<blocks, fields, area, stats, stale, clients, pc, call>>
      BY <1>12 DEF vars, fields, area, stats, clients
    <2>2. TypeOK' /\ PhaseOK'
      BY <2>1 DEF IInv, TypeOK, PhaseOK, RequestOK, fields, area, stats, clients
    <2>3. Owned' /\ FreePairs' /\ OldLive'
      BY <2>1 DEF IInv, Owned, FreePairs, OldLive, End, fields, clients
    <2> QED
      BY <2>1, <2>2, <2>3, SameAreaIInv DEF IInv
  <1> QED
    BY <1>1, <1>2, <1>3, <1>4, <1>5, <1>6, <1>7, <1>8, <1>9, <1>10, <1>11, <1>12 DEF Next

\* The inductive invariant holds of every reachable state.
THEOREM Invariance == Spec => [](IInv /\ OldLive)
  <1>1. Init => IInv /\ OldLive
    BY InitIInv DEF Init, Idle, OldLive
  <1> QED
    BY <1>1, NextIInv, PTL DEF Spec

\* heap.c's block list always tiles the heap area, linked both ways, and the
\* counters of heap_stats always account for every word of it.
THEOREM ListTiles == Spec => []AreaDescribed
  <1>1. IInv => AreaDescribed
    BY DEF IInv, AreaDescribed
  <1> QED
    BY <1>1, Invariance, PTL

\* coalesce leaves no two neighbouring free blocks behind.
THEOREM FullyCoalesced == Spec => []NoAdjacentFree
  <1>1. IInv => NoAdjacentFree
    BY DEF IInv, FreePairs, NoAdjacentFree
  <1> QED
    BY <1>1, Invariance, PTL

\* Blocks that do not overlap keep what is carved from them apart.
LEMMA IInvDisjoint == IInv => PayloadsDisjoint
  <1> SUFFICES ASSUME IInv, NEW p \in live
               PROVE  /\ \A q \in live \ {p} : p + len[p] <= q \/ q + len[q] <= p
                      /\ \A b \in blocks : b + HEADER_SIZE <= p \/ p + len[p] <= b
                      /\ p + len[p] <= heap_cur_size
    BY DEF PayloadsDisjoint
  <1> USE SizeAssumption
  <1>1. \A q \in live : /\ slot[q] \in blocks /\ slot[q] + HEADER_SIZE <= q
                        /\ q + len[q] <= End(slot[q]) /\ q \in Nat /\ len[q] \in Nat
    BY DEF IInv, Owned, TypeOK, Addr
  <1>2. \A b \in blocks : b \in Nat /\ End(b) \in Nat /\ b + HEADER_SIZE <= End(b) /\ End(b) <= heap_cur_size
    BY Neighbours DEF End
  <1>3. \A b, c \in blocks : b < c => End(b) <= c
    BY DEF IInv, NoOverlap
  <1>4. ASSUME NEW q \in live \ {p} PROVE p + len[p] <= q \/ q + len[q] <= p
    <2>1. slot[p] # slot[q]
      BY DEF IInv, Owned
    <2>2. slot[p] \in Nat /\ slot[q] \in Nat /\ (slot[p] < slot[q] \/ slot[q] < slot[p])
      BY <2>1, <1>1, <1>2
    <2>3. End(slot[p]) <= slot[q] \/ End(slot[q]) <= slot[p]
      BY <2>2, <1>1, <1>3
    <2>4. End(slot[p]) \in Nat /\ End(slot[q]) \in Nat
      BY <1>1, <1>2
    <2> QED
      BY <2>2, <2>3, <2>4, <1>1
  <1>5. ASSUME NEW b \in blocks PROVE b + HEADER_SIZE <= p \/ p + len[p] <= b
    <2>1. b \in Nat /\ slot[p] \in Nat /\ End(slot[p]) \in Nat /\ End(b) \in Nat /\ b + HEADER_SIZE <= End(b)
      BY <1>1, <1>2
    <2>2. CASE b = slot[p]
      BY <2>2, <1>1
    <2>3. CASE b < slot[p]
      <3>1. End(b) <= slot[p]
        BY <2>3, <1>1, <1>3
      <3> QED
        BY <3>1, <2>1, <1>1
    <2>4. CASE slot[p] < b
      <3>1. End(slot[p]) <= b
        BY <2>4, <1>1, <1>3
      <3> QED
        BY <3>1, <2>1, <1>1
    <2> QED
      BY <2>1, <2>2, <2>3, <2>4
  <1>6. p + len[p] <= heap_cur_size
    <2>1. heap_cur_size \in Nat
      BY DEF IInv, TypeOK, Addr
    <2> QED
      BY <2>1, <1>1, <1>2
  <1> QED
    BY <1>4, <1>5, <1>6

\* The memory kmalloc, kzalloc, kmalloc_aligned and krealloc hand out never
\* overlaps other clients' memory or a block header.
THEOREM MemoryDisjoint == Spec => []PayloadsDisjoint
  BY IInvDisjoint, Invariance, PTL

\* While a client holds a pointer, no step moves, resizes or removes its block.
THEOREM HeldStable == Spec => HeldBlocksStable
  <1> DEFINE Kept == \A p \in live : p \in live' =>
                       slot'[p] = slot[p] /\ size'[slot[p]] = size[slot[p]] /\ slot[p] \in blocks'
  <1>1. IInv /\ OldLive /\ [Next]_vars => [Kept]_vars
    <2> SUFFICES ASSUME IInv, OldLive, Next, NEW p \in live, p \in live'
                 PROVE  slot'[p] = slot[p] /\ size'[slot[p]] = size[slot[p]] /\ slot[p] \in blocks'
      OBVIOUS
    <2>1. slot[p] \in blocks /\ ~is_free[slot[p]]
      BY DEF IInv, Owned
    <2>2. slot \in [Addr -> Addr \cup {NULL}] /\ size \in [Addr -> Nat] /\ blocks \subseteq Addr /\ live \subseteq Addr
      BY DEF IInv, TypeOK
    <2>3. ASSUME NEW op, NEW req, NEW ask, NEW align, NEW old, Enter(op, req, ask, align, old)
          PROVE  UNCHANGED <<slot, size, blocks>>
      BY <2>3 DEF Enter, fields, clients
    <2>4. ASSUME NEW q, Release(q) PROVE UNCHANGED <<slot, size, blocks>>
      BY <2>4 DEF Release
    <2>5. CASE UNCHANGED <<slot, size, blocks>>
      BY <2>5, <2>1
    <2>6. CASE find_hit
      BY <2>5, <2>6 DEF find_hit, fields, clients
    <2>7. CASE find_miss
      <3>1. slot' = slot
        BY <2>7 DEF find_miss, clients
      <3>2. heap_cur_size \notin blocks /\ slot[p] # heap_cur_size
        <4>1. \A c \in blocks : c < heap_cur_size
          <5>1. heap_cur_size \in Nat
            BY DEF IInv, TypeOK, Addr
          <5>2. \A c \in blocks : c \in Nat /\ End(c) \in Nat /\ c < End(c) /\ End(c) <= heap_cur_size
            BY Neighbours
          <5> QED
            BY <5>1, <5>2
        <4>2. heap_cur_size \notin blocks
          <5>1. heap_cur_size \in Nat
            BY DEF IInv, TypeOK, Addr
          <5> QED
            BY <4>1, <5>1
        <4> QED
          BY <4>2, <2>1
      <3> QED
        BY <2>1, <2>2, <2>7, <3>1, <3>2 DEF find_miss, fields
    <2>8. CASE split_block
      <3>1. slot' = slot /\ call.blk \in blocks /\ is_free[call.blk] /\ call.req \in Nat
        BY <2>8 DEF split_block, clients, IInv, PhaseOK, TypeOK
      <3>2. slot[p] # call.blk
        BY <2>1, <3>1
      <3>3. CASE WorthSplitting
        <4>1. call.blk + HEADER_SIZE + call.req # slot[p]
          <5>1. /\ call.blk \in Nat /\ size[call.blk] \in Nat /\ slot[p] \in Nat
                /\ call.blk < slot[p] => End(call.blk) <= slot[p]
            <6>1. call.blk \in Nat /\ slot[p] \in Nat
              <7>1. call.blk \in Addr /\ slot[p] \in Addr
                BY ZenonT(30), <2>1, <2>2, <3>1
              <7> QED
                BY <7>1, SizeAssumption DEF Addr
            <6>2. size[call.blk] \in Nat
              BY Zenon, <2>2, <3>1
            <6>3. call.blk < slot[p] => End(call.blk) <= slot[p]
              BY <2>1, <3>1 DEF IInv, NoOverlap
            <6> QED
              BY <6>1, <6>2, <6>3
          <5> QED
            BY <5>1, <3>1, <3>3, SizeAssumption DEF WorthSplitting, End
        <4> QED
          BY <2>1, <2>2, <2>8, <3>1, <3>2, <3>3, <4>1 DEF split_block
      <3>4. CASE ~WorthSplitting
        BY <2>5, <2>8, <3>1, <3>4 DEF split_block, fields
      <3> QED
        BY <3>3, <3>4
    <2>9. CASE take
      <3>1. call.blk \in blocks /\ is_free[call.blk]
        BY <2>9 DEF take, IInv, PhaseOK
      <3>2. slot'[p] = slot[p]
        <4>1. p # Returned(call.blk + HEADER_SIZE)
          BY <2>9, TakeFresh
        <4> QED
          BY <2>2, <2>9, <4>1 DEF take
      <3> QED
        BY Zenon, <2>1, <2>9, <3>2 DEF take
    <2>10. CASE coalesce_next
      <3>1. /\ slot' = slot /\ call.blk \in blocks /\ is_free[call.blk]
            /\ next[call.blk] # NULL => next[call.blk] \in Addr
        BY <2>10, <2>2 DEF coalesce_next, clients, IInv, PhaseOK, TypeOK
      <3>2. slot[p] # call.blk /\ (Mergeable(next[call.blk]) => slot[p] # next[call.blk])
        BY Zenon, <2>1, <3>1 DEF Mergeable
      <3> QED
        BY <2>1, <2>2, <2>10, <3>1, <3>2 DEF coalesce_next
    <2>11. CASE coalesce_prev
      <3>1. /\ slot' = slot /\ call.blk \in blocks /\ is_free[call.blk]
        BY <2>11 DEF coalesce_prev, clients, IInv, PhaseOK
      <3>2. slot[p] # call.blk /\ (Mergeable(prev[call.blk]) => slot[p] # prev[call.blk])
        BY Zenon, <2>1, <3>1 DEF Mergeable
      <3> QED
        BY <2>1, <2>2, <2>11, <3>1, <3>2 DEF coalesce_prev
    <2> QED
      BY <2>3, <2>4, <2>5, <2>6, <2>7, <2>8, <2>9, <2>10, <2>11
         DEF Next, kmalloc, kzalloc, kmalloc_aligned, krealloc, kfree, krealloc_free_old
  <1> QED
    BY <1>1, Invariance, PTL DEF Spec, HeldBlocksStable

\* Outside take and Release the clients hold what they held.
LEMMA HeldUnchanged ==
  ASSUME Next, ~take, \A q \in live : ~Release(q), ~krealloc_free_old
  PROVE  UNCHANGED <<live, len>>
  BY DEF Next, kmalloc, kzalloc, kmalloc_aligned, krealloc, Enter, kfree, find_hit, find_miss, split_block,
         coalesce_next, coalesce_prev, clients

\* The end of kmalloc is an allocation.
LEMMA TakeAllocates ==
  ASSUME IInv, IInv', take
  PROVE  Client!Alloc
  <1> USE SizeAssumption
  <1>1. PICK p, n : p = Returned(call.blk + HEADER_SIZE) /\ n = call.ask
    OBVIOUS
  <1>2. p \in Addr /\ p \in Nat /\ n > 0 /\ n \in Nat /\ p \notin live
    BY Zenon, <1>1, TakeFresh DEF IInv, TypeOK
  <1>3. live' = live \cup {p} /\ len' = [len EXCEPT ![p] = n] /\ len \in [Addr -> Nat] /\ live \subseteq Addr
    BY Zenon, <1>1 DEF take, IInv, TypeOK
  <1>4. len'[p] = n /\ \A q \in live : len'[q] = len[q] /\ len[q] \in Nat /\ q \in Nat
    BY <1>2, <1>3 DEF Addr
  <1>5. PayloadsDisjoint'
    BY IInvDisjoint, PTL
  <1>6. heap_cur_size' \in 0..MaxLimit
    BY DEF IInv, TypeOK, Addr
  <1>7. /\ p + n <= MaxLimit
        /\ \A q \in live : p + n <= q \/ q + len[q] <= p
    BY <1>2, <1>3, <1>4, <1>5, <1>6 DEF PayloadsDisjoint
  <1> DEFINE piece == [at |-> p, len |-> n]
  <1>8. Held' = Held \cup {piece}
    BY <1>3, <1>4 DEF Held
  <1>9. piece \in Held' \ Held
    BY Zenon, <1>2, <1>8 DEF Held
  <1>10. piece \in Client!Piece
    BY <1>2, <1>7 DEF Client!Piece
  <1>11. piece.at + piece.len <= MaxLimit /\ \A g \in Held : Client!Apart(g, piece)
    BY <1>7 DEF Client!Apart, Held
  <1> QED
    BY <1>8, <1>9, <1>10, <1>11 DEF Client!Alloc

\* The body of kfree gives back one piece.
LEMMA ReleaseFrees ==
  ASSUME IInv, NEW p \in live, Release(p)
  PROVE  Client!Free
  <1> DEFINE piece == [at |-> p, len |-> len[p]]
  <1>1. live' = live \ {p} /\ len' = len
    BY DEF Release
  <1>2. Held' = Held \ {piece} /\ piece \in Held
    BY <1>1 DEF Held
  <1> QED
    BY <1>2 DEF Client!Free

\* The heap implements the allocator: what a client gets is memory nobody holds,
\* inside the heap, and nothing but its own kfree or krealloc takes it away.
THEOREM ImplementsAllocator == Spec => IsAllocator
  <1>1. Init => Client!Init
    BY DEF Init, Client!Init, Held
  <1>2. IInv /\ OldLive /\ IInv' /\ [Next]_vars => [Client!Next]_Held
    <2> SUFFICES ASSUME IInv, OldLive, IInv', [Next]_vars PROVE Client!Next \/ UNCHANGED Held
      OBVIOUS
    <2>1. CASE take
      BY <2>1, TakeAllocates DEF Client!Next
    <2>2. CASE \E q \in live : Release(q)
      BY <2>2, ReleaseFrees DEF Client!Next
    <2>3. CASE krealloc_free_old
      BY <2>3, <2>2 DEF krealloc_free_old, OldLive
    <2>4. CASE UNCHANGED vars
      BY <2>4 DEF vars, clients, Held
    <2>5. CASE Next /\ ~take /\ (\A q \in live : ~Release(q)) /\ ~krealloc_free_old
      <3>1. UNCHANGED <<live, len>>
        BY <2>5, HeldUnchanged
      <3> QED
        BY <3>1 DEF Held
    <2> QED
      BY <2>1, <2>2, <2>3, <2>4, <2>5
  <1> QED
    BY <1>1, <1>2, Invariance, PTL DEF Spec, IsAllocator, Client!Spec
=============================================================================
