------------------------------- MODULE Paging -------------------------------
(***************************************************************************)
(* kernel/paging.c: the bitmap of physical frames, built from the memory   *)
(* map at boot, and the page tables that map device memory.  Sizes are     *)
(* scaled down: addresses in units of which PAGE_SIZE make a page, tables  *)
(* of ENTRIES pages.                                                       *)
(***************************************************************************)
EXTENDS Integers, FiniteSets

CONSTANTS
  PAGE_SIZE, ENTRIES,
  BITMAP_FRAMES,           \* frames the bitmap has bits for
  IDENTITY_MAP_TABLES,     \* tables paging_install fills
  STATIC_PT_POOL_COUNT,
  heap_limit,              \* end of the kernel, its tables and the largest heap
  MaxAddr,                 \* end of the address space
  MemoryMaps,              \* memory maps: sets of available regions
  Devices                  \* device memory: address and size

VARIABLES
  map,                     \* the memory map of this machine
  bitmap,                  \* frames marked used
  total_frames, used_frames,
  static_pt_used,
  page_dir,                \* table of each directory entry
  pages,                   \* what a table's entries map to
  held,                    \* frames that callers of pmm_alloc_frame have
  mapped                   \* devices mapped while tables could be had for all of them

pagingVars == <<map, bitmap, total_frames, used_frames, static_pt_used, page_dir, pages, held, mapped>>

Up(a) == ((a + PAGE_SIZE - 1) \div PAGE_SIZE) * PAGE_SIZE
Down(a) == (a \div PAGE_SIZE) * PAGE_SIZE
Frames == 0..(BITMAP_FRAMES - 1)
MaxOf(S) == CHOOSE x \in S : \A y \in S : y <= x
MinOf(S) == CHOOSE x \in S : \A y \in S : x <= y
Dirs == 0..((MaxAddr \div (PAGE_SIZE * ENTRIES)) - 1)
NoTable == <<"none", 0>>
Tables ==
  ({"boot"} \X (0..(IDENTITY_MAP_TABLES - 1))) \cup ({"pool"} \X (0..(STATIC_PT_POOL_COUNT - 1)))
  \cup ({"frame"} \X Frames)
Absent == -1
Blank == [i \in 0..(ENTRIES - 1) |-> Absent]

-----------------------------------------------------------------------------
(***************************************************************************)
(* Boot: pmm_init_mmap and paging_install.                                 *)
(***************************************************************************)
\* The whole frames of an available region.
RegionFrames(r) == {f \in Frames : f >= Up(r.addr) \div PAGE_SIZE /\ f < Down(r.addr + r.len) \div PAGE_SIZE}

\* Frames of pmm_reserve_region(base, size).
RegionTouched(base, size) ==
  {f \in Frames : f >= Down(base) \div PAGE_SIZE /\ f < Up(base + size) \div PAGE_SIZE}

PagingInit ==
  /\ map \in MemoryMaps
  /\ LET available == UNION {RegionFrames(r) : r \in map}
         total == IF available = {} THEN 0 ELSE MaxOf(available) + 1
         free == available \ RegionTouched(0, heap_limit)
     IN /\ total_frames = total
        /\ bitmap = Frames \ free
        /\ used_frames = total - Cardinality(free)
  /\ static_pt_used = 0
  /\ page_dir = [d \in Dirs |-> IF d < IDENTITY_MAP_TABLES THEN <<"boot", d>> ELSE NoTable]
  /\ pages = [t \in Tables |-> IF t[1] = "boot" THEN [i \in 0..(ENTRIES - 1) |-> t[2] * ENTRIES + i] ELSE Blank]
  /\ held = {} /\ mapped = {}

-----------------------------------------------------------------------------
(***************************************************************************)
(* Frames.                                                                 *)
(***************************************************************************)
\* The lowest free frame; none if that is beyond the end of memory.
Free == Frames \ bitmap
HasFrame == Free # {} /\ MinOf(Free) < total_frames

frame_set_used(f) ==
  /\ bitmap' = bitmap \cup f
  /\ used_frames' = used_frames + Cardinality(f \ bitmap)

\* The heap grows: pmm_reserve_region for pages that are reserved already.
heap_grow ==
  /\ \E base \in 0..(heap_limit - 1), size \in 1..PAGE_SIZE :
       base + size <= heap_limit /\ frame_set_used(RegionTouched(base, size))
  /\ UNCHANGED <<map, total_frames, static_pt_used, page_dir, pages, held, mapped>>

pmm_alloc_frame ==
  /\ HasFrame
  /\ frame_set_used({MinOf(Free)}) /\ held' = held \cup {MinOf(Free)}
  /\ UNCHANGED <<map, total_frames, static_pt_used, page_dir, pages, mapped>>

pmm_free_frame(f) ==
  /\ bitmap' = bitmap \ {f} /\ used_frames' = used_frames - 1 /\ held' = held \ {f}
  /\ UNCHANGED <<map, total_frames, static_pt_used, page_dir, pages, mapped>>

-----------------------------------------------------------------------------
(***************************************************************************)
(* Mapping.  The state while a region is mapped page by page is one record *)
(* that paging_map transforms.                                             *)
(***************************************************************************)
State == [bitmap |-> bitmap, used |-> used_frames, pool |-> static_pt_used, dir |-> page_dir, pages |-> pages]

\* alloc_page_table: the pool, or a frame in the identity-mapped window.  A frame
\* outside of the window goes back.
MutAnyFrame(s) ==
  LET free == Frames \ s.bitmap
  IN IF s.pool < STATIC_PT_POOL_COUNT THEN {<<"pool", s.pool>>}
     ELSE IF free # {} /\ MinOf(free) < total_frames THEN {<<"frame", MinOf(free)>>} ELSE {}
alloc_page_table(s) ==
  LET free == Frames \ s.bitmap
  IN IF s.pool < STATIC_PT_POOL_COUNT THEN {<<"pool", s.pool>>}
     ELSE IF free # {} /\ MinOf(free) < total_frames /\ MinOf(free) < IDENTITY_MAP_TABLES * ENTRIES
     THEN {<<"frame", MinOf(free)>>} ELSE {}

paging_map(s, page, phys) ==
  LET d == page \div ENTRIES
      i == page % ENTRIES
      new == alloc_page_table(s)
  IN IF s.dir[d] # NoTable THEN [s EXCEPT !.pages[s.dir[d]][i] = phys]
     ELSE IF new = {} THEN s
     ELSE LET t == CHOOSE x \in new : TRUE
          IN [s EXCEPT !.dir[d] = t,
                       !.pages[t] = [Blank EXCEPT ![i] = phys],
                       !.pool = IF t[1] = "pool" THEN @ + 1 ELSE @,
                       !.bitmap = IF t[1] = "frame" THEN @ \cup {t[2]} ELSE @,
                       !.used = IF t[1] = "frame" THEN @ + 1 ELSE @]

PagesOf(dev) == (dev.addr \div PAGE_SIZE)..((dev.addr + dev.size - 1) \div PAGE_SIZE)

\* Number of pages that a region touches.
RegionPages(phys, size) == Up(size + (phys % PAGE_SIZE)) \div PAGE_SIZE

paging_map_region(dev) ==
  LET base == dev.addr \div PAGE_SIZE
      n == RegionPages(dev.addr, dev.size)
      step[k \in 0..n] == IF k = 0 THEN State ELSE paging_map(step[k - 1], base + k - 1, base + k - 1)
      s == step[n]
  IN /\ bitmap' = s.bitmap /\ used_frames' = s.used /\ static_pt_used' = s.pool
     /\ page_dir' = s.dir /\ pages' = s.pages
     /\ mapped' = IF \A page \in PagesOf(dev) : s.dir[page \div ENTRIES] # NoTable THEN mapped \cup {dev} ELSE mapped
     /\ UNCHANGED <<map, total_frames, held>>

\* The table of an unmapped page stays.
paging_unmap(page) ==
  /\ page_dir[page \div ENTRIES] # NoTable
  /\ pages' = [pages EXCEPT ![page_dir[page \div ENTRIES]][page % ENTRIES] = Absent]
  /\ mapped' = {dev \in mapped : page \notin PagesOf(dev)}
  /\ UNCHANGED <<map, bitmap, total_frames, used_frames, static_pt_used, page_dir, held>>

paging_get_physical(a) ==
  LET page == a \div PAGE_SIZE
      t == page_dir[page \div ENTRIES]
  IN IF t = NoTable THEN Absent
     ELSE IF pages[t][page % ENTRIES] = Absent THEN Absent
     ELSE pages[t][page % ENTRIES] * PAGE_SIZE + (a % PAGE_SIZE)

PagingNext ==
  \/ heap_grow \/ pmm_alloc_frame \/ \E f \in held : pmm_free_frame(f)
  \/ \E dev \in Devices : paging_map_region(dev)
  \/ \E dev \in mapped : \E page \in PagesOf(dev) : paging_unmap(page)

PagingSpec == PagingInit /\ [][PagingNext]_pagingVars

-----------------------------------------------------------------------------
\* pmm_get_used_frames is the number of frames below the end of memory that the
\* bitmap marks used, so that "free" reports what can be allocated.
CountsFrames == used_frames = Cardinality({f \in bitmap : f < total_frames})

\* A page table lies in the pool or in an allocated frame of the identity-mapped
\* window, in memory the map calls available and outside of kernel and heap, and
\* serves one directory entry.
TablesSafe ==
  /\ \A d \in Dirs : page_dir[d][1] = "frame" =>
       LET f == page_dir[d][2]
       IN /\ f \in bitmap \ held /\ paging_get_physical(f * PAGE_SIZE) = f * PAGE_SIZE
          /\ f * PAGE_SIZE >= heap_limit
          /\ \E r \in map : r.addr <= f * PAGE_SIZE /\ (f + 1) * PAGE_SIZE <= r.addr + r.len
  /\ \A d, e \in Dirs : page_dir[d] = page_dir[e] /\ d # e => page_dir[d] = NoTable

\* Every byte of a mapped device is translated to itself, wherever in a page its
\* memory begins and ends, and stays so when other devices are mapped.
DevicesMapped ==
  \A dev \in mapped : \A a \in dev.addr..(dev.addr + dev.size - 1) : paging_get_physical(a) = a

\* Frames are counted, page tables never lie in memory that is used otherwise or that
\* the processor cannot reach, and mapped devices stay mapped.
MappingsSafe == CountsFrames /\ TablesSafe /\ DevicesMapped
=============================================================================
