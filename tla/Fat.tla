--------------------------------- MODULE Fat --------------------------------
(***************************************************************************)
(* The FAT12/16 file system of kernel/fat.c: the allocation table, the     *)
(* root directory and the clusters' data on the disk, and the operations   *)
(* that change them sector by sector.                                      *)
(*                                                                         *)
(* Only the shell task uses the file system, so operations do not overlap; *)
(* what may come between two sector writes is a power failure.  Data and   *)
(* sizes are counted in clusters, one sector each as on the live RAMDisk.  *)
(* The copies of the table after the first are written and never read, and *)
(* are left out.                                                           *)
(***************************************************************************)
EXTENDS Integers, Sequences, FiniteSets

CONSTANTS
  total_clusters,     \* data clusters of the volume
  DirSlots,           \* entries of the root directory
  Names,              \* file names callers use
  FatName,            \* filename_to_fat: the 8.3 name each of them becomes
  SeedFiles,          \* seed_default_files: the files of a new volume, as <<name, contents>>
  Chunks,             \* cluster contents callers write
  FAT_MAX_FILE_SIZE,  \* limit of fat_append_file and fat_copy_file, in clusters
  MaxWrite,           \* bound: clusters of a single write
  Faults              \* which of "crash", "io", "table", "read" may happen: a power failure, a
                      \* data or directory write that fails, a table write or a read that does

FatNames == {FatName[n] : n \in Names}
Cluster == 2..(total_clusters + 1)
EOC == total_clusters + 10    \* eoc_marker()
END == "end"                  \* first name byte 0x00: no entry here or behind
DELETED == "deleted"          \* first name byte 0xE5

ASSUME FatAssumption ==
  /\ total_clusters \in Nat /\ DirSlots \in Nat /\ MaxWrite \in Nat /\ FAT_MAX_FILE_SIZE \in Nat
  /\ DOMAIN FatName = Names /\ END \notin FatNames /\ DELETED \notin FatNames

VARIABLES
  fat,        \* the table
  dir,        \* the root directory
  data,       \* contents of the clusters
  pc, op,     \* where the operation stands, and which it is
  name, slot, \* its file: 8.3 name and directory entry (0: none yet)
  c, guard,   \* cursor and guard of free_cluster_chain
  buf,        \* what is to be written
  first, cur, written,
  seeds,      \* what seed_default_files has still to write
  \* what operations that were cut short have left behind:
  leaked,     \* clusters no file owns
  torn        \* an entry whose clusters are freed, or a table write that is lost

disk == <<fat, dir, data>>
locals == <<op, name, slot, c, guard, buf, first, cur, written>>
damage == <<leaked, torn>>
vars == <<disk, pc, locals, seeds, damage>>

Slot == 1..DirSlots
NoEntry == [name |-> END, first |-> 0, size |-> 0]

\* Back to the shell, or to seed_default_files.
Return == pc' = IF seeds = <<>> THEN "idle" ELSE "seed"
NoOperation ==
  /\ op' = "none" /\ name' = END /\ slot' = 0 /\ c' = 0 /\ guard' = 0
  /\ buf' = <<>> /\ first' = 0 /\ cur' = 0 /\ written' = 0

AfterFormat == IF SeedFiles = <<>> THEN "idle" ELSE "seed"

\* fat_init has formatted the Live RAMDisk and is about to fill it.
Init ==
  /\ fat = [x \in Cluster |-> 0] /\ dir = [i \in Slot |-> NoEntry] /\ data = [x \in Cluster |-> "zero"]
  /\ seeds = SeedFiles /\ pc = AfterFormat /\ op = "none" /\ name = END /\ slot = 0 /\ c = 0 /\ guard = 0
  /\ buf = <<>> /\ first = 0 /\ cur = 0 /\ written = 0
  /\ leaked = FALSE /\ torn = FALSE

-----------------------------------------------------------------------------
\* find_dirent_val: the search stops at the first entry never used; 0 if none.
BeforeEnd(i) == \A j \in 1..i : dir[j].name # END
Lookup(fn) ==
  IF \E i \in Slot : BeforeEnd(i) /\ dir[i].name = fn
  THEN CHOOSE i \in Slot : /\ BeforeEnd(i) /\ dir[i].name = fn
                           /\ \A j \in 1..(i - 1) : dir[j].name # fn
  ELSE 0
\* A directory sector that cannot be read ends the search too.
Found(fn) == {Lookup(fn)} \cup (IF "read" \in Faults THEN {0} ELSE {})

\* fat_read_file: follow the chain for as many clusters as the size says.
GARBAGE == "garbage"
ChainOf(i) ==
  LET f[k \in 1..dir[i].size] ==
        IF k = 1 THEN dir[i].first
        ELSE IF f[k - 1] \in Cluster THEN fat[f[k - 1]] ELSE EOC
  IN [k \in 1..dir[i].size |-> f[k]]
ReadFile(i) ==
  [k \in 1..dir[i].size |-> IF k <= total_clusters + 2 /\ ChainOf(i)[k] \in Cluster THEN data[ChainOf(i)[k]] ELSE GARBAGE]

\* fat_enumerate_files and fat_list_files: the entries in use before the first never used.
fat_list_files == {i \in Slot : BeforeEnd(i) /\ dir[i].name # DELETED}
fat_get_fs_info ==
  LET used == Cardinality({x \in Cluster : fat[x] # 0})
  IN [used_clusters |-> used, free_clusters |-> IF total_clusters >= used THEN total_clusters - used ELSE 0,
      file_count |-> Cardinality(fat_list_files)]

-----------------------------------------------------------------------------
(***************************************************************************)
(* fat_write_file, and the operations that end in it.                      *)
(***************************************************************************)
AfterFree(b) == IF b = <<>> THEN "dirent" ELSE "alloc"

MutKeepsOldChain(fn, b) ==
  /\ op' = "write" /\ name' = fn /\ slot' \in Found(fn) /\ buf' = b
  /\ c' = 0 /\ guard' = total_clusters + 2
  /\ first' = 0 /\ cur' = 0 /\ written' = 0
  /\ pc' = AfterFree(b)
  /\ UNCHANGED <<disk, damage>>
StartWrite(fn, b) ==
  \E i \in Found(fn) :
    LET old == IF i = 0 THEN 0 ELSE dir[i].first
    IN /\ op' = "write" /\ name' = fn /\ slot' = i /\ buf' = b
       /\ c' = old /\ guard' = total_clusters + 2
       /\ first' = 0 /\ cur' = 0 /\ written' = 0
       /\ pc' = IF old >= 2 THEN "free" ELSE AfterFree(b)
       /\ UNCHANGED <<disk, damage>>

fat_write_file(n, b) == pc = "idle" /\ StartWrite(FatName[n], b) /\ UNCHANGED seeds

\* The results of these writes are ignored.
seed_default_files ==
  /\ pc = "seed"
  /\ StartWrite(FatName[Head(seeds)[1]], Head(seeds)[2])
  /\ seeds' = Tail(seeds)

\* The whole file is read into a kmalloc buffer, extended and written back.
fat_append_file(n, b) ==
  /\ pc = "idle"
  /\ \E i \in Found(FatName[n]) :
       IF i = 0 THEN StartWrite(FatName[n], b)
       ELSE /\ dir[i].size + Len(b) <= FAT_MAX_FILE_SIZE
            /\ StartWrite(FatName[n], ReadFile(i) \o b)
  /\ UNCHANGED seeds

\* Names are compared as they are spelled (strcasecmp), not as they are stored.
fat_copy_file(src, dst) ==
  /\ pc = "idle" /\ src # dst
  /\ LET i == Lookup(FatName[src])
     IN /\ i # 0 /\ dir[i].size <= FAT_MAX_FILE_SIZE
        /\ StartWrite(FatName[dst], ReadFile(i))
  /\ UNCHANGED seeds

fat_rename_file(old_name, new_name) ==
  /\ pc = "idle" /\ old_name # new_name
  /\ 0 \in Found(FatName[new_name]) /\ Lookup(FatName[old_name]) # 0
  /\ dir' = [dir EXCEPT ![Lookup(FatName[old_name])].name = FatName[new_name]]
  /\ UNCHANGED <<fat, data, pc, locals, seeds, damage>>

fat_delete_file(n) ==
  /\ pc = "idle"
  /\ LET i == Lookup(FatName[n])
     IN /\ i # 0
        /\ op' = "delete" /\ name' = FatName[n] /\ slot' = i
        /\ c' = dir[i].first /\ guard' = total_clusters + 2
        /\ pc' = IF dir[i].first >= 2 THEN "free" ELSE "mark"
  /\ UNCHANGED <<disk, buf, first, cur, written, seeds, damage>>

-----------------------------------------------------------------------------
\* get_fat_entry takes a sector it cannot read for the end of a chain.
get_fat_entry(x) == {fat[x]} \cup (IF "read" \in Faults THEN {EOC} ELSE {})

\* set_fat_entry does not look at the result of its writes.
set_fat_entry(x, v) ==
  \/ fat' = [fat EXCEPT ![x] = v] /\ torn' = torn
  \/ "table" \in Faults /\ fat' = fat /\ torn' = TRUE

AfterChain == IF op = "delete" THEN "mark" ELSE AfterFree(buf)
ChainLeft == c \in Cluster /\ guard > 0

\* free_cluster_chain, one cluster at a time.
MutRestartsGuard ==
  /\ pc = "free" /\ ChainLeft
  /\ set_fat_entry(c, 0)
  /\ c' \in get_fat_entry(c) /\ guard' = IF guard > 1 THEN guard - 1 ELSE total_clusters + 2
  /\ UNCHANGED <<dir, data, pc, op, name, slot, buf, first, cur, written, seeds, leaked>>
free_cluster_chain ==
  /\ pc = "free" /\ ChainLeft
  /\ set_fat_entry(c, 0)
  /\ c' \in get_fat_entry(c) /\ guard' = guard - 1
  /\ UNCHANGED <<dir, data, pc, op, name, slot, buf, first, cur, written, seeds, leaked>>

chain_freed ==
  /\ pc = "free" /\ ~ChainLeft
  /\ pc' = AfterChain
  /\ UNCHANGED <<disk, locals, seeds, damage>>

Tears ==
  \/ slot \in Slot /\ dir[slot].first # 0 /\ ~(pc = "free" /\ c = dir[slot].first)
  \/ op = "format"

\* The operation ends early; what it has freed and allocated stays so.  The
\* file it was about is torn once a cluster of its old chain is freed.
Abandon ==
  /\ NoOperation
  /\ leaked' = (leaked \/ first # 0)
  /\ torn' = (torn \/ Tears)
  /\ UNCHANGED disk

\* allocate_cluster takes the first free cluster it sees, if there is one.
MutSkipsFreeTest(x) == x \in Cluster /\ fat[x] \in {0, EOC}
SeenFree(x) == fat[x] = 0
FirstFree(x) == SeenFree(x) /\ \A y \in Cluster : y < x => ~SeenFree(y) \/ "read" \in Faults

allocate_cluster ==
  /\ pc = "alloc"
  /\ \E x \in Cluster :
       /\ FirstFree(x)
       /\ set_fat_entry(x, EOC)
       /\ data' = [data EXCEPT ![x] = "zero"]
       /\ IF first = 0 THEN first' = x /\ cur' = x /\ c' = c /\ pc' = "data"
          ELSE c' = x /\ pc' = "link" /\ UNCHANGED <<first, cur>>
  /\ UNCHANGED <<dir, op, name, slot, guard, buf, written, seeds, leaked>>

disk_full ==
  /\ pc = "alloc" /\ \A x \in Cluster : ~SeenFree(x) \/ "read" \in Faults
  /\ Return /\ Abandon /\ UNCHANGED seeds

\* set_fat_entry(cur_c, next_c).
MutLinksToItself ==
  /\ pc = "link"
  /\ set_fat_entry(c, c)
  /\ cur' = c /\ pc' = "data"
  /\ UNCHANGED <<dir, data, op, name, slot, c, guard, buf, first, written, seeds, leaked>>
link ==
  /\ pc = "link"
  /\ set_fat_entry(cur, c)
  /\ cur' = c /\ pc' = "data"
  /\ UNCHANGED <<dir, data, op, name, slot, c, guard, buf, first, written, seeds, leaked>>

\* The data sector; after the last one the chain is terminated.
write_data ==
  /\ pc = "data"
  /\ data' = [data EXCEPT ![cur] = buf[written + 1]]
  /\ written' = written + 1
  /\ IF written + 1 < Len(buf) THEN pc' = "alloc" /\ UNCHANGED <<fat, torn>>
     ELSE pc' = "dirent" /\ set_fat_entry(cur, EOC)
  /\ UNCHANGED <<dir, op, name, slot, c, guard, buf, first, cur, seeds, leaked>>

\* The directory entry is written last: the existing one, or the first that is free.
FreeSlot(i) == dir[i].name \in {END, DELETED} /\ \A j \in 1..(i - 1) : dir[j].name \notin {END, DELETED}
Entry == [name |-> name, first |-> first, size |-> Len(buf)]

EntryOf(i) == IF slot # 0 THEN i = slot ELSE FreeSlot(i)

write_dirent ==
  /\ pc = "dirent"
  /\ \E i \in Slot : EntryOf(i) /\ dir' = [dir EXCEPT ![i] = Entry]
  /\ Return /\ NoOperation
  /\ UNCHANGED <<fat, data, seeds, damage>>

directory_full ==
  /\ pc = "dirent" /\ \A i \in Slot : ~EntryOf(i)
  /\ Return /\ Abandon /\ UNCHANGED seeds

mark_deleted ==
  /\ pc = "mark"
  /\ dir' = [dir EXCEPT ![slot].name = DELETED]
  /\ Return /\ NoOperation
  /\ UNCHANGED <<fat, data, seeds, damage>>

\* A data or directory sector cannot be written (or read for the update).
io_error ==
  /\ "io" \in Faults
  /\ pc \in {"data", "dirent", "mark"}
  /\ Return /\ Abandon /\ UNCHANGED seeds

\* The power fails; the next fat_init mounts what is on the disk.
crash ==
  /\ "crash" \in Faults
  /\ pc # "idle"
  /\ pc' = "idle" /\ Abandon /\ seeds' = <<>>

-----------------------------------------------------------------------------
(***************************************************************************)
(* fat_format of the volume in use: the boot sector as it was, the table,  *)
(* the directory, and the default files.  On an error no volume is mounted *)
(* until the next format or the next boot.                                 *)
(***************************************************************************)
fat_format ==
  /\ pc \in {"idle", "unmounted"}
  /\ pc' = "clear_fat" /\ op' = "format" /\ c' = 2
  /\ UNCHANGED <<disk, name, slot, guard, buf, first, cur, written, seeds, damage>>

clear_fat ==
  /\ pc = "clear_fat" /\ c \in Cluster
  /\ fat' = [fat EXCEPT ![c] = 0]
  /\ c' = c + 1
  /\ UNCHANGED <<dir, data, pc, op, name, slot, guard, buf, first, cur, written, seeds, damage>>

clear_root ==
  /\ pc = "clear_fat" /\ c \notin Cluster
  /\ pc' = "clear_root" /\ c' = 0 /\ slot' = 1
  /\ UNCHANGED <<disk, op, name, guard, buf, first, cur, written, seeds, damage>>

clear_entry ==
  /\ pc = "clear_root" /\ slot \in Slot
  /\ dir' = [dir EXCEPT ![slot] = NoEntry]
  /\ slot' = slot + 1
  /\ UNCHANGED <<fat, data, pc, op, name, c, guard, buf, first, cur, written, seeds, damage>>

format_done ==
  /\ pc = "clear_root" /\ slot \notin Slot
  /\ pc' = AfterFormat
  /\ seeds' = SeedFiles
  /\ NoOperation
  /\ leaked' = FALSE /\ torn' = FALSE
  /\ UNCHANGED disk

format_error ==
  /\ "io" \in Faults
  /\ pc \in {"clear_fat", "clear_root"}
  /\ pc' = "unmounted" /\ Abandon /\ UNCHANGED seeds

-----------------------------------------------------------------------------
Buffers == UNION {[1..k -> Chunks] : k \in 0..MaxWrite}

Begin ==
  \/ \E n \in Names, b \in Buffers : fat_write_file(n, b) \/ fat_append_file(n, b)
  \/ \E m, n \in Names : fat_copy_file(m, n)
  \/ \E n \in Names : fat_delete_file(n)
  \/ seed_default_files
  \/ fat_format

Continue ==
  \/ free_cluster_chain \/ chain_freed \/ allocate_cluster \/ link \/ write_data
  \/ clear_fat \/ clear_root \/ clear_entry
Finish == write_dirent \/ mark_deleted \/ format_done
Fail == disk_full \/ directory_full \/ io_error \/ format_error \/ crash

Next ==
  \/ Begin \/ Continue \/ Finish \/ Fail
  \/ \E m, n \in Names : fat_rename_file(m, n)

Spec == Init /\ [][Next]_vars

\* The shell task is scheduled: an operation that has begun goes on.
Fairness == WF_vars(seed_default_files \/ Continue \/ Finish \/ disk_full \/ directory_full)

-----------------------------------------------------------------------------
\* Type correctness.
TypeOK ==
  /\ fat \in [Cluster -> {0, EOC} \cup Cluster]
  /\ dir \in [Slot -> [name : FatNames \cup {END, DELETED}, first : {0} \cup Cluster, size : Nat]]
  /\ DOMAIN data = Cluster
  /\ pc \in {"idle", "free", "alloc", "link", "data", "dirent", "mark",
            "clear_fat", "clear_root", "unmounted", "seed"}
  /\ op \in {"none", "write", "delete", "format"}
  /\ name \in FatNames \cup {END} /\ slot \in 0..(DirSlots + 1)
  /\ c \in {0, EOC, total_clusters + 2} \cup Cluster /\ guard \in Nat
  /\ first \in {0} \cup Cluster /\ cur \in {0} \cup Cluster
  /\ written \in Nat
  /\ leaked \in BOOLEAN /\ torn \in BOOLEAN

Files == {i \in Slot : dir[i].name \notin {END, DELETED}}

\* Unless a table write is lost the table never contains a cycle, whatever fails
\* in between and wherever the power does: the loops of fat_read_file and
\* free_cluster_chain reach the end of every chain before their guards do.
Acyclic ==
  "table" \notin Faults => \A S \in SUBSET Cluster : S # {} => \E x \in S : fat[x] \notin S

\* No two directory entries have the same name, until a format is interrupted: the
\* entries it has not cleared yet come back once those before them are used again.
UniqueNames == ~torn => \A i, j \in Files : dir[i].name = dir[j].name => i = j

Referrers(x) == {<<"file", i>> : i \in {j \in Files : dir[j].first = x}}
                  \cup {<<"link", y>> : y \in {z \in Cluster : fat[z] = x}}

\* Between operations no cluster belongs to two files or twice to one, a free
\* cluster belongs to none, and none leaks: full disks, errors and power failures
\* included, until one of them tears a file (leaks a chain).
OneOwner ==
  pc = "idle" /\ ~torn =>
    \A x \in Cluster :
      /\ Cardinality(Referrers(x)) <= IF fat[x] = 0 THEN 0 ELSE 1
      /\ fat[x] # 0 /\ ~leaked => Referrers(x) # {}

\* Until then, too, every chain ends exactly where its file's size says.
ChainsMatchSizes ==
  pc = "idle" /\ ~torn =>
    \A i \in Files : LET ch == ChainOf(i) IN
      IF ch = <<>> THEN dir[i].first = 0
      ELSE (\A k \in DOMAIN ch : ch[k] \in Cluster) /\ fat[ch[Len(ch)]] = EOC

\* Between operations the volume is one a file system check would pass: well typed,
\* names unique, every cluster with one owner, chains as long as the sizes say.
VolumeSound == TypeOK /\ UniqueNames /\ OneOwner /\ ChainsMatchSizes

\* Every operation ends, on a table damaged by lost writes and failed reads too.
OperationsEnd == pc # "idle" ~> pc \in {"idle", "unmounted"}
=============================================================================
