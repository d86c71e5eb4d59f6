------------------------------ MODULE FatEntry ------------------------------
(***************************************************************************)
(* get_fat_entry and set_fat_entry of kernel/fat.c byte by byte: entries   *)
(* of 12 bits, two to three bytes, the word of one of which may lie across *)
(* two sectors, and entries of 16 bits; num_fats copies of the table.      *)
(***************************************************************************)
EXTENDS Integers, FiniteSets

CONSTANTS
  SECTOR,       \* bytes of a sector (512)
  TableClusters,     \* clusters of the volume
  num_fats,     \* copies of the table
  EntryValues,       \* values entries are given
  MaxTorn            \* bound: entries torn by power failures at a time

ASSUME EntryAssumption == SECTOR > 1 /\ TableClusters \subseteq Nat \ {0, 1} /\ num_fats \in Nat \ {0}

VARIABLES
  fat_type,     \* 12 or 16
  disk,         \* [copy][byte]
  entry_pc, cluster, value, f, buf,
  entries, torn \* what was last written to each entry, and those a power failure cut off

entryVars == <<fat_type, disk, entry_pc, cluster, value, f, buf, entries, torn>>

Copies == 0..(num_fats - 1)
fat_offset(t, c) == IF t = 12 THEN c + (c \div 2) ELSE c * 2
TableBytes == 0..(fat_offset(16, CHOOSE c \in TableClusters : \A d \in TableClusters : d <= c) + 1)
rd_le16(b, i) == b[i] + 256 * b[i + 1]

get_fat_entry(c) ==
  LET raw == rd_le16(disk[0], fat_offset(fat_type, c))
  IN IF fat_type = 16 THEN raw ELSE IF c % 2 = 1 THEN raw \div 16 ELSE raw % 4096

\* The word at the entry's offset with the entry's bits replaced.
MutLosesNeighbour(raw, c, v) ==
  IF fat_type = 16 THEN v % 65536
  ELSE IF c % 2 = 1 THEN (v % 4096) * 16 ELSE v % 4096
Merged(raw, c, v) ==
  IF fat_type = 16 THEN v % 65536
  ELSE IF c % 2 = 1 THEN (raw % 16) + (v % 4096) * 16
  ELSE (raw \div 4096) * 4096 + (v % 4096)

Fits(v) == v < IF fat_type = 12 THEN 4096 ELSE 65536

EntryInit ==
  /\ fat_type \in {12, 16}
  /\ disk = [k \in Copies |-> [i \in TableBytes |-> 0]]
  /\ entry_pc = "idle" /\ cluster = 0 /\ value = 0 /\ f = 0 /\ buf = <<>>
  /\ entries = [c \in TableClusters |-> 0] /\ torn = {}

\* The sector (both, if the word lies across them) is read and changed in memory.
set_fat_entry(c, v) ==
  /\ entry_pc = "idle" /\ Fits(v)
  /\ cluster' = c /\ value' = v /\ f' = 0
  /\ LET o == fat_offset(fat_type, c)
         w == Merged(rd_le16(disk[0], o), c, v)
     IN buf' = [i \in TableBytes |-> IF i = o THEN w % 256 ELSE IF i = o + 1 THEN w \div 256 ELSE disk[0][i]]
  /\ entry_pc' = "write"
  /\ UNCHANGED <<fat_type, disk, entries, torn>>

Offset == fat_offset(fat_type, cluster)
Across == Offset % SECTOR = SECTOR - 1
WithSector(b, s) == [i \in TableBytes |-> IF i \div SECTOR = s THEN buf[i] ELSE b[i]]

NextCopy ==
  IF f + 1 < num_fats
  THEN entry_pc' = "write" /\ f' = f + 1 /\ UNCHANGED <<cluster, value, buf, entries, torn>>
  ELSE /\ entry_pc' = "idle" /\ f' = 0 /\ cluster' = 0 /\ value' = 0 /\ buf' = <<>>
       /\ entries' = [entries EXCEPT ![cluster] = value] /\ torn' = torn \ {cluster}

write_sector ==
  /\ entry_pc = "write"
  /\ disk' = [disk EXCEPT ![f] = WithSector(@, Offset \div SECTOR)]
  /\ IF Across THEN entry_pc' = "write_next" /\ UNCHANGED <<cluster, value, f, buf, entries, torn>>
     ELSE NextCopy
  /\ UNCHANGED fat_type

write_next_sector ==
  /\ entry_pc = "write_next"
  /\ disk' = [disk EXCEPT ![f] = WithSector(@, Offset \div SECTOR + 1)]
  /\ NextCopy
  /\ UNCHANGED fat_type

\* A power failure between two sector writes.
crash ==
  /\ entry_pc # "idle" /\ Cardinality(torn \cup {cluster}) <= MaxTorn
  /\ entry_pc' = "idle" /\ f' = 0 /\ cluster' = 0 /\ value' = 0 /\ buf' = <<>>
  /\ torn' = torn \cup {cluster} /\ entries' = [entries EXCEPT ![cluster] = 0]
  /\ UNCHANGED <<fat_type, disk>>

EntryNext ==
  \/ \E c \in TableClusters, v \in EntryValues : set_fat_entry(c, v)
  \/ write_sector \/ write_next_sector \/ crash

EntrySpec == EntryInit /\ [][EntryNext]_entryVars

\* The table has its type.
EntryTypeOK ==
  /\ fat_type \in {12, 16}
  /\ disk \in [Copies -> [TableBytes -> 0..255]]
  /\ entry_pc \in {"idle", "write", "write_next"}
  /\ cluster \in TableClusters \cup {0} /\ f \in Copies

\* Every entry reads as it was last set, whatever is written to its neighbours
\* and wherever a power failure interrupts that, unless its own write was cut.
EntriesKept == \A c \in TableClusters \ (torn \cup {cluster}) : get_fat_entry(c) = entries[c]

\* The copies of the table agree between operations, but for entries whose write
\* was cut: every change also rewrites the sectors around it from the first copy.
CopiesAgree ==
  entry_pc = "idle" /\ torn = {} => \A k \in Copies : disk[k] = disk[0]

\* Both copies of the table hold every entry as it was last set.
TableKept == EntryTypeOK /\ EntriesKept /\ CopiesAgree
=============================================================================
