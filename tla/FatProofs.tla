----------------------------- MODULE FatProofs ------------------------------
(***************************************************************************)
(* The allocation table never contains a cycle, for any volume, directory, *)
(* names and contents, and whatever sequence of operations, full disks,    *)
(* failing reads and data writes and power failures it has been through.   *)
(*                                                                         *)
(* Only linking a new cluster to the end of a chain could close a cycle;   *)
(* the inductive invariant keeps what makes it harmless: the new cluster   *)
(* is a chain end, and it is not the cluster it is linked to.              *)
(***************************************************************************)
EXTENDS Fat, TLAPS

Writing == {"alloc", "link", "data", "dirent"}

NoCycle == \A S \in SUBSET Cluster : S # {} => \E x \in S : fat[x] \notin S

LinkInv ==
  /\ fat \in [Cluster -> {0, EOC} \cup Cluster]
  /\ pc \notin Writing => first = 0
  /\ pc = "alloc" /\ first # 0 => cur \in Cluster /\ fat[cur] = EOC
  /\ pc = "link" => cur \in Cluster /\ c \in Cluster /\ c # cur /\ fat[c] = EOC
  /\ pc = "data" => cur \in Cluster /\ fat[cur] = EOC

IInv == LinkInv /\ NoCycle

\* The markers of get_fat_entry's results are no clusters.
LEMMA Markers == 0 \notin Cluster /\ EOC \notin Cluster /\ EOC # 0
  BY FatAssumption DEF Cluster, EOC

\* Writing a marker into the table closes no cycle.
LEMMA MarkerKeeps ==
  ASSUME LinkInv, NoCycle, NEW x \in Cluster, NEW v \in {0, EOC}, fat' = [fat EXCEPT ![x] = v]
  PROVE  NoCycle'
<1>1. SUFFICES ASSUME NEW S \in SUBSET Cluster, S # {} PROVE \E y \in S : fat'[y] \notin S
  BY DEF NoCycle, Cluster
<1>2. PICK y \in S : fat[y] \notin S
  BY <1>1 DEF NoCycle
<1>3. y \in Cluster /\ fat \in [Cluster -> {0, EOC} \cup Cluster]
  BY <1>2 DEF LinkInv
<1>4. v \notin S
  BY Markers
<1>5. fat'[y] \notin S
  BY <1>2, <1>3, <1>4
<1>. QED  BY <1>5

\* Nor does appending a chain end to another cluster.
LEMMA LinkKeeps ==
  ASSUME LinkInv, NoCycle, NEW x \in Cluster, NEW v \in Cluster, v # x, fat[v] = EOC,
         fat' = [fat EXCEPT ![x] = v]
  PROVE  NoCycle'
<1>1. SUFFICES ASSUME NEW S \in SUBSET Cluster, S # {} PROVE \E y \in S : fat'[y] \notin S
  BY DEF NoCycle, Cluster
<1>0. fat \in [Cluster -> {0, EOC} \cup Cluster]
  BY DEF LinkInv
<1>2. CASE v \in S
  <2>1. fat'[v] = EOC
    BY <1>0
  <2>2. EOC \notin S
    BY Markers
  <2>. QED  BY <1>2, <2>1, <2>2
<1>3. CASE v \notin S
  <2>1. PICK y \in S : fat[y] \notin S
    BY <1>1 DEF NoCycle
  <2>2. y \in Cluster
    BY <2>1
  <2>3. fat'[y] \notin S
    BY <1>0, <1>3, <2>1, <2>2
  <2>. QED  BY <2>3
<1>. QED  BY <1>2, <1>3

LEMMA SameFat ==
  ASSUME NoCycle, fat' = fat
  PROVE  NoCycle'
  BY DEF NoCycle, Cluster

-----------------------------------------------------------------------------
LEMMA StartWriteIInv ==
  ASSUME IInv, NEW fn, NEW b, StartWrite(fn, b)
  PROVE  IInv'
<1>1. /\ fat' = fat /\ first' = 0
      /\ pc' \in {"free", "dirent", "alloc"}
  BY DEF StartWrite, AfterFree, disk
<1>2. LinkInv'
  BY <1>1 DEF IInv, LinkInv, Writing, Cluster, EOC
<1>3. NoCycle'
  BY <1>1, SameFat DEF IInv
<1>. QED  BY <1>2, <1>3 DEF IInv

LEMMA BeginIInv ==
  ASSUME IInv, Begin
  PROVE  IInv'
<1>1. CASE \E n \in Names, b \in Buffers : fat_write_file(n, b) \/ fat_append_file(n, b)
  BY <1>1, StartWriteIInv DEF fat_write_file, fat_append_file
<1>2. CASE \E m, n \in Names : fat_copy_file(m, n)
  BY <1>2, StartWriteIInv DEF fat_copy_file
<1>3. CASE \E n \in Names : fat_delete_file(n)
  <2>1. fat' = fat /\ first' = first /\ pc = "idle" /\ pc' \in {"free", "mark"}
    BY <1>3 DEF fat_delete_file, disk
  <2>2. LinkInv'
    BY <2>1 DEF IInv, LinkInv, Writing, Cluster, EOC
  <2>. QED  BY <2>1, <2>2, SameFat DEF IInv
<1>4. CASE seed_default_files
  BY <1>4, StartWriteIInv DEF seed_default_files
<1>5. CASE fat_format
  <2>1. fat' = fat /\ first' = first /\ pc \in {"idle", "unmounted"} /\ pc' = "clear_fat"
    BY <1>5 DEF fat_format, disk
  <2>2. LinkInv'
    BY <2>1 DEF IInv, LinkInv, Writing, Cluster, EOC
  <2>. QED  BY <2>1, <2>2, SameFat DEF IInv
<1>. QED  BY <1>1, <1>2, <1>3, <1>4, <1>5 DEF Begin

\* The steps that write into the table.
LEMMA ContinueIInv ==
  ASSUME IInv, Continue, "table" \notin Faults
  PROVE  IInv'
<1>0. LinkInv /\ NoCycle
  BY DEF IInv
<1>1. CASE free_cluster_chain
  <2>1. /\ c \in Cluster /\ fat' = [fat EXCEPT ![c] = 0]
        /\ pc = "free" /\ pc' = pc /\ first' = first
    BY <1>1 DEF free_cluster_chain, ChainLeft, set_fat_entry
  <2>2. LinkInv'
    BY <1>0, <2>1 DEF LinkInv, Writing, Cluster, EOC
  <2>. QED  BY Zenon, <1>0, <2>1, <2>2, MarkerKeeps DEF IInv
<1>2. CASE chain_freed
  <2>1. fat' = fat /\ first' = first /\ pc = "free" /\ pc' \in {"mark", "dirent", "alloc"}
    BY <1>2 DEF chain_freed, AfterChain, AfterFree, disk, locals
  <2>2. LinkInv'
    BY <1>0, <2>1 DEF LinkInv, Writing, Cluster, EOC
  <2>. QED  BY <1>0, <2>1, <2>2, SameFat DEF IInv
<1>3. CASE allocate_cluster
  <2>1. PICK x \in Cluster :
          /\ fat[x] = 0 /\ fat' = [fat EXCEPT ![x] = EOC]
          /\ IF first = 0 THEN first' = x /\ cur' = x /\ c' = c /\ pc' = "data"
             ELSE c' = x /\ pc' = "link" /\ UNCHANGED <<first, cur>>
    BY <1>3 DEF allocate_cluster, FirstFree, SeenFree, set_fat_entry
  <2>2. pc = "alloc"
    BY <1>3 DEF allocate_cluster
  <2>3. fat'[x] = EOC /\ fat' \in [Cluster -> {0, EOC} \cup Cluster]
    BY <1>0, <2>1 DEF LinkInv
  <2>4. ASSUME first = 0 PROVE LinkInv'
    <3>1. cur' = x /\ pc' = "data"
      BY <2>1, <2>4
    <3>. QED  BY <2>3, <3>1 DEF LinkInv, Writing, Cluster, EOC
  <2>5. ASSUME first # 0 PROVE LinkInv'
    <3>1. c' = x /\ cur' = cur /\ pc' = "link"
      BY <2>1, <2>5
    <3>2. cur \in Cluster /\ fat[cur] = EOC
      BY <1>0, <2>2, <2>5 DEF LinkInv
    <3>3. cur # x
      BY <2>1, <3>2, Markers
    <3>. QED  BY <2>3, <3>1, <3>2, <3>3 DEF LinkInv, Writing, Cluster, EOC
  <2>. QED  BY Zenon, <1>0, <2>1, <2>4, <2>5, MarkerKeeps DEF IInv
<1>4. CASE link
  <2>1. /\ cur \in Cluster /\ c \in Cluster /\ c # cur /\ fat[c] = EOC
        /\ fat' = [fat EXCEPT ![cur] = c] /\ cur' = c /\ pc' = "data"
    BY <1>0, <1>4 DEF link, set_fat_entry, LinkInv
  <2>2. fat'[c] = EOC /\ fat' \in [Cluster -> {0, EOC} \cup Cluster]
    BY <1>0, <2>1 DEF LinkInv
  <2>3. LinkInv'
    BY <2>1, <2>2 DEF LinkInv, Writing, Cluster, EOC
  <2>. QED  BY Zenon, <1>0, <2>1, <2>3, LinkKeeps DEF IInv
<1>5. CASE write_data
  <2>1. pc = "data" /\ cur \in Cluster /\ fat[cur] = EOC /\ cur' = cur /\ first' = first
    BY <1>0, <1>5 DEF write_data, LinkInv
  <2>2. CASE fat' = fat /\ pc' = "alloc"
    <3>1. LinkInv'
      BY <1>0, <2>1, <2>2 DEF LinkInv, Writing, Cluster, EOC
    <3>. QED  BY <1>0, <2>2, <3>1, SameFat DEF IInv
  <2>3. CASE fat' = [fat EXCEPT ![cur] = EOC] /\ pc' = "dirent"
    <3>1. LinkInv'
      BY <1>0, <2>1, <2>3 DEF LinkInv, Writing, Cluster, EOC
    <3>. QED  BY Zenon, <1>0, <2>1, <2>3, <3>1, MarkerKeeps DEF IInv
  <2>. QED  BY <1>5, <2>2, <2>3 DEF write_data, set_fat_entry
<1>6. CASE clear_fat
  <2>1. /\ c \in Cluster /\ fat' = [fat EXCEPT ![c] = 0]
        /\ pc = "clear_fat" /\ pc' = pc /\ first' = first
    BY <1>6 DEF clear_fat
  <2>2. LinkInv'
    BY <1>0, <2>1 DEF LinkInv, Writing, Cluster, EOC
  <2>. QED  BY Zenon, <1>0, <2>1, <2>2, MarkerKeeps DEF IInv
<1>7. CASE clear_root \/ clear_entry
  <2>1. fat' = fat /\ first' = first /\ pc \in {"clear_fat", "clear_root"} /\ pc' = "clear_root"
    BY <1>7 DEF clear_root, clear_entry, disk
  <2>2. LinkInv'
    BY <1>0, <2>1 DEF LinkInv, Writing, Cluster, EOC
  <2>. QED  BY <1>0, <2>1, <2>2, SameFat DEF IInv
<1>. QED  BY <1>1, <1>2, <1>3, <1>4, <1>5, <1>6, <1>7 DEF Continue

\* Operations end, well or badly, without touching the table.
LEMMA EndIInv ==
  ASSUME IInv, Finish \/ Fail
  PROVE  IInv'
<1>1. fat' = fat /\ first' = 0
  BY DEF Finish, Fail, write_dirent, mark_deleted, format_done, disk_full, directory_full, io_error,
         format_error, crash, Abandon, NoOperation, disk
<1>2. pc' \in {"idle", "seed", "unmounted"}
  BY DEF Finish, Fail, write_dirent, mark_deleted, format_done, disk_full, directory_full, io_error,
         format_error, crash, Return, AfterFormat
<1>3. LinkInv'
  BY <1>1, <1>2 DEF IInv, LinkInv, Writing, Cluster, EOC
<1>. QED  BY <1>1, <1>3, SameFat DEF IInv

-----------------------------------------------------------------------------
LEMMA InitIInv ==
  ASSUME Init
  PROVE  IInv
<1>1. LinkInv
  BY DEF Init, LinkInv, AfterFormat, Writing
<1>2. ASSUME NEW S \in SUBSET Cluster, S # {} PROVE \E y \in S : fat[y] \notin S
  <2>1. PICK y \in S : TRUE
    BY <1>2
  <2>2. fat[y] = 0
    BY <2>1 DEF Init
  <2>3. 0 \notin S
    BY Markers
  <2>. QED  BY <2>1, <2>2, <2>3
<1>. QED  BY <1>1, <1>2 DEF IInv, NoCycle

LEMMA NextIInv ==
  ASSUME IInv, [Next]_vars, "table" \notin Faults
  PROVE  IInv'
<1>1. CASE \E m, n \in Names : fat_rename_file(m, n)
  <2>1. fat' = fat /\ first' = first /\ pc = "idle" /\ pc' = pc
    BY <1>1 DEF fat_rename_file, locals
  <2>2. LinkInv'
    BY <2>1 DEF IInv, LinkInv, Writing, Cluster, EOC
  <2>. QED  BY <2>1, <2>2, SameFat DEF IInv
<1>2. CASE UNCHANGED vars
  <2>1. UNCHANGED <<fat, first, pc, cur, c>>
    BY <1>2 DEF vars, disk, locals
  <2>2. LinkInv'
    BY <2>1 DEF IInv, LinkInv, Writing, Cluster, EOC
  <2>. QED  BY <2>1, <2>2, SameFat DEF IInv
<1>. QED  BY <1>1, <1>2, BeginIInv, ContinueIInv, EndIInv DEF Next

\* The table has no cycle in any reachable state, so that fat_read_file and
\* free_cluster_chain come to the end of every chain without their guards,
\* whatever operations failed half way or were cut off by a power failure.
THEOREM TableAcyclic == Spec => []Acyclic
<1>1. CASE "table" \in Faults
  <2>1. Acyclic
    BY <1>1 DEF Acyclic
  <2>. QED  BY <2>1, PTL
<1>2. CASE "table" \notin Faults
  <2>1. Init => IInv
    BY InitIInv
  <2>2. IInv /\ [Next]_vars => IInv'
    BY <1>2, NextIInv
  <2>3. IInv => Acyclic
    BY DEF IInv, NoCycle, Acyclic
  <2>. QED  BY <2>1, <2>2, <2>3, PTL DEF Spec
<1>. QED  BY <1>1, <1>2
=============================================================================
