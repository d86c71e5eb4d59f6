------------------------------- MODULE MCFat --------------------------------
(***************************************************************************)
(* Fat with the contents every file should have, for TLC.                  *)
(***************************************************************************)
EXTENDS Fat, FiniteSetsExt

VARIABLE expect   \* for every 8.3 name, what it was last written successfully

\* Two spellings of one 8.3 name, and another name.
Spellings == [n \in {"a", "/a", "b"} |-> IF n = "b" THEN "B" ELSE "A"]
OneSpelling == [n \in {"a", "b"} |-> IF n = "b" THEN "B" ELSE "A"]
OneName == [n \in {"a"} |-> "A"]

NoSeeds == <<>>
Seeds == << <<"b", <<"x">> >> >>

ABSENT == <<"absent">>

MCInit == Init /\ expect = [f \in FatNames |-> ABSENT]

\* An operation takes effect when it writes its directory sector.
MCNext ==
  \/ (Begin \/ Continue \/ Fail) /\ UNCHANGED expect
  \/ write_dirent /\ expect' = [expect EXCEPT ![name] = buf]
  \/ format_done /\ expect' = [f \in FatNames |-> ABSENT]
  \/ mark_deleted /\ expect' = [expect EXCEPT ![name] = ABSENT]
  \/ \E m, n \in Names :
       /\ fat_rename_file(m, n)
       /\ expect' = [expect EXCEPT ![FatName[m]] = ABSENT, ![FatName[n]] = expect[FatName[m]]]

\* What a free cluster holds is zeroed before it is used again.  Once a file is
\* torn, contents are of no consequence any more: they steer no operation.
Contents(x) == IF fat[x] # 0 \/ Referrers(x) # {} THEN data[x] ELSE "zero"
View ==
  <<fat, dir, pc, op, name, slot, c, guard, first, cur, written, seeds, leaked, torn,
    IF torn THEN Len(buf) ELSE <<buf, [x \in Cluster |-> Contents(x)], expect>> >>

MCSpec == MCInit /\ [][MCNext]_<<vars, expect>>
MCFairSpec == MCSpec /\ Fairness

Holds(f) ==
  IF expect[f] = ABSENT THEN Lookup(f) = 0 ELSE Lookup(f) # 0 /\ ReadFile(Lookup(f)) = expect[f]

\* The listing of fat_list_files: the files there are, each once, and the clusters in use.
Exists == {f \in FatNames : expect[f] # ABSENT}
ListingTrue ==
  LET info == fat_get_fs_info
      held == MapThenSumSet(LAMBDA f : Len(expect[f]), Exists)
  IN /\ {dir[i].name : i \in fat_list_files} = Exists /\ info.file_count = Cardinality(Exists)
     /\ info.used_clusters >= held /\ info.free_clusters = total_clusters - info.used_clusters
     /\ ~leaked => info.used_clusters = held

\* Between operations exactly the files last written and not deleted exist, each reads
\* back as it was written, and the listing shows them, each once, with the clusters that
\* they fill, until a failure tears a file: a power failure, an error or a full disk while
\* a new file is created harms no file and no more than leaks its clusters.
ReadsBack == pc = "idle" /\ ~torn => (\A f \in FatNames : Holds(f)) /\ ListingTrue

\* Every file that was created is there, unchanged since it was last written
\* ("Every file you create with `write` or `edit` will survive reboots!").
FilesSurvive == pc = "idle" => \A f \in FatNames : Holds(f)
=============================================================================
