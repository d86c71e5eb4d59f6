------------------------------ MODULE FatLayout -----------------------------
(***************************************************************************)
(* Where kernel/fat.c puts a volume on a disk: the geometry fat_format     *)
(* writes into the boot sector, and the one mount_at_lba reads out of it.  *)
(***************************************************************************)
EXTENDS Integers

CONSTANTS
  DiskSizes,        \* sectors of the hard disk (0: there is none)
  PartitionStarts,  \* where a partition of the disk may begin
  ImageSizes,       \* sectors of volumes that are copied there
  RAMDISK_SECTORS   \* 1024

VARIABLES
  hdd,              \* sectors of active_hdd
  boot,             \* its volume's boot sector, or NoVolume
  base,             \* where that is: 0, or the start of the partition the MBR names
  on_ramdisk,
  vol,              \* the mounted volume, or NoVolume
  booted            \* fat_init was the last to run

layoutVars == <<hdd, boot, base, on_ramdisk, vol, booted>>
NoVolume == [none |-> TRUE]

disk_get_total_sectors == IF on_ramdisk THEN RAMDISK_SECTORS ELSE hdd

CeilDiv(a, b) == (a + b - 1) \div b
RootSectors(root_entries) == CeilDiv(root_entries * 32, 512)
FatType(clusters) == IF clusters < 4085 THEN 12 ELSE 16

Capped(n) == IF n > 1048576 THEN 1048576 ELSE n
SectorsPerCluster(n) ==
  CASE n >= 524288 -> 16
    [] n >= 262144 /\ n < 524288 -> 8
    [] n >= 16384 /\ n < 262144 -> 4
    [] n >= 8192 /\ n < 16384 -> 2
    [] OTHER -> 1

\* Bytes of a table with that many entries.
MutByteEntries(type, entries) == IF type = 12 THEN entries ELSE entries * 2
FatBytes(type, entries) == IF type = 12 THEN (entries * 3 + 1) \div 2 ELSE entries * 2

Geometry(n) ==
  LET spc == SectorsPerCluster(n)
      root_ents == IF n <= 2048 THEN 112 ELSE 512
      approx_clusters == (n - 1 - RootSectors(root_ents)) \div spc
      estimate == FatType(approx_clusters)
      bytes == FatBytes(estimate, approx_clusters + 2)
      secs == CeilDiv(bytes, 512) % 65536
      fat_secs == IF secs = 0 THEN 1 ELSE secs
      final_clusters == (n - 1 - 2 * fat_secs - RootSectors(root_ents)) \div spc
  IN [sectors_per_cluster |-> spc, reserved_sectors |-> 1, num_fats |-> 2,
      root_entries |-> root_ents, fat_size_16 |-> fat_secs,
      total_sectors_16 |-> IF n < 65536 THEN n ELSE 0,
      total_sectors_32 |-> IF n < 65536 THEN 0 ELSE n,
      fs_type |-> IF estimate = 16 /\ final_clusters < 4085 THEN 12 ELSE estimate]

TotalSectors(b) == IF b.total_sectors_16 # 0 THEN b.total_sectors_16 ELSE b.total_sectors_32
Meta(b) == b.reserved_sectors + b.num_fats * b.fat_size_16 + RootSectors(b.root_entries)
IsValidBpb(b) ==
  /\ b.sectors_per_cluster \in {1, 2, 4, 8, 16, 32, 64, 128} /\ b.reserved_sectors # 0
  /\ b.num_fats \in 1..4 /\ b.root_entries # 0 /\ b.fat_size_16 # 0
  /\ TotalSectors(b) > Meta(b)

ClustersOf(b) == (TotalSectors(b) - Meta(b)) \div b.sectors_per_cluster

\* The volume mount_at_lba(base_lba) finds in a boot sector.
Volume(b, base_lba) ==
  [fat_start_sector |-> base_lba + b.reserved_sectors,
   root_start_sector |-> base_lba + b.reserved_sectors + b.num_fats * b.fat_size_16,
   data_start_sector |-> base_lba + Meta(b),
   sectors_per_cluster |-> b.sectors_per_cluster, fat_size_16 |-> b.fat_size_16, fs_type |-> b.fs_type,
   total_clusters |-> ClustersOf(b), fat_type |-> FatType(ClustersOf(b))]

Mounted(b, base_lba) ==
  IF IsValidBpb(b) /\ ClustersOf(b) # 0 /\ ClustersOf(b) < 65525 THEN Volume(b, base_lba) ELSE NoVolume

\* fat_format of the disk in use, if every sector can be written.
FormatRam == Mounted(Geometry(RAMDISK_SECTORS), 0)

LayoutInit ==
  /\ hdd \in DiskSizes /\ boot = NoVolume /\ base = 0
  /\ on_ramdisk = TRUE /\ vol = FormatRam /\ booted = TRUE

\* try_mount_disk: the boot sector at LBA 0 or at the start of a partition.
try_mount_disk == IF boot = NoVolume THEN NoVolume ELSE Mounted(boot, base)

\* The machine starts again: disk_init, fat_init.  The RAMDisk is new.
fat_init ==
  /\ vol' = IF hdd > 0 /\ try_mount_disk # NoVolume THEN try_mount_disk ELSE FormatRam
  /\ on_ramdisk' = ~(hdd > 0 /\ try_mount_disk # NoVolume)
  /\ booted' = TRUE
  /\ UNCHANGED <<hdd, boot, base>>

\* The mkfs command: the hard disk if there is one, from its first sector on.
mkfs ==
  /\ on_ramdisk' = (hdd = 0) /\ booted' = FALSE
  /\ LET n == IF hdd = 0 THEN RAMDISK_SECTORS ELSE hdd
     IN IF n < 64 THEN vol' = NoVolume /\ UNCHANGED <<boot, base>>
        ELSE /\ vol' = Mounted(Geometry(Capped(n)), 0)
             /\ IF hdd = 0 THEN UNCHANGED <<boot, base>>
                ELSE boot' = Geometry(Capped(n)) /\ base' = 0
  /\ UNCHANGED hdd

\* A sector cannot be written: before the boot sector is, or behind it.
mkfs_error ==
  /\ hdd > 0
  /\ on_ramdisk' = FALSE /\ vol' = NoVolume /\ booted' = FALSE
  /\ \/ UNCHANGED <<boot, base>>
     \/ hdd >= 64 /\ boot' = Geometry(Capped(hdd)) /\ base' = 0
  /\ UNCHANGED hdd

\* With the machine off the volume of a smaller disk is copied to a partition.
partition_disk ==
  /\ \E n \in ImageSizes, l \in PartitionStarts :
       /\ n + l <= hdd
       /\ boot' = Geometry(n) /\ base' = l
       /\ vol' = Mounted(boot', l)
  /\ on_ramdisk' = FALSE /\ booted' = TRUE
  /\ UNCHANGED hdd

LayoutNext == fat_init \/ mkfs \/ mkfs_error \/ partition_disk
LayoutSpec == LayoutInit /\ [][LayoutNext]_layoutVars

-----------------------------------------------------------------------------
\* The shell always finds a file system after a boot: a volume of the hard disk
\* or the Live RAMDisk ("so all file ops work out-of-the-box").
BootMounts == booted => vol # NoVolume

\* Every disk of at least 64 sectors can be formatted: the volume fat_format lays
\* out is one that mount_at_lba accepts, at once and at the next boot.
FormattedMounts == boot # NoVolume => Mounted(boot, base) # NoVolume

\* The mounted volume lies on the disk that sectors are now read from.
VolumeOnDisk ==
  vol # NoVolume => vol.data_start_sector + vol.total_clusters * vol.sectors_per_cluster
                  <= disk_get_total_sectors

\* The table has room for the entry of every cluster in the width that the mount
\* chose, up to the second byte of the last one's word; the cluster numbers are
\* below the end-of-chain markers, and the width is the one the label announces.
TableCovers ==
  vol # NoVolume =>
    LET last == vol.total_clusters + 1
        offset == IF vol.fat_type = 12 THEN last + last \div 2 ELSE 2 * last
    IN /\ vol.fat_start_sector * 512 + offset + 1
            < (vol.fat_start_sector + vol.fat_size_16) * 512
       /\ last < IF vol.fat_type = 12 THEN 4088 ELSE 65528
       /\ vol.fat_type = vol.fs_type

\* Whatever the size of the disk, mount and format agree on a volume that lies on it
\* and whose table has room for all its clusters.
VolumeUsable == BootMounts /\ FormattedMounts /\ VolumeOnDisk /\ TableCovers
=============================================================================
