-------------------------------- MODULE Disk --------------------------------
(***************************************************************************)
(* kernel/disk.c: the drives disk_init finds on two channels, PIO transfer *)
(* of a sector with retries, and the RAMDisk that may take their place.    *)
(* A sector's contents are a value; a byte of its number is a digit to the *)
(* base Byte and the four bits in the drive register are one to the base   *)
(* Nibble.                                                                 *)
(***************************************************************************)
EXTENDS Integers

CONSTANTS
  Byte, Nibble,        \* 256 and 16
  Lbas,                \* sectors that are used
  Contents,            \* what is written to them; 0 is a sector of zeros
  Kinds,               \* what may be connected where: "none", "atapi" or "ata"
  RAMDISK_LBAS,        \* sectors of the RAMDisk (1024)
  ATA_MAX_RETRIES

ASSUME DiskAssumption ==
  /\ Byte \in Nat \ {0} /\ Nibble \in Nat \ {0} /\ ATA_MAX_RETRIES \in Nat \ {0}
  /\ Lbas \subseteq 0..(Byte * Byte * Byte * Nibble - 1) /\ 0 \in Contents

VARIABLES
  drives,              \* what is connected: to channel 0 or 1, as master or slave
  active_hdd,
  media,               \* the sectors of every drive
  regs,                \* the task file of each channel
  ramdisk_buf, ramdisk_active,
  disk_pc, op, lba, sector, retries, \* the call in progress, its operands, attempts left
  rc, read_buf,        \* result of the last call
  kept                 \* what was last written with success: of the drive, of the RAMDisk

diskVars == <<drives, active_hdd, media, regs, ramdisk_buf, ramdisk_active,
              disk_pc, op, lba, sector, retries, rc, read_buf, kept>>
caller == <<op, lba, sector>>
devices == <<drives, active_hdd, ramdisk_active>>

Slots4 == <<[ch |-> 0, is_master |-> TRUE], [ch |-> 0, is_master |-> FALSE],
            [ch |-> 1, is_master |-> TRUE], [ch |-> 1, is_master |-> FALSE]>>
Positions == {Slots4[i] : i \in 1..4}
NoDrive == [ch |-> 2, is_master |-> FALSE]
Zeros == [l \in Lbas |-> 0]
NoSelect == [is_master |-> TRUE, lba0 |-> 0, lba1 |-> 0, lba2 |-> 0, lba3 |-> 0]

\* disk_init: the first hard disk found, masters before slaves; CD-ROMs and drives
\* that do not answer are passed over.
IsHdd(d) == d = "ata"
First(conn) ==
  LET found == {i \in 1..4 : IsHdd(conn[Slots4[i]])}
  IN IF found = {} THEN NoDrive ELSE Slots4[CHOOSE i \in found : \A j \in found : i <= j]

disk_init ==
  /\ drives \in [Positions -> Kinds]
  /\ active_hdd = First(drives)
  /\ media = [p \in Positions |-> Zeros] /\ regs = [ch \in 0..1 |-> NoSelect]
  /\ ramdisk_buf = Zeros /\ ramdisk_active = FALSE
  /\ disk_pc = "idle" /\ op = "none" /\ lba = 0 /\ sector = 0 /\ retries = 0
  /\ rc = 0 /\ read_buf = 0 /\ kept = [hdd |-> Zeros, ram |-> Zeros]

-----------------------------------------------------------------------------
disk_has_hardware_hdd == active_hdd # NoDrive

\* The caller of ata_read_sector or ata_write_sector gets its result.
Result(code, data) == rc' = code /\ read_buf' = data

Written(dev, l, v) == kept' = [kept EXCEPT ![dev][l] = v]

disk_enable_ramdisk(enable) ==
  /\ disk_pc = "idle" /\ (enable \/ disk_has_hardware_hdd)
  /\ ramdisk_active' = enable /\ op' = "none"
  /\ UNCHANGED <<drives, active_hdd, media, regs, ramdisk_buf, disk_pc, lba, sector, retries, rc, read_buf, kept>>

ramdisk_read(l) ==
  /\ disk_pc = "idle" /\ ramdisk_active
  /\ IF l >= RAMDISK_LBAS THEN Result(-1, 0) ELSE Result(0, ramdisk_buf[l])
  /\ op' = "read" /\ lba' = l /\ sector' = 0
  /\ UNCHANGED <<devices, media, regs, ramdisk_buf, disk_pc, retries, kept>>

ramdisk_write(l, v) ==
  /\ disk_pc = "idle" /\ ramdisk_active
  /\ IF l >= RAMDISK_LBAS THEN Result(-1, 0) /\ UNCHANGED <<ramdisk_buf, kept>>
     ELSE Result(0, 0) /\ ramdisk_buf' = [ramdisk_buf EXCEPT ![l] = v] /\ Written("ram", l, v)
  /\ op' = "write" /\ lba' = l /\ sector' = v
  /\ UNCHANGED <<devices, media, regs, disk_pc, retries>>

no_disk ==
  /\ disk_pc = "idle" /\ ~ramdisk_active /\ ~disk_has_hardware_hdd
  /\ \E o \in {"read", "write"}, l \in Lbas : op' = o /\ lba' = l
  /\ sector' = 0 /\ Result(-1, 0)
  /\ UNCHANGED <<devices, media, regs, ramdisk_buf, disk_pc, retries, kept>>

ata_start(o, l, v) ==
  /\ disk_pc = "idle" /\ ~ramdisk_active /\ disk_has_hardware_hdd
  /\ disk_pc' = "setup" /\ op' = o /\ lba' = l /\ sector' = v /\ retries' = ATA_MAX_RETRIES
  /\ UNCHANGED <<devices, media, regs, ramdisk_buf, rc, read_buf, kept>>

-----------------------------------------------------------------------------
TaskFile(l) ==
  [is_master |-> active_hdd.is_master, lba0 |-> l % Byte, lba1 |-> (l \div Byte) % Byte,
   lba2 |-> (l \div (Byte * Byte)) % Byte, lba3 |-> (l \div (Byte * Byte * Byte)) % Nibble]

ata_setup_lba28 ==
  /\ disk_pc = "setup" /\ retries > 0
  /\ regs' = [regs EXCEPT ![active_hdd.ch] = TaskFile(lba)]
  /\ disk_pc' = "command"
  /\ UNCHANGED <<devices, media, ramdisk_buf, caller, retries, rc, read_buf, kept>>

\* The channel stays busy, before or after the drive is selected, or the command
\* fails: soft reset and the next attempt.
ata_error ==
  /\ disk_pc \in {"setup", "command"} /\ retries > 0
  /\ \/ UNCHANGED regs
     \/ disk_pc = "setup"
        /\ regs' = [regs EXCEPT ![active_hdd.ch].is_master = active_hdd.is_master,
                                ![active_hdd.ch].lba3 = TaskFile(lba).lba3]
  /\ disk_pc' = "setup" /\ retries' = retries - 1
  /\ UNCHANGED <<devices, media, ramdisk_buf, caller, rc, read_buf, kept>>

ata_give_up ==
  /\ disk_pc = "setup" /\ retries = 0
  /\ disk_pc' = "idle" /\ Result(-1, 0)
  /\ UNCHANGED <<devices, media, regs, ramdisk_buf, caller, retries, kept>>

\* What the channel's drive does with the command.
Target == [ch |-> active_hdd.ch, is_master |-> regs[active_hdd.ch].is_master]
Address ==
  LET r == regs[active_hdd.ch]
  IN r.lba0 + Byte * (r.lba1 + Byte * (r.lba2 + Byte * r.lba3))

ata_read_sector ==
  /\ disk_pc = "command" /\ op = "read"
  /\ disk_pc' = "idle" /\ retries' = 0
  /\ Result(0, IF Address \in Lbas THEN media[Target][Address] ELSE 0)
  /\ UNCHANGED <<devices, media, regs, ramdisk_buf, caller, kept>>

ata_write_sector ==
  /\ disk_pc = "command" /\ op = "write"
  /\ disk_pc' = "idle" /\ retries' = 0
  /\ media' = IF Address \in Lbas THEN [media EXCEPT ![Target][Address] = sector] ELSE media
  /\ Result(0, 0) /\ Written("hdd", lba, sector)
  /\ UNCHANGED <<devices, regs, ramdisk_buf, caller>>

DiskNext ==
  \/ \E enable \in BOOLEAN : disk_enable_ramdisk(enable)
  \/ \E l \in Lbas : ramdisk_read(l) \/ ata_start("read", l, 0)
  \/ \E l \in Lbas, v \in Contents : ramdisk_write(l, v) \/ ata_start("write", l, v)
  \/ no_disk \/ ata_setup_lba28 \/ ata_error \/ ata_give_up \/ ata_read_sector \/ ata_write_sector

DiskSpec == disk_init /\ [][DiskNext]_diskVars

-----------------------------------------------------------------------------
\* A read that reports success returns what was last written to this sector of the
\* disk now in use, whatever happened on the other disk, at other sectors, and in
\* attempts that failed; a failed read returns zeros.
ReadsLastWritten ==
  disk_pc = "idle" /\ op = "read" =>
    \/ rc = -1 /\ read_buf = 0
    \/ rc = 0 /\ read_buf = IF ramdisk_active THEN kept.ram[lba] ELSE kept.hdd[lba]

\* Only the chosen hard disk is written to; CD-ROMs and other disks stay as they
\* are, and so do sectors nobody wrote.
OnlyActiveWritten ==
  \A p \in Positions : media[p] = IF p = active_hdd /\ drives[p] = "ata" THEN kept.hdd ELSE Zeros

=============================================================================
