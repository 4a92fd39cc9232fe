----------------------------- MODULE InstallPlan -----------------------------
(***************************************************************************)
(* The answers of the installer wizard and their validation: plan.py.      *)
(*                                                                         *)
(* A disk is an element of Disk and Size gives its capacity in whole GiB   *)
(* (Disk.size_gib).  The order of a plan's disks is the order of the       *)
(* checklist and never matters here, so a selection is a set.  None stands *)
(* for Python's None: as a ROOT size it means "all remaining space", as a  *)
(* boot media it means "not identified", as a typed text it means "not a   *)
(* whole number".                                                          *)
(***************************************************************************)
EXTENDS Integers, FiniteSets, FiniteSetsExt

CONSTANTS
    Disk,       \* the block devices of the machine
    Size,       \* Size[d]: capacity of disk d in whole GiB
    None

ASSUME DiskAssumption == IsFiniteSet(Disk) /\ None \notin Disk
ASSUME SizeAssumption == Size \in [Disk -> Nat]
ASSUME NoneAssumption == None \notin Int

MIN_DISKS == 2
MAX_DISKS == 4
RAID10_DISKS == 4
BOOT_PART_GB == 2           \* setup.sh creates a 2G BOOT partition per disk

RaidLevels == {"1", "0", "10"}

\* The answer of the bitmap question, as setup.sh gets it (bitmap_mode).
BitmapModes == {"internal", "none"}

\* The RAID levels offered for a number of disks.
raid_choices(count) == IF count = RAID10_DISKS THEN {"10"} ELSE {"1", "0"}

\* Mutant of max_root_gb: the largest disk instead of the smallest.
largest_root_gb(D) == Max({Size[d] : d \in D}) - BOOT_PART_GB

\* The largest ROOT partition every disk of D (not empty) can hold; it is
\* zero or negative when the smallest disk has no room next to BOOT.
max_root_gb(D) == Min({Size[d] : d \in D}) - BOOT_PART_GB

\* Whether a typed ROOT size is accepted: a whole number in 1 .. max.
size_accepted(value, max) == value \in Int /\ 1 <= value /\ value <= max

validate_disk_count(count) == MIN_DISKS <= count /\ count <= MAX_DISKS

\* A frozen set of answers, as handed to setup.sh.
Plan == [disks : SUBSET Disk, raid_level : RaidLevels,
         root_size_gb : Int \cup {None}, bitmap : BitmapModes, max_root_gb : Int]

\* InstallPlan.validate() returns instead of raising PlanError.
validate(p) ==
    /\ validate_disk_count(Cardinality(p.disks))
    /\ p.raid_level \in raid_choices(Cardinality(p.disks))
    /\ p.root_size_gb # None => size_accepted(p.root_size_gb, p.max_root_gb)
==============================================================================
