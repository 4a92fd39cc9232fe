----------------------------- MODULE BootIdentity -----------------------------
(***************************************************************************)
(* What the identification of the boot media promises the rest of the      *)
(* installer: the volume is identified once, its name then never changes,  *)
(* and setup.sh does not erase the disk that bears the name.               *)
(***************************************************************************)
CONSTANTS
    Disk,
    None

VARIABLES
    known,      \* the disk that holds the boot media, None until it is learned
    wiped       \* the disks setup.sh has started to erase

bvars == <<known, wiped>>

BInit == known = None /\ wiped = {}

\* "Identify that volume once, cache it" (media.sh).
Learn ==
    /\ known = None
    /\ known' \in Disk
    /\ UNCHANGED wiped

\* "Never wipe the volume we booted the installer from" (setup.sh).
Wipe ==
    /\ wiped = {}
    /\ wiped' \in SUBSET (Disk \ {known})
    /\ UNCHANGED known

BNext == Learn \/ Wipe

BSpec == BInit /\ [][BNext]_bvars
==============================================================================
