---------------------------- MODULE MCInstallFlow ----------------------------
(***************************************************************************)
(* Five disks, one more than a plan may have: one with no room for ROOT,   *)
(* one with room for 1 GB, one small, two around the bitmap threshold.     *)
(* The boot media is not identified, is a disk, or is a name that is no    *)
(* disk of the list (an identity file without its DISK line).              *)
(***************************************************************************)
EXTENDS InstallFlow

CONSTANTS d1, d2, d3, d4, d5, part

MCDisk == {d1, d2, d3, d4, d5}
MCSize == [d \in MCDisk |-> CASE d = d1 -> 2 [] d = d2 -> 3 [] d = d3 -> 6
                              [] d = d4 -> 152 [] d = d5 -> 200]
MCInventories == {{}, {d2, d3, d4}, MCDisk}
MCMedia == {None, d3, part}
MCTyped == {None, 0, 1, 4, 5, 150}
==============================================================================
