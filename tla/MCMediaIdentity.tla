--------------------------- MODULE MCMediaIdentity ---------------------------
(***************************************************************************)
(* The boot stick, a second stick that may hold installer files as well,   *)
(* and a disk.  The worlds vary one thing each: a UUID on the command line *)
(* or not, a stick that is late, mounted, not removable, without partition *)
(* table, with a file system lsblk does not know, or with a copy on the    *)
(* second stick.                                                           *)
(***************************************************************************)
EXTENDS MediaIdentity

CONSTANTS stick, d1, nbd

MCDisk == {boot, stick, d1, nbd}

Plain == [payload |-> {boot}, carriers |-> {boot}, mounted |-> {},
          removable |-> {boot, stick}, whole |-> {}, fit |-> {boot, stick, d1},
          late |-> {}, kind |-> [d \in MCDisk |-> IF d \in {boot, stick} THEN "fat" ELSE "never"]]

MCWorlds ==
    {Plain,
     [Plain EXCEPT !.late = {boot}],
     [Plain EXCEPT !.carriers = {}],
     [Plain EXCEPT !.carriers = {}, !.late = {boot}, !.removable = {stick}],
     [Plain EXCEPT !.mounted = {boot}, !.whole = {boot}],
     [Plain EXCEPT !.carriers = {}, !.kind[boot] = "blank", !.kind[d1] = "blank"],
     [Plain EXCEPT !.payload = {boot, stick}, !.late = {boot}],
     [Plain EXCEPT !.payload = {boot, stick}, !.carriers = {boot, stick}],
     [Plain EXCEPT !.payload = {boot, stick}, !.mounted = {stick}]}
==============================================================================
