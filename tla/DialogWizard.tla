----------------------------- MODULE DialogWizard -----------------------------
(***************************************************************************)
(* wizard.sh, the dialog-based wizard the launcher falls back to.  It asks *)
(* the same questions as InstallFlow, once each and without a way back.    *)
(*                                                                         *)
(* Three dialogs are captured with X=$(dlg_capture ...): dlg_capture then  *)
(* runs in a subshell, so the exit 0 of user_quit ends the subshell only,  *)
(* and X is the escape sequence that user_quit's clear has written: one    *)
(* word which is no answer, "garbage" here.  Other statuses of dialog end  *)
(* the script through set -e.                                              *)
(***************************************************************************)
EXTENDS InstallPlan

CONSTANTS
    Inventories,    \* sets of writable disks of a size above zero
    Media,          \* INSTALLER_DISK; None when no media was identified
    Typed           \* what the operator may type as a ROOT size

ASSUME InventoriesAssumption == Inventories \subseteq SUBSET Disk
ASSUME TypedAssumption == Typed \subseteq Int \cup {None}

VARIABLES
    media,          \* INSTALLER_DISK
    targets,        \* DIALOG_ARGS, the disks of the checklist
    at,             \* the dialog on the screen
    disks,          \* DISK_ARRAY
    raid_level,     \* ROOT_RAID_LEVEL
    choice,         \* SIZE_CHOICE
    typed,          \* ROOT_SIZE when choice = "CUSTOM"; None: not a number
    bitmap,         \* ROOT_BITMAP_MODE
    outcome,        \* "asking", "quit" (exit 0), "failed", "setup" (exec)
    cancelled       \* history: the dialogs answered with Cancel or ESC

vars == <<media, targets, at, disks, raid_level, choice, typed, bitmap, outcome,
          cancelled>>

\* The dialogs that are captured in a subshell.
Captured == {"checklist", "raid", "size", "rootsize"}

Init ==
    /\ media \in Media
    /\ \E inventory \in Inventories : targets = inventory \ {media}
    /\ at = (CASE media = None -> "identity"
               [] media # None /\ targets = {} -> "message"
               [] OTHER -> "checklist")
    /\ disks = {} /\ raid_level = "unset" /\ choice = "unset" /\ typed = None
    /\ bitmap = "none"
    /\ outcome = "asking" /\ cancelled = {}

\* No identity: "Continue anyway?"
Continue ==
    /\ at = "identity"
    /\ at' = IF targets = {} THEN "message" ELSE "checklist"
    /\ UNCHANGED <<media, targets, disks, raid_level, choice, typed, bitmap,
                   outcome, cancelled>>

\* user_quit in the script itself: an answer that is not yes, or the OK of an
\* error message.
Quit ==
    /\ at \in {"identity", "message", "confirm"}
    /\ outcome' = "quit"
    /\ at' = "none"
    /\ UNCHANGED <<media, targets, disks, raid_level, choice, typed, bitmap,
                   cancelled>>

\* dialog itself fails: dlg_capture exits with its status; ESC in an error
\* message is such a status as well, and set -e ends the script.
DialogFails ==
    /\ at \in Captured \cup {"message"}
    /\ outcome' = "failed"
    /\ at' = "none"
    /\ UNCHANGED <<media, targets, disks, raid_level, choice, typed, bitmap,
                   cancelled>>

\* Mutant of Refuses: no upper bound.
RefusesTooFew(D) ==
    \/ Cardinality(D) < MIN_DISKS
    \/ \E d \in D : d = media

\* Too few or too many disks, or the boot media among them.
Refuses(D) ==
    \/ ~validate_disk_count(Cardinality(D))
    \/ \E d \in D : d = media

\* Mutant of Checklist: the RAID level of four disks is asked for as well.
ChecklistAsks(D) ==
    /\ at = "checklist"
    /\ disks' = D
    /\ at' = IF Refuses(D) THEN "message" ELSE "raid"
    /\ UNCHANGED <<media, targets, raid_level, choice, typed, bitmap, outcome,
                   cancelled>>

\* OK in the checklist.  Four disks are always RAID 10.
Checklist(D) ==
    /\ at = "checklist"
    /\ disks' = D
    /\ \/ /\ Refuses(D)
          /\ at' = "message"
          /\ UNCHANGED raid_level
       \/ /\ ~Refuses(D)
          /\ Cardinality(D) = RAID10_DISKS
          /\ raid_level' = "10"
          /\ at' = "size"
       \/ /\ ~Refuses(D)
          /\ Cardinality(D) # RAID10_DISKS
          /\ at' = "raid"
          /\ UNCHANGED raid_level
    /\ UNCHANGED <<media, targets, choice, typed, bitmap, outcome, cancelled>>

Raid(l) ==
    /\ at = "raid"
    /\ raid_level' = l
    /\ at' = "size"
    /\ UNCHANGED <<media, targets, disks, choice, typed, bitmap, outcome, cancelled>>

StoreSize(c) ==
    /\ at = "size"
    /\ choice' = c
    /\ at' = IF c = "CUSTOM" THEN "rootsize" ELSE "bitmap"
    /\ UNCHANGED <<media, targets, disks, raid_level, typed, bitmap, outcome, cancelled>>

\* Any text is taken as the ROOT size.
RootSize(v) ==
    /\ at = "rootsize"
    /\ typed' = v
    /\ at' = "bitmap"
    /\ UNCHANGED <<media, targets, disks, raid_level, choice, bitmap, outcome, cancelled>>

\* Cancel or ESC in a captured dialog: the script goes on with "garbage".  As a
\* selection that is one disk name, too few; as a size choice it is not CUSTOM.
Cancel ==
    /\ at \in Captured
    /\ cancelled' = cancelled \cup {at}
    /\ \/ at = "checklist" /\ at' = "message" /\ UNCHANGED <<raid_level, choice>>
       \/ at = "raid" /\ at' = "size" /\ raid_level' = "garbage" /\ UNCHANGED choice
       \/ at = "size" /\ at' = "bitmap" /\ choice' = "garbage" /\ UNCHANGED raid_level
       \/ at = "rootsize" /\ at' = "bitmap" /\ UNCHANGED <<raid_level, choice>>
    /\ UNCHANGED <<media, targets, disks, typed, bitmap, outcome>>

\* Mutant of Bitmap: the button is stored instead of the mode.
BitmapButton(mode) ==
    /\ at = "bitmap"
    /\ bitmap' = IF mode = "internal" THEN "yes" ELSE "no"
    /\ at' = "confirm"
    /\ UNCHANGED <<media, targets, disks, raid_level, choice, typed, outcome, cancelled>>

\* "Disable" and ESC are the same here.
Bitmap(mode) ==
    /\ at = "bitmap"
    /\ bitmap' = mode
    /\ at' = "confirm"
    /\ UNCHANGED <<media, targets, disks, raid_level, choice, typed, outcome, cancelled>>

\* Yes to the warning: exec setup.sh.
Confirm ==
    /\ at = "confirm"
    /\ outcome' = "setup"
    /\ at' = "none"
    /\ UNCHANGED <<media, targets, disks, raid_level, choice, typed, bitmap, cancelled>>

Next ==
    \/ Continue \/ Quit \/ DialogFails \/ Cancel \/ Confirm
    \/ \E D \in SUBSET targets : Checklist(D)
    \/ \E l \in {"1", "0"} : Raid(l)
    \/ \E c \in {"MAX", "CUSTOM"} : StoreSize(c)
    \/ \E v \in Typed : RootSize(v)
    \/ \E mode \in BitmapModes : Bitmap(mode)

Spec == Init /\ [][Next]_vars

-----------------------------------------------------------------------------
TypeOK ==
    /\ media \in Media
    /\ targets \in SUBSET Disk
    /\ disks \in SUBSET targets
    /\ at \in Captured \cup {"identity", "message", "bitmap", "confirm", "none"}
    /\ raid_level \in RaidLevels \cup {"unset", "garbage"}
    /\ choice \in {"unset", "MAX", "CUSTOM", "garbage"}
    /\ typed \in Typed \cup {None}
    /\ bitmap \in BitmapModes
    /\ outcome \in {"asking", "quit", "failed", "setup"}
    /\ cancelled \in SUBSET Captured

\* What setup.sh is handed to erase is two to four disks of the checklist, and
\* never the boot media, whatever was cancelled on the way.
WipesTargetsOnly ==
    outcome = "setup" =>
        /\ validate_disk_count(Cardinality(disks))
        /\ disks \subseteq targets
        /\ media \notin disks

\* Without a cancelled dialog the RAID level fits the number of disks, as in
\* the plans of the Python wizard.
RaidFitsDisks ==
    outcome = "setup" /\ "raid" \notin cancelled
        => raid_level \in raid_choices(Cardinality(disks))

\* wizard.sh:17 says that "Cancel/ESC leaves the wizard without failing the
\* unit": no cancelled run hands anything to setup.sh.
CancelLeaves == outcome = "setup" => cancelled = {}
==============================================================================
