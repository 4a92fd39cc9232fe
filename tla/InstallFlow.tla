----------------------------- MODULE InstallFlow -----------------------------
(***************************************************************************)
(* The question sequence of the Python wizard: collect_plan() of flow.py,  *)
(* its five steps, and the dialogs they show (dialogs.py).                 *)
(*                                                                         *)
(*   0 disks -> 1 RAID level -> 2 ROOT size -> 3 bitmap -> 4 erase?        *)
(*                                                                         *)
(* The state is what the code keeps (the index of the step, the answers of *)
(* State, the local "chosen" of step_disks) and the dialog on the screen.  *)
(* One action is one answer of the operator together with everything the   *)
(* code does up to the next dialog.  The operator may answer, go Back      *)
(* where the dialog offers it, or cancel (Cancel, ESC, Ctrl-C, SIGTERM and *)
(* SIGHUP all end the sequence with exit status 0) at any dialog.          *)
(*                                                                         *)
(* fresh and vouched are history: what was asked about the answers as they *)
(* are now.  No action reads them.                                         *)
(***************************************************************************)
EXTENDS InstallPlan

CONSTANTS
    Inventories,    \* sets of usable disks: right type, allowed name, size > 0
    Media,          \* what find_media() may name: disks, other names, None
    Typed           \* what the operator may type as a ROOT size

ASSUME InventoriesAssumption == Inventories \subseteq SUBSET Disk
ASSUME TypedAssumption == Typed \subseteq Int \cup {None}

VARIABLES
    media,          \* State.media (its disk), None when not identified
    targets,        \* State.targets
    index,          \* collect_plan(): the step being asked; 5 when done
    dialog,         \* the dialog on the screen, "none" when there is none
    chosen,         \* step_disks(): the ticked disks, before they are accepted
    disks, raid_level, root_size_gb, bitmap,        \* the answers in State
    outcome,        \* "asking", "planned", "cancelled", or "crashed"
    plan,           \* what collect_plan() returned
    fresh,          \* history: steps answered since what they depend on changed
    vouched         \* history: the disks the operator last vouched for

answers == <<disks, raid_level, root_size_gb, bitmap>>
vars == <<media, targets, index, dialog, chosen, answers, outcome, plan, fresh,
          vouched>>

Dialogs == {"notargets", "checklist", "refused", "vouch", "raid10", "raidmenu",
            "toosmall", "sizemenu", "sizeinput", "bitmap", "confirm", "none"}
AllowBack == {"raid10", "raidmenu", "toosmall", "sizemenu", "sizeinput",
              "bitmap", "confirm"}

\* The disks offered: usable, and not the boot media.
list_targets(inventory, m) == inventory \ {m}

\* Mutant of first_dialog: the size is asked for on disks with no room at all.
first_dialog_no_room(i, D) ==
    CASE i = 0 -> "checklist"
      [] i = 1 -> IF raid_choices(Cardinality(D)) = {"10"} THEN "raid10"
                                                           ELSE "raidmenu"
      [] i = 2 -> "sizemenu"
      [] i = 3 -> "bitmap"
      [] i = 4 -> "confirm"

\* The first dialog step i shows when the chosen disks are D.
first_dialog(i, D) ==
    CASE i = 0 -> "checklist"
      [] i = 1 -> IF raid_choices(Cardinality(D)) = {"10"} THEN "raid10"
                                                           ELSE "raidmenu"
      [] i = 2 -> IF max_root_gb(D) < 1 THEN "toosmall" ELSE "sizemenu"
      [] i = 3 -> "bitmap"
      [] i = 4 -> "confirm"

\* State.to_plan()
to_plan == [disks |-> disks, raid_level |-> raid_level,
            root_size_gb |-> root_size_gb, bitmap |-> bitmap,
            max_root_gb |-> max_root_gb(disks)]

\* The loop of collect_plan() calls step i with D as the chosen disks.
Enter(i, D) == index' = i /\ dialog' = first_dialog(i, D)

\* The list the caller passes is list_targets(); the boot disk check of
\* step_disks() is there for a list the boot disk leaked into, so that list is
\* an input as well.
Init ==
    /\ media \in Media
    /\ \E inventory \in Inventories :
          targets \in {list_targets(inventory, media), inventory}
    /\ index = 0
    /\ dialog = IF targets = {} THEN "notargets" ELSE "checklist"
    /\ chosen = {} /\ disks = {} /\ raid_level = "unset" /\ root_size_gb = None
    /\ bitmap = "none"
    /\ outcome = "asking" /\ plan = None
    /\ fresh = {} /\ vouched = {}

\* Mutant of StoreDisks: a RAID level answered before is kept.
StoreDisksKeepsRaid(D) ==
    /\ disks' = D
    /\ fresh' = {}
    /\ Enter(IF raid_level = "unset" THEN 1 ELSE 2, D)
    /\ UNCHANGED <<raid_level, root_size_gb, bitmap>>

\* step_disks() stores the selection and returns.
StoreDisks(D) ==
    /\ disks' = D
    /\ fresh' = {}
    /\ Enter(1, D)
    /\ UNCHANGED <<raid_level, root_size_gb, bitmap>>

\* Mutants of Checklist: the list is trusted to be without the boot media ...
ChecklistTrusted(ticked) ==
    /\ dialog = "checklist"
    /\ validate_disk_count(Cardinality(ticked))
    /\ chosen' = ticked
    /\ \/ /\ media = None
          /\ dialog' = "vouch"
          /\ UNCHANGED <<index, answers, fresh>>
       \/ /\ media # None
          /\ StoreDisks(ticked)
    /\ UNCHANGED <<media, targets, outcome, plan, vouched>>

\* ... or the operator vouches only once.
ChecklistVouchOnce(ticked) ==
    /\ dialog = "checklist"
    /\ validate_disk_count(Cardinality(ticked))
    /\ chosen' = ticked
    /\ \/ /\ media = None
          /\ vouched = {}
          /\ dialog' = "vouch"
          /\ UNCHANGED <<index, answers, fresh>>
       \/ /\ media # None \/ vouched # {}
          /\ StoreDisks(ticked)
    /\ UNCHANGED <<media, targets, outcome, plan, vouched>>

\* OK in the checklist, with a number of ticks its validator lets through.
Checklist(ticked) ==
    /\ dialog = "checklist"
    /\ validate_disk_count(Cardinality(ticked))
    /\ chosen' = ticked
    /\ \/ /\ media \in ticked
          /\ dialog' = "refused"
          /\ UNCHANGED <<index, answers, fresh>>
       \/ /\ media = None
          /\ dialog' = "vouch"
          /\ UNCHANGED <<index, answers, fresh>>
       \/ /\ media # None
          /\ media \notin ticked
          /\ StoreDisks(ticked)
    /\ UNCHANGED <<media, targets, outcome, plan, vouched>>

\* OK in the message that the boot media cannot be a target: ask again.
Refused ==
    /\ dialog = "refused"
    /\ dialog' = "checklist"
    /\ UNCHANGED <<media, targets, index, chosen, answers, outcome, plan, fresh,
                   vouched>>

\* "None of them" in the question of _confirm_unidentified().
VouchYes ==
    /\ dialog = "vouch"
    /\ vouched' = chosen
    /\ StoreDisks(chosen)
    /\ UNCHANGED <<media, targets, chosen, outcome, plan>>

\* "Re-select": ask again (with the same ticks).
VouchNo ==
    /\ dialog = "vouch"
    /\ dialog' = "checklist"
    /\ UNCHANGED <<media, targets, index, chosen, answers, outcome, plan, fresh,
                   vouched>>

\* step_raid(): OK in the RAID 10 message, or a level picked from the menu.
Raid(level) ==
    /\ \/ dialog = "raid10" /\ level = "10"
       \/ dialog = "raidmenu" /\ level \in {"1", "0"}
    /\ raid_level' = level
    /\ fresh' = fresh \cup {"raid"}
    /\ Enter(2, disks)
    /\ UNCHANGED <<media, targets, chosen, disks, root_size_gb, bitmap, outcome,
                   plan, vouched>>

\* Mutant of StoreSize: the bitmap question is not asked again.
StoreSizeKeepsBitmap(size) ==
    /\ root_size_gb' = size
    /\ fresh' = (fresh \ {"bitmap"}) \cup {"size"}
    /\ Enter(4, disks)
    /\ UNCHANGED <<media, targets, chosen, disks, raid_level, bitmap, outcome,
                   plan, vouched>>

\* step_size() stores the size and returns.  The bitmap question depends on it.
StoreSize(size) ==
    /\ root_size_gb' = size
    /\ fresh' = (fresh \ {"bitmap"}) \cup {"size"}
    /\ Enter(3, disks)
    /\ UNCHANGED <<media, targets, chosen, disks, raid_level, bitmap, outcome,
                   plan, vouched>>

SizeMax == dialog = "sizemenu" /\ StoreSize(None)

SizeCustom ==
    /\ dialog = "sizemenu"
    /\ dialog' = "sizeinput"
    /\ UNCHANGED <<media, targets, index, chosen, answers, outcome, plan, fresh,
                   vouched>>

\* OK in the size box: check() keeps the box open on a bad value.
SizeTyped(value) ==
    /\ dialog = "sizeinput"
    /\ size_accepted(value, max_root_gb(disks))
    /\ StoreSize(value)

Bitmap(mode) ==
    /\ dialog = "bitmap"
    /\ bitmap' = mode
    /\ fresh' = fresh \cup {"bitmap"}
    /\ Enter(4, disks)
    /\ UNCHANGED <<media, targets, chosen, disks, raid_level, root_size_gb,
                   outcome, plan, vouched>>

\* Mutant of Back: offered in the first step as well (STEPS[-1] is the last).
BackFromFirst ==
    /\ dialog \in AllowBack \cup {"checklist"}
    /\ index' = index - 1
    /\ dialog' = IF index = 0 THEN "confirm" ELSE first_dialog(index - 1, disks)
    /\ UNCHANGED <<media, targets, chosen, answers, outcome, plan, fresh, vouched>>

\* Back in a dialog that offers it, and OK in the "too small" message: both
\* raise GoBackError.
Back ==
    /\ dialog \in AllowBack
    /\ Enter(index - 1, disks)
    /\ UNCHANGED <<media, targets, chosen, answers, outcome, plan, fresh, vouched>>

\* "Erase and install": the loop ends, and collect_plan() validates the plan.
Confirm ==
    /\ dialog = "confirm"
    /\ index' = 5
    /\ dialog' = "none"
    /\ \/ validate(to_plan) /\ plan' = to_plan /\ outcome' = "planned"
       \/ ~validate(to_plan) /\ outcome' = "crashed" /\ UNCHANGED plan
    /\ UNCHANGED <<media, targets, chosen, answers, fresh, vouched>>

\* ESC, Cancel, No in the erase question, OK in the "no targets" message.
Cancel ==
    /\ outcome = "asking"
    /\ dialog' = "none"
    /\ outcome' = "cancelled"
    /\ UNCHANGED <<media, targets, index, chosen, answers, plan, fresh, vouched>>

Next ==
    \/ \E ticked \in SUBSET targets : Checklist(ticked)
    \/ Refused
    \/ VouchYes
    \/ VouchNo
    \/ \E level \in RaidLevels : Raid(level)
    \/ SizeMax
    \/ SizeCustom
    \/ \E value \in Typed : SizeTyped(value)
    \/ \E mode \in BitmapModes : Bitmap(mode)
    \/ Back
    \/ Confirm
    \/ Cancel

Spec == Init /\ [][Next]_vars

-----------------------------------------------------------------------------
\* The types of the variables.
TypeOK ==
    /\ media \in Media
    /\ targets \subseteq Disk
    /\ index \in 0 .. 5
    /\ dialog \in Dialogs
    /\ chosen \subseteq targets
    /\ disks \subseteq targets
    /\ raid_level \in RaidLevels \cup {"unset"}
    /\ root_size_gb \in Int \cup {None}
    /\ bitmap \in BitmapModes
    /\ outcome \in {"asking", "planned", "cancelled", "crashed"}
    /\ plan \in Plan \cup {None}
    /\ fresh \subseteq {"raid", "size", "bitmap"}
    /\ vouched \subseteq targets

\* plan.validate() at the end of collect_plan() never raises: whatever was
\* answered, taken back and answered again, the answers fit together.  A level
\* or a size kept from an earlier selection of disks would break it, and the
\* launcher would then re-ask everything in wizard.sh.
NeverRaises == outcome # "crashed"

\* The identified boot media is never in a plan, even when the list of targets
\* contains it (step_disks: "Never trust the list alone").
BootMediaSpared == outcome = "planned" => media \notin plan.disks

\* Without an identity, a plan erases exactly the disks the operator vouched
\* for last (_confirm_unidentified: "Fail closed").
VouchedFor == outcome = "planned" /\ media = None => plan.disks = vouched

\* BOOT and ROOT fit on every disk of a plan, also when ROOT is "all remaining
\* space", which validate() does not look at.
RoomForRoot ==
    outcome = "planned" =>
        \A d \in plan.disks :
            Size[d] >= BOOT_PART_GB
                       + (IF plan.root_size_gb = None THEN 1 ELSE plan.root_size_gb)

\* When the erase question is on the screen, the RAID, size and bitmap
\* questions have been answered for the disks it names, and the bitmap question
\* for the size chosen: no answer survives the change of what it was about.
NothingStale == dialog = "confirm" => fresh = {"raid", "size", "bitmap"}

\* The questions end only as InstallContract says.
Contract == INSTANCE InstallContract
            WITH media <- media, targets <- targets, vouched <- vouched,
                 outcome <- outcome, plan <- plan
ContractSpec == Contract!CSpec
==============================================================================
