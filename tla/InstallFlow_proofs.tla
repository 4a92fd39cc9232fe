------------------------- MODULE InstallFlow_proofs -------------------------
(***************************************************************************)
(* Proofs about the question sequence, for every set of disks, every size  *)
(* and every text the operator may type.                                   *)
(***************************************************************************)
EXTENDS InstallFlow, FiniteSetTheorems, WellFoundedInduction, TLAPS

\* A non-empty set of sizes has a smallest one.
LEMMA NatMin ==
  ASSUME NEW S, S \subseteq Nat, S # {}
  PROVE  \E x \in S : \A y \in S : x <= y
<1>1. PICK x \in S : \A y \in S : ~ (<<y, x>> \in OpToRel(<, Nat))
  BY NatLessThanWellFounded, WFMin
<1>2. ASSUME NEW y \in S
      PROVE  x <= y
  <2>1. x \in Nat /\ y \in Nat
    OBVIOUS
  <2>2. ~ (y < x)
    BY <1>1, <2>1 DEF OpToRel
  <2>. QED  BY <2>1, <2>2
<1>. QED  BY <1>2

\* max_root_gb(D) is what is left of the smallest disk of D, so every disk of D
\* has room for it next to BOOT.
LEMMA MaxRootFits ==
  ASSUME NEW D \in SUBSET Disk, D # {}
  PROVE  /\ max_root_gb(D) \in Int
         /\ \A d \in D : max_root_gb(D) + BOOT_PART_GB <= Size[d]
<1> DEFINE S == {Size[d] : d \in D}
<1>1. S \subseteq Nat /\ S # {}
  BY SizeAssumption
<1>2. \E x \in S : \A y \in S : x <= y
  BY <1>1, NatMin
<1>3. /\ Min(S) \in S
      /\ \A y \in S : Min(S) <= y
  BY <1>2 DEF Min
<1>4. Min(S) \in Nat
  BY <1>1, <1>3
<1>5. max_root_gb(D) = Min(S) - 2
  BY DEF max_root_gb, BOOT_PART_GB
<1>. QED  BY <1>3, <1>4, <1>5, SizeAssumption DEF BOOT_PART_GB

-----------------------------------------------------------------------------
\* The step a dialog belongs to, and how far the answers must have come.
StepOf(d) ==
    CASE d \in {"notargets", "checklist", "refused", "vouch"} -> 0
      [] d \in {"raid10", "raidmenu"} -> 1
      [] d \in {"toosmall", "sizemenu", "sizeinput"} -> 2
      [] d = "bitmap" -> 3
      [] d = "confirm" -> 4
      [] d = "none" -> 5

\* The dialog on the screen is one of the step being asked.
InStep ==
    /\ outcome = "asking" => index = StepOf(dialog) /\ dialog # "none"
    /\ outcome # "asking" => dialog = "none"
    /\ outcome \in {"asking", "cancelled"} => plan = None

\* The selection stored in State was checked when it was stored.
DisksChecked ==
    /\ disks # {} => validate_disk_count(Cardinality(disks))
    /\ media \notin disks
    /\ media = None => vouched = disks
    /\ dialog = "vouch" => media = None /\ validate_disk_count(Cardinality(chosen))
    /\ dialog = "vouch" => chosen # {}

\* The level was chosen, or is being chosen, for the number of disks of now.
RaidFits ==
    /\ dialog = "raid10" => raid_choices(Cardinality(disks)) = {"10"}
    /\ dialog = "raidmenu" => raid_choices(Cardinality(disks)) = {"1", "0"}
    /\ index >= 2 => raid_level \in raid_choices(Cardinality(disks))
    /\ index >= 2 => raid_level \in RaidLevels

\* The size was chosen, or is being chosen, for the disks of now.
SizeFits ==
    /\ dialog \in {"sizemenu", "sizeinput"} => max_root_gb(disks) >= 1
    /\ index >= 3 => max_root_gb(disks) >= 1
    /\ index >= 3 => (root_size_gb # None =>
                         size_accepted(root_size_gb, max_root_gb(disks)))

\* Every step behind the current one was answered for the answers of now.
AllAsked ==
    /\ index >= 1 => disks # {}
    /\ index >= 2 => "raid" \in fresh
    /\ index >= 3 => "size" \in fresh
    /\ index >= 4 => "bitmap" \in fresh

\* What was delivered may be delivered.
PlanFits ==
    /\ outcome # "crashed"
    /\ outcome = "planned" => plan \in Contract!Deliverable

IInv ==
    TypeOK /\ InStep /\ DisksChecked /\ RaidFits /\ SizeFits /\ AllAsked /\ PlanFits

-----------------------------------------------------------------------------
\* A selection that passes the count check is not empty.
LEMMA CountedNotEmpty ==
  ASSUME NEW D \in SUBSET Disk, validate_disk_count(Cardinality(D))
  PROVE  D # {}
BY FS_EmptySet DEF validate_disk_count, MIN_DISKS, MAX_DISKS

\* What the five steps show first.
LEMMA FirstDialog ==
  ASSUME NEW D
  PROVE  /\ first_dialog(0, D) = "checklist"
         /\ first_dialog(1, D) = IF raid_choices(Cardinality(D)) = {"10"}
                                  THEN "raid10" ELSE "raidmenu"
         /\ first_dialog(2, D) = IF max_root_gb(D) < 1 THEN "toosmall"
                                                       ELSE "sizemenu"
         /\ first_dialog(3, D) = "bitmap"
         /\ first_dialog(4, D) = "confirm"
BY DEF first_dialog

\* The levels offered are levels, one or the other way round.
LEMMA RaidChoices ==
  ASSUME NEW count
  PROVE  /\ raid_choices(count) \subseteq RaidLevels
         /\ raid_choices(count) = {"10"} \/ raid_choices(count) = {"1", "0"}
BY DEF raid_choices, RaidLevels

LEMMA InitIInv == Init => IInv
<1> SUFFICES ASSUME Init PROVE IInv
  OBVIOUS
<1>1. targets \subseteq Disk
  BY InventoriesAssumption DEF Init, list_targets
<1>2. TypeOK
  BY <1>1 DEF Init, TypeOK, Dialogs, BitmapModes
<1>3. InStep
  BY DEF Init, InStep, StepOf
<1>4. DisksChecked
  BY DEF Init, DisksChecked
<1>5. RaidFits /\ SizeFits /\ AllAsked
  BY DEF Init, RaidFits, SizeFits, AllAsked
<1>6. PlanFits
  BY DEF Init, PlanFits
<1>. QED  BY <1>2, <1>3, <1>4, <1>5, <1>6 DEF IInv

\* Storing a checked selection leads to the RAID question.
LEMMA StoreDisksIInv ==
  ASSUME IInv, NEW D \in SUBSET targets, StoreDisks(D),
         validate_disk_count(Cardinality(D)), media \notin D,
         dialog \in {"checklist", "vouch"},
         chosen' \subseteq targets, vouched' \subseteq targets,
         media = None => vouched' = D,
         UNCHANGED <<media, targets, outcome, plan>>
  PROVE  IInv'
<1>1. D \subseteq Disk /\ D # {}
  BY CountedNotEmpty DEF IInv, TypeOK
<1>2. outcome = "asking" /\ plan = None
  BY DEF IInv, TypeOK, InStep
<1>3. /\ index' = 1
      /\ dialog' = IF raid_choices(Cardinality(D)) = {"10"} THEN "raid10"
                                                           ELSE "raidmenu"
      /\ disks' = D
      /\ fresh' = {}
      /\ UNCHANGED <<raid_level, root_size_gb, bitmap>>
  BY FirstDialog DEF StoreDisks, Enter
<1>4. TypeOK'
  BY <1>3 DEF IInv, TypeOK, Dialogs
<1>5. InStep'
  BY <1>2, <1>3 DEF InStep, StepOf
<1>6. DisksChecked'
  BY <1>1, <1>3 DEF DisksChecked
<1>7. RaidFits' /\ SizeFits' /\ AllAsked'
  BY <1>1, <1>3, RaidChoices DEF RaidFits, SizeFits, AllAsked
<1>8. PlanFits'
  BY <1>2 DEF PlanFits
<1>. QED  BY <1>4, <1>5, <1>6, <1>7, <1>8 DEF IInv

LEMMA ChecklistIInv ==
  ASSUME IInv, NEW ticked \in SUBSET targets, Checklist(ticked)
  PROVE  IInv'
<1> USE DEF IInv, TypeOK
<1>1. /\ dialog = "checklist" /\ outcome = "asking" /\ index = 0
      /\ plan = None
  BY DEF Checklist, InStep, StepOf
<1>2. ticked # {}
  BY CountedNotEmpty DEF Checklist
<1>3. ASSUME dialog' \in {"refused", "vouch"}, dialog' = "vouch" => media = None,
             UNCHANGED <<index, answers, fresh>>
      PROVE  IInv'
  <2>1. UNCHANGED <<media, targets, index, disks, raid_level, root_size_gb,
                    bitmap, outcome, plan, fresh, vouched>>
        /\ chosen' = ticked /\ validate_disk_count(Cardinality(ticked))
    BY <1>3 DEF Checklist, answers
  <2>2. TypeOK' /\ InStep'
    BY <1>1, <1>3, <2>1 DEF Dialogs, InStep, StepOf
  <2>3. DisksChecked'
    BY <1>2, <1>3, <2>1 DEF DisksChecked
  <2>4. RaidFits' /\ SizeFits' /\ AllAsked'
    BY <1>1, <1>3, <2>1 DEF RaidFits, SizeFits, AllAsked
  <2>5. PlanFits'
    BY <1>1, <2>1 DEF PlanFits
  <2>. QED  BY <2>2, <2>3, <2>4, <2>5
<1>4. CASE media \in ticked /\ dialog' = "refused" /\ UNCHANGED <<index, answers, fresh>>
  BY <1>3, <1>4
<1>5. CASE media = None /\ dialog' = "vouch" /\ UNCHANGED <<index, answers, fresh>>
  BY <1>3, <1>5
<1>6. CASE media # None /\ media \notin ticked /\ StoreDisks(ticked)
  BY <1>1, <1>6, StoreDisksIInv DEF Checklist
<1>. QED  BY <1>4, <1>5, <1>6 DEF Checklist

LEMMA VouchYesIInv ==
  ASSUME IInv, VouchYes
  PROVE  IInv'
<1>1. /\ dialog = "vouch" /\ media = None /\ chosen \in SUBSET targets
      /\ validate_disk_count(Cardinality(chosen))
  BY DEF IInv, TypeOK, DisksChecked, VouchYes
<1>2. media \notin chosen
  BY <1>1, DiskAssumption DEF IInv, TypeOK
<1>. QED  BY <1>1, <1>2, StoreDisksIInv DEF VouchYes, IInv, TypeOK

\* Going back to the checklist from the two dialogs it may open.
LEMMA AskAgainIInv ==
  ASSUME IInv, Refused \/ VouchNo
  PROVE  IInv'
<1> USE DEF IInv, TypeOK, Refused, VouchNo, answers, RaidFits, SizeFits, AllAsked
<1>1. outcome = "asking" /\ index = 0 /\ plan = None
  BY DEF InStep, StepOf
<1>2. TypeOK' /\ InStep'
  BY <1>1 DEF Dialogs, InStep, StepOf
<1>3. DisksChecked' /\ RaidFits' /\ SizeFits' /\ AllAsked' /\ PlanFits'
  BY <1>1 DEF DisksChecked, PlanFits
<1>. QED  BY <1>2, <1>3

LEMMA RaidIInv ==
  ASSUME IInv, NEW level \in RaidLevels, Raid(level)
  PROVE  IInv'
<1> USE DEF IInv, TypeOK
<1>1. outcome = "asking" /\ index = 1 /\ plan = None
  BY DEF Raid, InStep, StepOf
<1>2. disks # {} /\ level \in raid_choices(Cardinality(disks))
  BY <1>1 DEF Raid, RaidFits, AllAsked
<1>3. max_root_gb(disks) \in Int
  BY <1>2, MaxRootFits
<1>4. /\ index' = 2
      /\ dialog' = IF max_root_gb(disks) < 1 THEN "toosmall" ELSE "sizemenu"
      /\ raid_level' = level
      /\ fresh' = fresh \cup {"raid"}
      /\ UNCHANGED <<media, targets, chosen, disks, root_size_gb, bitmap,
                      outcome, plan, vouched>>
  BY FirstDialog DEF Raid, Enter
<1>5. TypeOK' /\ InStep'
  BY <1>1, <1>4 DEF Dialogs, InStep, StepOf
<1>6. DisksChecked' /\ PlanFits'
  BY <1>1, <1>4 DEF DisksChecked, PlanFits
<1>7. RaidFits' /\ SizeFits' /\ AllAsked'
  BY <1>2, <1>3, <1>4 DEF RaidFits, SizeFits, AllAsked
<1>. QED  BY <1>5, <1>6, <1>7

LEMMA StoreSizeIInv ==
  ASSUME IInv, NEW size \in Int \cup {None}, StoreSize(size),
         dialog \in {"sizemenu", "sizeinput"},
         size # None => size_accepted(size, max_root_gb(disks))
  PROVE  IInv'
<1> USE DEF IInv, TypeOK
<1>1. outcome = "asking" /\ index = 2 /\ plan = None
  BY DEF InStep, StepOf
<1>2. /\ index' = 3 /\ dialog' = "bitmap" /\ root_size_gb' = size
      /\ fresh' = (fresh \ {"bitmap"}) \cup {"size"}
      /\ UNCHANGED <<media, targets, chosen, disks, raid_level, bitmap,
                      outcome, plan, vouched>>
  BY FirstDialog DEF StoreSize, Enter
<1>3. TypeOK' /\ InStep'
  BY <1>1, <1>2 DEF Dialogs, InStep, StepOf
<1>4. DisksChecked' /\ PlanFits'
  BY <1>1, <1>2 DEF DisksChecked, PlanFits
<1>5. RaidFits' /\ SizeFits' /\ AllAsked'
  BY <1>1, <1>2 DEF RaidFits, SizeFits, AllAsked
<1>. QED  BY <1>3, <1>4, <1>5

LEMMA SizeIInv ==
  ASSUME IInv, SizeMax \/ SizeCustom \/ (\E value \in Typed : SizeTyped(value))
  PROVE  IInv'
<1>1. CASE SizeMax
  BY <1>1, StoreSizeIInv DEF SizeMax
<1>2. CASE SizeCustom
  <2>1. outcome = "asking" /\ index = 2 /\ plan = None
    BY <1>2 DEF SizeCustom, IInv, TypeOK, InStep, StepOf
  <2>2. /\ dialog' = "sizeinput"
        /\ UNCHANGED <<media, targets, index, chosen, disks, raid_level,
                        root_size_gb, bitmap, outcome, plan, fresh, vouched>>
    BY <1>2 DEF SizeCustom, answers
  <2>3. TypeOK' /\ InStep'
    BY <2>1, <2>2 DEF IInv, TypeOK, Dialogs, InStep, StepOf
  <2>4. DisksChecked' /\ RaidFits' /\ AllAsked' /\ PlanFits'
    BY <2>1, <2>2 DEF IInv, DisksChecked, RaidFits, AllAsked, PlanFits
  <2>5. SizeFits'
    BY <1>2, <2>1, <2>2 DEF IInv, SizeFits, SizeCustom
  <2>. QED  BY <2>3, <2>4, <2>5 DEF IInv
<1>3. ASSUME NEW value \in Typed, SizeTyped(value)
      PROVE  IInv'
  BY <1>3, StoreSizeIInv DEF SizeTyped, size_accepted
<1>. QED  BY <1>1, <1>2, <1>3

LEMMA BitmapIInv ==
  ASSUME IInv, NEW mode \in BitmapModes, Bitmap(mode)
  PROVE  IInv'
<1>1. outcome = "asking" /\ index = 3 /\ plan = None
  BY DEF Bitmap, IInv, TypeOK, InStep, StepOf
<1>2. /\ index' = 4 /\ dialog' = "confirm" /\ bitmap' = mode
      /\ fresh' = fresh \cup {"bitmap"}
      /\ UNCHANGED <<media, targets, chosen, disks, raid_level, root_size_gb,
                      outcome, plan, vouched>>
  BY FirstDialog DEF Bitmap, Enter
<1>3. TypeOK' /\ InStep'
  BY <1>1, <1>2 DEF IInv, TypeOK, Dialogs, InStep, StepOf
<1>4. DisksChecked' /\ RaidFits' /\ SizeFits' /\ AllAsked' /\ PlanFits'
  BY <1>1, <1>2 DEF IInv, DisksChecked, RaidFits, SizeFits, AllAsked, PlanFits
<1>. QED  BY <1>3, <1>4 DEF IInv

\* Back re-enters the step before, whose first dialog the answers already fit.
LEMMA BackIInv ==
  ASSUME IInv, Back
  PROVE  IInv'
<1>1. outcome = "asking" /\ index \in 1 .. 4 /\ plan = None
  BY DEF Back, AllowBack, IInv, TypeOK, InStep, StepOf
<1>2. /\ index' = index - 1 /\ dialog' = first_dialog(index - 1, disks)
      /\ UNCHANGED <<media, targets, chosen, disks, raid_level, root_size_gb,
                      bitmap, outcome, plan, fresh, vouched>>
  BY DEF Back, Enter, answers
<1>3. disks # {} /\ disks \in SUBSET Disk
  BY <1>1 DEF IInv, TypeOK, AllAsked
<1>4. max_root_gb(disks) \in Int
  BY <1>3, MaxRootFits
<1>5. DisksChecked' /\ PlanFits'
  <2>1. dialog' # "vouch"
    BY <1>1, <1>2, FirstDialog
  <2>. QED  BY <1>1, <1>2, <2>1 DEF IInv, DisksChecked, PlanFits
<1>6. AllAsked'
  BY <1>1, <1>2 DEF IInv, AllAsked
<1>7. CASE index = 1
  <2>1. index' = 0 /\ dialog' = "checklist"
    BY <1>2, <1>7, FirstDialog
  <2>2. TypeOK' /\ InStep'
    BY <1>1, <1>2, <2>1 DEF IInv, TypeOK, Dialogs, InStep, StepOf
  <2>3. RaidFits' /\ SizeFits'
    BY <1>2, <2>1 DEF IInv, RaidFits, SizeFits
  <2>. QED  BY <1>5, <1>6, <2>2, <2>3 DEF IInv
<1>8. CASE index = 2
  <2>1. /\ index' = 1
        /\ dialog' = IF raid_choices(Cardinality(disks)) = {"10"}
                     THEN "raid10" ELSE "raidmenu"
    BY <1>2, <1>8, FirstDialog
  <2>2. TypeOK' /\ InStep'
    BY <1>1, <1>2, <2>1 DEF IInv, TypeOK, Dialogs, InStep, StepOf
  <2>3. RaidFits' /\ SizeFits'
    BY <1>2, <2>1, RaidChoices DEF IInv, RaidFits, SizeFits
  <2>. QED  BY <1>5, <1>6, <2>2, <2>3 DEF IInv
<1>9. CASE index = 3
  <2>1. /\ index' = 2
        /\ dialog' = IF max_root_gb(disks) < 1 THEN "toosmall" ELSE "sizemenu"
    BY <1>2, <1>9, FirstDialog
  <2>2. TypeOK' /\ InStep'
    BY <1>1, <1>2, <2>1 DEF IInv, TypeOK, Dialogs, InStep, StepOf
  <2>3. RaidFits' /\ SizeFits'
    BY <1>2, <1>4, <1>9, <2>1 DEF IInv, RaidFits, SizeFits
  <2>. QED  BY <1>5, <1>6, <2>2, <2>3 DEF IInv
<1>10. CASE index = 4
  <2>1. index' = 3 /\ dialog' = "bitmap"
    BY <1>2, <1>10, FirstDialog
  <2>2. TypeOK' /\ InStep'
    BY <1>1, <1>2, <2>1 DEF IInv, TypeOK, Dialogs, InStep, StepOf
  <2>3. RaidFits' /\ SizeFits'
    BY <1>2, <1>10, <2>1 DEF IInv, RaidFits, SizeFits
  <2>. QED  BY <1>5, <1>6, <2>2, <2>3 DEF IInv
<1>. QED  BY <1>1, <1>7, <1>8, <1>9, <1>10

\* InstallContract reads plan.py as InstallFlow does.
LEMMA SamePlans ==
  /\ Contract!BOOT_PART_GB = 2
  /\ Contract!Plan = Plan
  /\ \A p : Contract!validate(p) <=> validate(p)
<1>1. Contract!BOOT_PART_GB = 2
  BY DEF Contract!BOOT_PART_GB
<1>2. Contract!Plan = Plan
  BY DEF Contract!Plan, Plan, Contract!RaidLevels, RaidLevels,
     Contract!BitmapModes, BitmapModes
<1>3. \A p : Contract!validate(p) <=> validate(p)
  <2>1. \A n : Contract!validate_disk_count(n) <=> validate_disk_count(n)
    BY DEF Contract!validate_disk_count, validate_disk_count,
       Contract!MIN_DISKS, MIN_DISKS, Contract!MAX_DISKS, MAX_DISKS
  <2>2. \A n : Contract!raid_choices(n) = raid_choices(n)
    BY DEF Contract!raid_choices, raid_choices, Contract!RAID10_DISKS, RAID10_DISKS
  <2>3. \A v, m : Contract!size_accepted(v, m) <=> size_accepted(v, m)
    BY DEF Contract!size_accepted, size_accepted
  <2>4. ASSUME NEW p
        PROVE  Contract!validate(p) <=> validate(p)
    <3>1. /\ Contract!validate_disk_count(Cardinality(p.disks))
             <=> validate_disk_count(Cardinality(p.disks))
          /\ p.raid_level \in Contract!raid_choices(Cardinality(p.disks))
             <=> p.raid_level \in raid_choices(Cardinality(p.disks))
          /\ Contract!size_accepted(p.root_size_gb, p.max_root_gb)
             <=> size_accepted(p.root_size_gb, p.max_root_gb)
      BY <2>1, <2>2, <2>3, Zenon
    <3>2. Contract!Cardinality(p.disks) = Cardinality(p.disks)
      BY DEF Contract!Cardinality, Cardinality
    <3>. QED  BY <3>1, <3>2, Zenon DEF Contract!validate, validate
  <2>. QED  BY <2>4
<1>. QED  BY <1>1, <1>2, <1>3

\* The answers standing behind the erase question are a plan that may be
\* delivered; in particular validate() does not raise.
LEMMA PlanIsDeliverable ==
  ASSUME IInv, dialog = "confirm"
  PROVE  to_plan \in Contract!Deliverable /\ validate(to_plan)
<1>1. outcome = "asking" /\ index = 4
  BY DEF IInv, TypeOK, InStep, StepOf
<1>2. disks # {} /\ disks \in SUBSET Disk
  BY <1>1 DEF IInv, TypeOK, AllAsked
<1>3. /\ max_root_gb(disks) \in Int /\ max_root_gb(disks) >= 1
      /\ \A d \in disks : max_root_gb(disks) + 2 <= Size[d]
  BY <1>1, <1>2, MaxRootFits DEF IInv, SizeFits, BOOT_PART_GB
<1>4. /\ raid_level \in RaidLevels
      /\ raid_level \in raid_choices(Cardinality(disks))
  BY <1>1 DEF IInv, RaidFits
<1>5. /\ root_size_gb \in Int \cup {None}
      /\ root_size_gb # None => size_accepted(root_size_gb, max_root_gb(disks))
  BY <1>1 DEF IInv, TypeOK, SizeFits
<1>6. to_plan \in Plan
  BY <1>2, <1>3, <1>4, <1>5 DEF to_plan, Plan, IInv, TypeOK
<1>7. validate(to_plan)
  BY <1>2, <1>4, <1>5 DEF to_plan, validate, IInv, DisksChecked
<1>8. ASSUME NEW d \in disks
      PROVE  Contract!HasRoom(d, root_size_gb)
  <2>1. Size[d] \in Nat /\ max_root_gb(disks) + 2 <= Size[d]
    BY <1>2, <1>3, SizeAssumption
  <2>2. CASE root_size_gb = None
    BY <1>3, <2>1, <2>2, SamePlans DEF Contract!HasRoom
  <2>3. CASE root_size_gb # None
    BY <1>3, <1>5, <2>1, <2>3, SamePlans DEF Contract!HasRoom, size_accepted
  <2>. QED  BY <2>2, <2>3
<1>9. /\ disks \subseteq targets /\ media \notin disks
      /\ media = None => vouched = disks
  BY DEF IInv, TypeOK, DisksChecked
<1>10. to_plan.disks = disks /\ to_plan.root_size_gb = root_size_gb
  BY DEF to_plan
<1>11. to_plan \in Contract!Deliverable
  BY <1>6, <1>7, <1>8, <1>9, <1>10, SamePlans DEF Contract!Deliverable
<1>. QED  BY <1>7, <1>11

LEMMA ConfirmIInv ==
  ASSUME IInv, Confirm
  PROVE  /\ IInv'
         /\ plan' \in Contract!Deliverable /\ outcome = "asking" /\ outcome' = "planned"
<1>1. /\ outcome = "asking" /\ index = 4
      /\ disks # {}
  BY DEF Confirm, IInv, TypeOK, InStep, StepOf, AllAsked
<1>2. to_plan \in Contract!Deliverable /\ validate(to_plan)
  BY PlanIsDeliverable DEF Confirm
<1>3. /\ index' = 5 /\ dialog' = "none" /\ plan' = to_plan /\ outcome' = "planned"
      /\ UNCHANGED <<media, targets, chosen, disks, raid_level, root_size_gb,
                      bitmap, fresh, vouched>>
  BY <1>2 DEF Confirm, answers
<1>4. plan' \in Plan
  BY <1>2, <1>3, SamePlans DEF Contract!Deliverable
<1>5. TypeOK'
  BY <1>3, <1>4 DEF IInv, TypeOK, Dialogs
<1>6. InStep' /\ DisksChecked'
  BY <1>3 DEF IInv, InStep, StepOf, DisksChecked
<1>7. RaidFits' /\ SizeFits' /\ AllAsked'
  BY <1>1, <1>3 DEF IInv, RaidFits, SizeFits, AllAsked
<1>8. plan' \in Contract!Deliverable'
  BY <1>2, <1>3 DEF Contract!Deliverable, Contract!HasRoom
<1>9. PlanFits'
  BY <1>3, <1>8 DEF PlanFits
<1>. QED  BY <1>1, <1>2, <1>3, <1>5, <1>6, <1>7, <1>9 DEF IInv

LEMMA CancelIInv ==
  ASSUME IInv, Cancel
  PROVE  IInv'
<1>1. /\ outcome = "asking" /\ plan = None
      /\ dialog' = "none" /\ outcome' = "cancelled"
      /\ UNCHANGED <<media, targets, index, chosen, disks, raid_level,
                      root_size_gb, bitmap, plan, fresh, vouched>>
  BY DEF Cancel, IInv, InStep, answers
<1>2. TypeOK' /\ InStep' /\ DisksChecked'
  BY <1>1 DEF IInv, TypeOK, Dialogs, InStep, DisksChecked
<1>3. RaidFits' /\ SizeFits' /\ AllAsked' /\ PlanFits'
  BY <1>1 DEF IInv, RaidFits, SizeFits, AllAsked, PlanFits
<1>. QED  BY <1>2, <1>3 DEF IInv

LEMMA NextIInv == IInv /\ [Next]_vars => IInv'
<1> SUFFICES ASSUME IInv, [Next]_vars
             PROVE  IInv'
  OBVIOUS
<1>1. ASSUME NEW ticked \in SUBSET targets, Checklist(ticked)
      PROVE  IInv'
  BY <1>1, ChecklistIInv
<1>2. CASE Refused \/ VouchNo
  BY <1>2, AskAgainIInv
<1>3. CASE VouchYes
  BY <1>3, VouchYesIInv
<1>4. ASSUME NEW level \in RaidLevels, Raid(level)
      PROVE  IInv'
  BY <1>4, RaidIInv
<1>5. CASE SizeMax \/ SizeCustom \/ (\E value \in Typed : SizeTyped(value))
  BY <1>5, SizeIInv
<1>6. ASSUME NEW mode \in BitmapModes, Bitmap(mode)
      PROVE  IInv'
  BY <1>6, BitmapIInv
<1>7. CASE Back
  BY <1>7, BackIInv
<1>8. CASE Confirm
  BY <1>8, ConfirmIInv
<1>9. CASE Cancel
  BY <1>9, CancelIInv
<1>10. CASE UNCHANGED vars
  BY <1>10 DEF vars, answers, IInv, TypeOK, InStep, DisksChecked, RaidFits,
     SizeFits, AllAsked, PlanFits, Contract!Deliverable, Contract!HasRoom
<1>. QED
  BY <1>1, <1>2, <1>3, <1>4, <1>5, <1>6, <1>7, <1>8, <1>9, <1>10 DEF Next

LEMMA Inductive == Spec => []IInv
BY InitIInv, NextIInv, PTL DEF Spec

-----------------------------------------------------------------------------
\* The variables keep their types, for every set of disks and every text the
\* operator may type.
THEOREM TypeCorrect == Spec => []TypeOK
<1>1. IInv => TypeOK
  BY DEF IInv
<1>. QED  BY <1>1, Inductive, PTL

\* plan.validate() at the end of collect_plan() never raises PlanError,
\* whatever was answered, taken back and answered again.
THEOREM PlanAlwaysValid == Spec => []NeverRaises
<1>1. IInv => NeverRaises
  BY DEF IInv, PlanFits, NeverRaises
<1>. QED  BY <1>1, Inductive, PTL

\* The identified boot media is never in a plan, whatever list of targets the
\* caller passes.
THEOREM BootMediaNeverPlanned == Spec => []BootMediaSpared
<1>1. IInv => BootMediaSpared
  BY DEF IInv, PlanFits, BootMediaSpared, Contract!Deliverable
<1>. QED  BY <1>1, Inductive, PTL

\* Without an identity a plan erases exactly what the operator vouched for.
THEOREM PlanIsVouchedFor == Spec => []VouchedFor
<1>1. IInv => VouchedFor
  BY DEF IInv, PlanFits, VouchedFor, Contract!Deliverable
<1>. QED  BY <1>1, Inductive, PTL

\* Every disk of a plan has room for BOOT and ROOT.
THEOREM PlanHasRoom == Spec => []RoomForRoot
<1>1. IInv => RoomForRoot
  BY SamePlans DEF IInv, PlanFits, RoomForRoot, Contract!Deliverable,
     Contract!HasRoom, BOOT_PART_GB
<1>. QED  BY <1>1, Inductive, PTL

\* No answer behind the erase question is older than what it was about.
THEOREM NothingStaleConfirmed == Spec => []NothingStale
<1>1. IInv => NothingStale
  BY DEF IInv, TypeOK, InStep, StepOf, AllAsked, NothingStale
<1>. QED  BY <1>1, Inductive, PTL

\* The question sequence implements InstallContract: every step delivers a plan
\* that may be delivered, vouches, gives up, or is invisible outside.
THEOREM FlowImplementsContract == Spec => ContractSpec
<1>1. Init => Contract!CInit
  BY InventoriesAssumption DEF Init, Contract!CInit, list_targets
<1>2. IInv /\ [Next]_vars => [Contract!CNext]_(Contract!cvars)
  <2> SUFFICES ASSUME IInv, [Next]_vars
               PROVE  Contract!CNext \/ UNCHANGED Contract!cvars
    OBVIOUS
  <2>1. ASSUME NEW ticked \in SUBSET targets, Checklist(ticked)
        PROVE  UNCHANGED Contract!cvars
    BY <2>1 DEF Checklist, Contract!cvars
  <2>2. CASE Refused \/ VouchNo
    BY <2>2 DEF Refused, VouchNo, Contract!cvars
  <2>3. CASE VouchYes
    BY <2>3 DEF VouchYes, Contract!CNext, Contract!Vouch, IInv, TypeOK, InStep,
       DisksChecked
  <2>4. ASSUME NEW level \in RaidLevels, Raid(level)
        PROVE  UNCHANGED Contract!cvars
    BY <2>4 DEF Raid, Contract!cvars
  <2>5. CASE SizeMax \/ SizeCustom \/ (\E value \in Typed : SizeTyped(value))
    BY <2>5 DEF SizeMax, SizeCustom, SizeTyped, StoreSize, Contract!cvars
  <2>6. ASSUME NEW mode \in BitmapModes, Bitmap(mode)
        PROVE  UNCHANGED Contract!cvars
    BY <2>6 DEF Bitmap, Contract!cvars
  <2>7. CASE Back
    BY <2>7 DEF Back, Contract!cvars
  <2>8. CASE Confirm
    BY <2>8, ConfirmIInv DEF Confirm, Contract!CNext, Contract!Deliver
  <2>9. CASE Cancel
    BY <2>9 DEF Cancel, Contract!CNext, Contract!GiveUp
  <2>10. CASE UNCHANGED vars
    BY <2>10 DEF vars, Contract!cvars
  <2>. QED
    BY <2>1, <2>2, <2>3, <2>4, <2>5, <2>6, <2>7, <2>8, <2>9, <2>10 DEF Next
<1>. QED  BY <1>1, <1>2, Inductive, PTL DEF Spec, ContractSpec, Contract!CSpec
==============================================================================
