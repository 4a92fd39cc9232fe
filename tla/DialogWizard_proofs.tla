------------------------- MODULE DialogWizard_proofs -------------------------
(***************************************************************************)
(* What wizard.sh hands to setup.sh, for any disks, any boot media and any *)
(* answers, those of cancelled dialogs included.                           *)
(***************************************************************************)
EXTENDS DialogWizard, TLAPS

\* The dialogs that follow the checklist, and those that follow the RAID level.
AfterDisks == at \in {"raid", "size", "rootsize", "bitmap", "confirm"} \/ outcome = "setup"
AfterRaid == at \in {"size", "rootsize", "bitmap", "confirm"} \/ outcome = "setup"

\* The boot media is not in the checklist, and the script that has ended asks
\* nothing more.
Settled ==
    /\ media \notin targets
    /\ outcome # "asking" => at = "none"

\* After the checklist the number of disks is a RAID's, ...
DisksFit ==
    /\ AfterDisks => validate_disk_count(Cardinality(disks))
    /\ at = "raid" => Cardinality(disks) # RAID10_DISKS

\* ... and after the RAID level, unless that was cancelled, the level fits.
LevelFits ==
    AfterRaid /\ "raid" \notin cancelled => raid_level \in raid_choices(Cardinality(disks))

IInv == TypeOK /\ Settled /\ DisksFit /\ LevelFits

LEMMA Initially == Init => IInv
BY InventoriesAssumption
   DEF Init, IInv, TypeOK, Settled, DisksFit, LevelFits, AfterDisks, AfterRaid,
       Captured, BitmapModes

\* The checklist is the step that binds the disks, and the level of four.
LEMMA ChecklistStep ==
    ASSUME IInv, NEW D \in SUBSET targets, Checklist(D)
    PROVE  IInv'
<1> USE DEF IInv, Settled, AfterDisks, AfterRaid
<1>1. TypeOK' /\ Settled'
  BY DEF Checklist, TypeOK, Captured, RaidLevels
<1>2. DisksFit'
  BY DEF Checklist, Refuses, DisksFit
<1>3. LevelFits'
  BY DEF Checklist, raid_choices, LevelFits
<1> QED BY <1>1, <1>2, <1>3

LEMMA AnswerStep ==
    ASSUME IInv,
           \/ \E l \in {"1", "0"} : Raid(l)
           \/ \E c \in {"MAX", "CUSTOM"} : StoreSize(c)
           \/ \E v \in Typed : RootSize(v)
           \/ \E mode \in BitmapModes : Bitmap(mode)
           \/ Cancel
    PROVE  IInv'
<1> USE DEF IInv, Settled, DisksFit, LevelFits, AfterDisks, AfterRaid
<1>1. CASE \E l \in {"1", "0"} : Raid(l)
  <2>1. TypeOK'
    BY <1>1 DEF Raid, TypeOK, Captured, RaidLevels
  <2>2. raid_level' \in raid_choices(Cardinality(disks'))
    BY <1>1 DEF Raid, raid_choices
  <2> QED BY <1>1, <2>1, <2>2 DEF Raid
<1>2. CASE \E c \in {"MAX", "CUSTOM"} : StoreSize(c)
  BY <1>2 DEF StoreSize, TypeOK, Captured
<1>3. CASE \E v \in Typed : RootSize(v)
  BY <1>3 DEF RootSize, TypeOK, Captured
<1>4. CASE \E mode \in BitmapModes : Bitmap(mode)
  BY <1>4 DEF Bitmap, TypeOK, Captured
<1>5. CASE Cancel
  BY <1>5 DEF Cancel, TypeOK, Captured
<1> QED BY <1>1, <1>2, <1>3, <1>4, <1>5

LEMMA EndStep ==
    ASSUME IInv, Continue \/ Quit \/ DialogFails \/ Confirm
    PROVE  IInv'
BY DEF IInv, TypeOK, Settled, DisksFit, LevelFits, AfterDisks, AfterRaid, Captured,
       Continue, Quit, DialogFails, Confirm

LEMMA Step == IInv /\ [Next]_vars => IInv'
<1> SUFFICES ASSUME IInv, [Next]_vars PROVE IInv'
  OBVIOUS
<1>1. CASE UNCHANGED vars
  BY <1>1 DEF vars, IInv, TypeOK, Settled, DisksFit, LevelFits, AfterDisks, AfterRaid
<1> QED BY <1>1, ChecklistStep, AnswerStep, EndStep DEF Next

\* Every state of the script satisfies the invariant.
THEOREM Reachable == Spec => []IInv
BY Initially, Step, PTL DEF Spec

\* The variables of the script have their types: a cancelled dialog leaves no
\* value behind but the one word of garbage.
THEOREM TypeCorrect == Spec => []TypeOK
<1>1. IInv => TypeOK
  BY DEF IInv
<1> QED BY <1>1, Reachable, PTL

\* setup.sh gets two to four disks of the checklist and never the boot media,
\* for every machine and every sequence of answers.
THEOREM OnlyTargets == Spec => []WipesTargetsOnly
<1>1. IInv => WipesTargetsOnly
  BY DEF IInv, TypeOK, Settled, DisksFit, AfterDisks, WipesTargetsOnly
<1> QED BY <1>1, Reachable, PTL

\* The RAID level fits the number of disks unless its dialog was cancelled.
THEOREM LevelFitsDisks == Spec => []RaidFitsDisks
<1>1. IInv => RaidFitsDisks
  BY DEF IInv, LevelFits, AfterRaid, RaidFitsDisks
<1> QED BY <1>1, Reachable, PTL
==============================================================================
