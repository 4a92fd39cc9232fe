--------------------------- MODULE InstallContract ---------------------------
(***************************************************************************)
(* What the question sequence promises to the rest of the installer,       *)
(* whatever dialogs it shows and however often the operator goes Back: it  *)
(* ends in a cancellation or in one plan that setup.sh can carry out, and  *)
(* it never ends in an exception.                                          *)
(***************************************************************************)
EXTENDS InstallPlan

VARIABLES
    media,      \* the disk find_media() named as the boot media, or None
    targets,    \* the disks offered
    vouched,    \* the disks the operator last vouched for
    outcome,    \* "asking", "planned" or "cancelled"
    plan        \* the plan, None until outcome = "planned"

cvars == <<media, targets, vouched, outcome, plan>>

\* BOOT and at least 1 GB of ROOT, or the ROOT size asked for, fit on disk d.
HasRoom(d, size) ==
    Size[d] >= BOOT_PART_GB + (IF size = None THEN 1 ELSE size)

\* The plans that may leave the question sequence.
Deliverable ==
    {p \in Plan :
        /\ p.disks \subseteq targets
        /\ media \notin p.disks
        /\ media = None => vouched = p.disks
        /\ \A d \in p.disks : HasRoom(d, p.root_size_gb)
        /\ validate(p)}

CInit ==
    /\ outcome = "asking"
    /\ plan = None
    /\ vouched = {}
    /\ targets \subseteq Disk

\* The operator vouches that none of the disks in D is the boot media.
Vouch ==
    /\ outcome = "asking"
    /\ media = None
    /\ \E D \in SUBSET targets : vouched' = D
    /\ UNCHANGED <<media, targets, outcome, plan>>

Deliver ==
    /\ outcome = "asking"
    /\ plan' \in Deliverable
    /\ outcome' = "planned"
    /\ UNCHANGED <<media, targets, vouched>>

GiveUp ==
    /\ outcome = "asking"
    /\ outcome' = "cancelled"
    /\ UNCHANGED <<media, targets, vouched, plan>>

CNext == Vouch \/ Deliver \/ GiveUp

CSpec == CInit /\ [][CNext]_cvars
==============================================================================
