---------------------------- MODULE MediaIdentity ----------------------------
(***************************************************************************)
(* Which disk did the installer boot from?  installer-bootlog asks first,  *)
(* then a wizard (the Python one with its own search, storage.py, or       *)
(* wizard.sh), then setup.sh before it erases anything.  They share        *)
(* media.sh and the identity file in /run.  One of them runs at a time,    *)
(* while slow USB devices keep appearing; an interrupted one may leave the *)
(* identity file unfinished.                                               *)
(*                                                                         *)
(* A disk carries one volume, which is the disk itself or its partition.   *)
(***************************************************************************)
EXTENDS Naturals, Sequences, FiniteSets

CONSTANTS
    Disk,           \* the block devices
    boot,           \* the one the installer was booted from
    None,
    Worlds,         \* the machines, see World
    UUID_WAIT,      \* INSTALLER_UUID_WAIT and UuidWait.timeout, in polls
    MaxRuns         \* bound: the starts of a wizard

\* A machine: the disks that hold installer files, those whose file system has
\* the UUID of the kernel command line (none: no installer.uuid there), those
\* mounted, removable, without a partition table, fit to be written, late to
\* appear, and the kind of each volume's file system: "fat", "blank" when lsblk
\* reports none, or "never" for all that is not to be mounted.
World == [payload : SUBSET Disk, carriers : SUBSET Disk, mounted : SUBSET Disk,
          removable : SUBSET Disk, whole : SUBSET Disk, fit : SUBSET Disk,
          late : SUBSET Disk, kind : [Disk -> {"fat", "blank", "never"}]]

ASSUME BootAssumption == boot \in Disk /\ None \notin Disk
ASSUME WorldsAssumption == Worlds \subseteq World
ASSUME BoundsAssumption == UUID_WAIT \in Nat /\ MaxRuns \in Nat \ {0}

\* Device names, and installer_parent_disk().
Name == [disk : Disk, part : {0, 1}]
WholeDisk(d) == [disk |-> d, part |-> 0]
parent_disk(n) == WholeDisk(n.disk)

Identity == [part : Name, disk : Name]

\* The lines a file may hold.
Lines == {<<>>} \cup {<<n>> : n \in Name} \cup (Name \X Name)

ASSUME NoneAssumption == None \notin Identity \cup Lines

VARIABLES
    world,
    present,    \* the devices in /dev
    id_file,    \* the lines of /run/installer-media-id, None: no file
    stage,      \* who is at work
    at,         \* the step of the Python search
    devices,    \* the devices the Python search read last
    sh,         \* the step of media.sh
    identity,   \* INSTALLER_PART and INSTALLER_DISK, or None
    polls,      \* the polls for the UUID so far
    media,      \* what the wizard takes for the boot media, or None
    targets,    \* the disks it offers
    selected,   \* the disks the operator chose
    runs

vars == <<world, present, id_file, stage, at, devices, sh, identity, polls,
          media, targets, selected, runs>>
wizard == <<media, targets, selected, runs>>

\* The volume of disk d, which is what mount and blkid name.
Volume(d) == IF d \in world.whole THEN WholeDisk(d) ELSE [disk |-> d, part |-> 1]
Found(d) == [part |-> Volume(d), disk |-> WholeDisk(d)]

\* The launcher starts one of the two wizards.  lsblk may fail in _Finder().
StartWizard ==
    /\ \/ stage' = "finder" /\ at' = "id_file" /\ sh' = "idle"
          /\ devices' \in {present, {}}
       \/ stage' = "wizard.sh" /\ at' = "none" /\ sh' = "load" /\ devices' = {}
    /\ identity' = None /\ polls' = 0
    /\ media' = None /\ targets' = {} /\ selected' = {}

\* The wizard or setup.sh is over, the disks are untouched.
Over ==
    /\ stage' = "over" /\ sh' = "idle"
    /\ UNCHANGED <<world, present, id_file, at, devices, identity, polls, wizard>>

Init ==
    /\ world \in Worlds
    /\ present = Disk \ world.late
    /\ id_file = None
    /\ stage = "bootlog" /\ at = "none" /\ devices = {}
    /\ sh = "load" /\ identity = None /\ polls = 0
    /\ media = None /\ targets = {} /\ selected = {}
    /\ runs = 1

\* A slow bridge: the kernel finds another disk.
Appear(d) ==
    /\ d \in Disk \ present
    /\ present' = present \cup {d}
    /\ UNCHANGED <<world, id_file, stage, at, devices, sh, identity, polls, wizard>>

-----------------------------------------------------------------------------
(* media.sh: installer_discover                                            *)

shell == <<world, present, stage, at, devices, wizard>>

\* Mutant of LoadedIdentity: without its DISK line the file does not count.
LoadedWhenComplete ==
    IF id_file = None \/ Len(id_file) < 2 THEN None
    ELSE [part |-> id_file[1], disk |-> id_file[2]]

\* installer_load_identity(): a file without DISK line names the parent of PART.
LoadedIdentity ==
    IF id_file \in {None, <<>>} THEN None
    ELSE IF id_file[1].disk \notin present THEN None
    ELSE [part |-> id_file[1],
          disk |-> IF Len(id_file) = 2 THEN id_file[2] ELSE parent_disk(id_file[1])]

Load ==
    /\ sh = "load"
    /\ identity' = LoadedIdentity
    /\ sh' = IF identity' # None THEN "found" ELSE "mounted"
    /\ UNCHANGED <<id_file, polls, shell>>

\* installer_accept_part(): the variables are set, then the file is written.
Accept(d) ==
    /\ identity' = Found(d)
    /\ sh' = "open"
    /\ UNCHANGED <<id_file, polls, shell>>

\* The mounted volumes that hold installer files.
MountedPayload(S) == S \cap world.mounted \cap world.payload

scan_mounted ==
    /\ sh = "mounted"
    /\ \/ \E d \in MountedPayload(present) : Accept(d)
       \/ /\ MountedPayload(present) = {}
          /\ sh' = "uuid"
          /\ UNCHANGED <<identity, id_file, polls, shell>>

\* The Python wizard has done the waiting itself and sets INSTALLER_UUID_WAIT=0.
Tries == IF stage = "finder" THEN 0 ELSE UUID_WAIT

\* Mutant of identify_by_uuid: one poll too many.
PollsOnce ==
    /\ sh = "uuid"
    /\ \/ \E d \in present \cap world.carriers : Accept(d)
       \/ /\ present \cap world.carriers = {}
          /\ IF world.carriers # {} /\ polls <= Tries
             THEN polls' = polls + 1 /\ UNCHANGED sh
             ELSE sh' = "probe" /\ UNCHANGED polls
          /\ UNCHANGED <<identity, id_file, shell>>

identify_by_uuid ==
    /\ sh = "uuid"
    /\ \/ \E d \in present \cap world.carriers : Accept(d)
       \/ /\ present \cap world.carriers = {}
          /\ IF world.carriers # {} /\ polls < Tries
             THEN polls' = polls + 1 /\ UNCHANGED sh
             ELSE sh' = "probe" /\ UNCHANGED polls
          /\ UNCHANGED <<identity, id_file, shell>>

\* The order in which volumes are mounted to look into them.
Rank(d) ==
    CASE world.kind[d] = "fat"   -> IF d \in world.removable THEN 1 ELSE 2
      [] world.kind[d] = "blank" /\ d \notin world.whole ->
             IF d \in world.removable THEN 3 ELSE 4
      [] OTHER -> 5

Candidates == {d \in present \ world.mounted : Rank(d) < 5}

\* installer_probe_part() for one candidate after the other; a mount may fail.
probe_parts ==
    /\ sh = "probe"
    /\ \E mountable \in SUBSET Candidates :
         LET hits == mountable \cap world.payload IN
         \/ \E d \in hits : (\A e \in hits : Rank(d) <= Rank(e)) /\ Accept(d)
         \/ /\ hits = {}
            /\ sh' = "lost"
            /\ UNCHANGED <<identity, id_file, polls, shell>>

\* installer_save_identity(): the redirection empties the file, then one write
\* for each line.
Save(now, next, text) ==
    /\ sh = now
    /\ id_file' = text
    /\ sh' = next
    /\ UNCHANGED <<identity, polls, shell>>

\* Mutant of SaveIdentity: the DISK line is the name of the volume.
SavePartTwice ==
    \/ Save("open", "part", <<>>)
    \/ Save("part", "disk", <<identity.part>>)
    \/ Save("disk", "found", <<identity.part, identity.part>>)

SaveIdentity ==
    \/ Save("open", "part", <<>>)
    \/ Save("part", "disk", <<identity.part>>)
    \/ Save("disk", "found", <<identity.part, identity.disk>>)

\* /run is full: no file, or an empty one.  The callers do not notice: every
\* search that accepted a volume returns 0.
SaveFails ==
    /\ sh \in {"open", "part"}
    /\ sh' = "found"
    /\ UNCHANGED <<identity, id_file, polls, shell>>

discover ==
    \/ Load \/ scan_mounted \/ identify_by_uuid \/ probe_parts
    \/ SaveIdentity \/ SaveFails

-----------------------------------------------------------------------------
(* storage.py: find_media() and list_targets()                             *)

finder == <<world, present, id_file, identity, selected, runs>>

\* read_devices(): lsblk may fail, then the list is empty.
Read(reading) == reading \in {present, {}}

\* list_targets(): the disks that are fit and do not bear the media's name.
list_targets(devs, m) ==
    {d \in devs \cap world.fit : m = None \/ m.disk # WholeDisk(d)}

\* find_media() returns m, and the disks are listed.
Finish(m, devs) ==
    /\ media' = m
    /\ devices' = devs
    /\ targets' = list_targets(devs, m)
    /\ stage' = "asking" /\ at' = "none" /\ sh' = "idle"
    /\ UNCHANGED <<finder, polls>>

Goto(step) ==
    /\ at' = step
    /\ UNCHANGED <<finder, stage, media, targets>>

\* read_id_file(): a file without DISK line names PART as the disk.
ReadIdFile ==
    IF id_file \in {None, <<>>} THEN None
    ELSE [part |-> id_file[1], disk |-> id_file[Len(id_file)]]

by_id_file ==
    /\ stage = "finder" /\ at = "id_file"
    /\ IF ReadIdFile # None /\ ReadIdFile.disk.disk \in devices
       THEN Finish(ReadIdFile, devices)
       ELSE Goto("uuid") /\ UNCHANGED <<devices, sh, polls>>

\* Mutant of by_uuid: the deadline is never reached.
WaitForever ==
    /\ stage = "finder" /\ at = "uuid"
    /\ \/ \E d \in devices \cap world.carriers : Finish(Found(d), devices)
       \/ /\ devices \cap world.carriers = {}
          /\ IF world.carriers # {}
             THEN Read(devices') /\ UNCHANGED <<at, polls>>
             ELSE at' = "mounts" /\ UNCHANGED <<devices, polls>>
          /\ UNCHANGED <<finder, stage, media, targets, sh>>

by_uuid ==
    /\ stage = "finder" /\ at = "uuid"
    /\ \/ \E d \in devices \cap world.carriers : Finish(Found(d), devices)
       \/ /\ devices \cap world.carriers = {}
          /\ IF world.carriers # {} /\ polls < UUID_WAIT
             THEN polls' = polls + 1 /\ Read(devices') /\ UNCHANGED at
             ELSE at' = "mounts" /\ UNCHANGED <<devices, polls>>
          /\ UNCHANGED <<finder, stage, media, targets, sh>>

by_mounts ==
    /\ stage = "finder" /\ at = "mounts"
    /\ \/ \E d \in MountedPayload(devices) : Finish(Found(d), devices)
       \/ /\ MountedPayload(devices) = {}
          /\ Goto("probe")
          /\ sh' = "load"
          /\ UNCHANGED <<devices, polls>>

\* by_probe(): media.sh has returned.  installer_print_identity() reads its
\* answer back from the file, so an identity that was not saved is lost.
by_probe ==
    /\ stage = "finder" /\ at = "probe" /\ sh \in {"found", "lost"}
    /\ \E devs \in {present, {}} :
         LET answer == IF sh = "found" THEN LoadedIdentity ELSE None IN
         IF answer = None THEN Finish(None, devices)
         ELSE IF answer.disk.disk \in devs THEN Finish(answer, devs)
         ELSE Finish(None, devs)

\* PROBE_TIMEOUT: bash is killed where it stands, the answer is None.
ProbeTimeout ==
    /\ stage = "finder" /\ at = "probe" /\ sh \notin {"found", "lost"}
    /\ Finish(None, devices)

find_media == by_id_file \/ by_uuid \/ by_mounts \/ by_probe

-----------------------------------------------------------------------------
(* The callers                                                             *)

\* installer-bootlog is done, with or without an identity; installer-wizard is
\* ordered after it.
BootlogDone ==
    /\ stage = "bootlog" /\ sh \in {"found", "lost"}
    /\ StartWizard
    /\ UNCHANGED <<world, present, id_file, runs>>

\* wizard.sh lists the disks: installer_is_target_disk() loads the file again
\* for every disk, so an identity that was not saved is lost here as well.
WizardShLists ==
    /\ stage = "wizard.sh" /\ sh \in {"found", "lost"}
    /\ media' = IF sh = "found" THEN identity ELSE None
    /\ identity' = LoadedIdentity
    /\ targets' = list_targets(present, identity')
    /\ stage' = "asking" /\ sh' = "idle"
    /\ UNCHANGED <<world, present, id_file, at, devices, polls, selected, runs>>

\* The operator selects disks and confirms; setup.sh starts and searches.
Select ==
    /\ stage = "asking"
    /\ selected' \in {S \in SUBSET targets : Cardinality(S) \in 2..4}
    /\ stage' = "guard" /\ sh' = "load" /\ identity' = None /\ polls' = 0
    /\ UNCHANGED <<world, present, id_file, at, devices, media, targets, runs>>

\* Mutant of Guard: the disks are compared with the answer of the wizard.
GuardTrustsWizard ==
    /\ stage = "guard" /\ sh \in {"found", "lost"}
    /\ \A d \in selected : media # None => media.disk # WholeDisk(d)
    /\ stage' = "wiping" /\ sh' = "idle"
    /\ UNCHANGED <<world, present, id_file, at, devices, identity, polls, wizard>>

\* No selected disk is the boot media, or the search of setup.sh failed and it
\* goes on with the list of the wizard.
Guard ==
    /\ stage = "guard" /\ sh \in {"found", "lost"}
    /\ sh = "found" => \A d \in selected : identity.disk # WholeDisk(d)
    /\ stage' = "wiping" /\ sh' = "idle"
    /\ UNCHANGED <<world, present, id_file, at, devices, identity, polls, wizard>>

\* setup.sh refuses the selection.
Refuse ==
    /\ stage = "guard" /\ sh = "found"
    /\ \E d \in selected : identity.disk = WholeDisk(d)
    /\ Over

\* The operator leaves the wizard, or interrupts a wizard or setup.sh: whatever
\* media.sh was doing stops where it is.
Interrupt ==
    /\ stage \in {"finder", "wizard.sh", "asking", "guard"}
    /\ Over

\* The console session starts the next wizard.
StartAgain ==
    /\ stage = "over"
    /\ runs < MaxRuns
    /\ runs' = runs + 1
    /\ StartWizard
    /\ UNCHANGED <<world, present, id_file>>

Program ==
    \/ (stage \in {"bootlog", "wizard.sh", "guard"} \/ at = "probe") /\ discover
    \/ find_media \/ BootlogDone \/ WizardShLists \/ Guard \/ Refuse

Next ==
    \/ Program \/ ProbeTimeout \/ Select \/ Interrupt \/ StartAgain
    \/ \E d \in Disk : Appear(d)

\* The programs run; nothing is asked of the operator, of the disks or of the
\* interruptions.
Spec == Init /\ [][Next]_vars /\ WF_vars(Program)

-----------------------------------------------------------------------------
TypeOK ==
    /\ world \in Worlds
    /\ present \in SUBSET Disk
    /\ id_file \in Lines \cup {None}
    /\ stage \in {"bootlog", "finder", "wizard.sh", "asking", "guard", "over",
                  "wiping"}
    /\ at \in {"none", "id_file", "uuid", "mounts", "probe"}
    /\ devices \in SUBSET Disk
    /\ sh \in {"idle", "load", "mounted", "uuid", "probe", "open", "part", "disk",
               "found", "lost"}
    /\ identity \in Identity \cup {None}
    /\ polls \in 0..UUID_WAIT
    /\ media \in Identity \cup {None}
    /\ targets \in SUBSET Disk
    /\ selected \in SUBSET Disk
    /\ runs \in 1..MaxRuns

\* One volume with installer files is plugged in, and no copy of its UUID.
OneVolume == world.payload = {boot} /\ world.carriers \subseteq {boot}

\* With installer.uuid on the kernel command line setup.sh never erases the
\* disk it was booted from, whatever the wizards took for the boot media: after
\* late disks, a failing lsblk, a full /run and interrupted searches.
BootDiskSpared ==
    stage = "wiping" /\ OneVolume /\ world.carriers = {boot} => boot \notin selected

\* A wizard that has identified the boot media offers its disk only when the
\* identity file is unfinished (storage.py: "must never be offered as a RAID
\* member").
OfferedByTornFile ==
    stage = "asking" /\ OneVolume /\ boot \in targets
        => media = None \/ id_file = None \/ Len(id_file) < 2

\* Every search ends, also when the UUID never appears.
Searching == stage \in {"bootlog", "finder", "wizard.sh", "guard"}
SearchEnds == []<>~Searching

\* The disk named in the identity file.
Known == IF id_file \in {None, <<>>} THEN None ELSE id_file[1].disk

\* The searches keep what BootIdentity promises.
Abstract == INSTANCE BootIdentity
            WITH known <- Known,
                 wiped <- IF stage = "wiping" THEN selected ELSE {}
KnownOnce == Abstract!BSpec
==============================================================================
