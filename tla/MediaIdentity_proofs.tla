------------------------- MODULE MediaIdentity_proofs -------------------------
(***************************************************************************)
(* The searches keep what BootIdentity promises, for any machine, any      *)
(* number of wizards and every order in which its disks appear; and none   *)
(* of them takes more steps than the deadline allows.                      *)
(***************************************************************************)
EXTENDS MediaIdentity, TLAPS

USE BootAssumption, WorldsAssumption, BoundsAssumption, NoneAssumption

Named == id_file \notin {None, <<>>}

\* The identity file names a volume that is there, and its disk.
FileSound ==
    Named => /\ id_file[1].disk \in present
             /\ Len(id_file) = 2 => id_file[2] = parent_disk(id_file[1])

\* So do the variables of media.sh.
IdentitySound ==
    identity # None => /\ identity.part.disk \in present
                       /\ identity.disk = parent_disk(identity.part)

\* What the step of media.sh tells about the file and the variables.
StepSound ==
    /\ sh \in {"mounted", "uuid", "probe", "open", "lost"} => ~Named
    /\ sh = "part" => id_file = <<>>
    /\ sh = "disk" => id_file = <<identity.part>>
    /\ sh \in {"open", "part", "disk", "found"} => identity # None
    /\ sh = "found" /\ Named => identity.part.disk = id_file[1].disk
    /\ stage \in {"asking", "over", "wiping"} => sh = "idle"

IInv == TypeOK /\ FileSound /\ IdentitySound /\ StepSound

\* Whatever has been read and found is a name.
LEMMA Names ==
    /\ \A d \in Disk : WholeDisk(d) \in Name
    /\ \A n \in Name : n.disk \in Disk /\ parent_disk(n) \in Name
    /\ \A d \in Disk : Volume(d) \in Name /\ Volume(d).disk = d
    /\ \A d \in Disk : Found(d) \in Identity /\ Found(d).part.disk = d
                       /\ Found(d).disk = parent_disk(Found(d).part)
BY DEF WholeDisk, Name, parent_disk, Volume, Found, Identity

LEMMA FileLines ==
    ASSUME TypeOK, Named
    PROVE  /\ id_file[1] \in Name
           /\ Len(id_file) \in {1, 2}
           /\ Len(id_file) = 2 => id_file[2] \in Name
           /\ id_file[Len(id_file)] \in Name
<1>1. CASE id_file \in {<<n>> : n \in Name}
  BY <1>1
<1>2. CASE id_file \in Name \X Name
  BY <1>2
<1> QED BY <1>1, <1>2 DEF TypeOK, Lines, Named

\* The file is loaded, or there is none.
LEMMA Loaded ==
    ASSUME IInv
    PROVE  /\ Named => /\ LoadedIdentity \in Identity
                       /\ LoadedIdentity.part = id_file[1]
                       /\ LoadedIdentity.disk = parent_disk(id_file[1])
           /\ ~Named => LoadedIdentity = None
BY FileLines, Names DEF IInv, Named, FileSound, LoadedIdentity, Identity

-----------------------------------------------------------------------------
(* The invariant                                                           *)

LEMMA Initially == Init => IInv
BY DEF Init, IInv, TypeOK, FileSound, IdentitySound, StepSound, Named, Lines, World

\* A volume that is there is accepted.
LEMMA AcceptStep ==
    ASSUME IInv, NEW d \in present, Accept(d), ~Named,
           stage \notin {"asking", "over", "wiping"}
    PROVE  IInv'
<1>1. Found(d) \in Identity /\ Found(d).part.disk = d
      /\ Found(d).disk = parent_disk(Found(d).part)
  BY Names DEF IInv, TypeOK
<1> QED BY <1>1 DEF Accept, shell, wizard, IInv, TypeOK, FileSound, IdentitySound, StepSound, Named

\* The identity file is written, or cannot be.
LEMMA SaveStep ==
    ASSUME IInv, SaveIdentity \/ SaveFails
    PROVE  IInv'
<1> USE DEF IInv, StepSound, Save, shell, wizard
<1>0. identity \in Identity /\ identity.part \in Name /\ identity.disk \in Name
      /\ identity.part.disk \in present /\ identity.disk = parent_disk(identity.part)
  BY DEF SaveIdentity, SaveFails, TypeOK, Identity, IdentitySound
<1>1. CASE SaveFails
  BY <1>1 DEF SaveFails, TypeOK, FileSound, IdentitySound, Named
<1>2. CASE Save("open", "part", <<>>)
  BY <1>2 DEF TypeOK, FileSound, IdentitySound, Named, Lines
<1>3. CASE Save("part", "disk", <<identity.part>>)
  <2>1. <<identity.part>> \in Lines /\ <<identity.part>>[1] = identity.part
        /\ Len(<<identity.part>>) = 1
    BY <1>0 DEF Lines
  <2> QED BY <1>0, <1>3, <2>1 DEF TypeOK, FileSound, IdentitySound, Named
<1>4. CASE Save("disk", "found", <<identity.part, identity.disk>>)
  <2>1. <<identity.part, identity.disk>> \in Lines
        /\ <<identity.part, identity.disk>>[1] = identity.part
        /\ <<identity.part, identity.disk>>[2] = identity.disk
    BY <1>0 DEF Lines
  <2> QED BY <1>0, <1>4, <2>1 DEF TypeOK, FileSound, IdentitySound, Named
<1> QED BY <1>1, <1>2, <1>3, <1>4 DEF SaveIdentity

LEMMA DiscoverStep ==
    ASSUME IInv, discover
    PROVE  IInv'
<1>0. sh # "idle" => stage \notin {"asking", "over", "wiping"}
  BY DEF IInv, StepSound
<1>1. CASE Load
  BY <1>0, <1>1, Loaded, FileLines
     DEF Load, shell, wizard, IInv, TypeOK, FileSound, IdentitySound, StepSound, Named
<1>2. CASE scan_mounted
  <2>1. ASSUME NEW d \in MountedPayload(present), Accept(d) PROVE IInv'
    BY <1>0, <1>2, <2>1, AcceptStep DEF scan_mounted, MountedPayload, IInv, StepSound
  <2>2. CASE ~\E d \in MountedPayload(present) : Accept(d)
    BY <1>2, <2>2 DEF scan_mounted, shell, wizard, IInv, TypeOK, FileSound, IdentitySound,
                      StepSound, Named
  <2> QED BY <2>1, <2>2
<1>3. CASE identify_by_uuid
  <2>1. ASSUME NEW d \in present \cap world.carriers, Accept(d) PROVE IInv'
    BY <1>0, <1>3, <2>1, AcceptStep DEF identify_by_uuid, IInv, StepSound
  <2>2. CASE ~\E d \in present \cap world.carriers : Accept(d)
    <3>1. polls' \in 0..UUID_WAIT
      BY <1>3, <2>2 DEF identify_by_uuid, Tries, IInv, TypeOK
    <3> QED BY <1>3, <2>2, <3>1 DEF identify_by_uuid, shell, wizard, IInv, TypeOK, FileSound,
                                    IdentitySound, StepSound, Named
  <2> QED BY <2>1, <2>2
<1>4. CASE probe_parts
  <2>1. ASSUME NEW d \in present, Accept(d) PROVE IInv'
    BY <1>0, <1>4, <2>1, AcceptStep DEF probe_parts, IInv, StepSound
  <2>2. CASE ~\E d \in present : Accept(d)
    BY <1>4, <2>2 DEF probe_parts, Candidates, shell, wizard, IInv, TypeOK, FileSound,
                      IdentitySound, StepSound, Named
  <2> QED BY <2>1, <2>2
<1>5. CASE SaveIdentity \/ SaveFails
  BY <1>5, SaveStep
<1> QED BY <1>1, <1>2, <1>3, <1>4, <1>5 DEF discover

\* The Python search returns an identity of a disk it has seen.
LEMMA FinishStep ==
    ASSUME IInv, NEW m \in Identity \cup {None}, NEW devs \in SUBSET Disk, Finish(m, devs)
    PROVE  IInv'
<1>1. list_targets(devs, m) \in SUBSET Disk
  BY DEF list_targets
<1> QED BY <1>1 DEF Finish, finder, IInv, TypeOK, FileSound, IdentitySound, StepSound, Named

LEMMA FinderStep ==
    ASSUME IInv, find_media \/ ProbeTimeout
    PROVE  IInv'
<1> USE DEF IInv
<1>1. CASE by_id_file
  <2>1. ReadIdFile \in Identity \cup {None}
    BY FileLines DEF ReadIdFile, Named, Identity
  <2>2. CASE Finish(ReadIdFile, devices)
    BY <2>1, <2>2, FinishStep DEF TypeOK
  <2>3. CASE Goto("uuid") /\ UNCHANGED <<devices, sh, polls>>
    BY <2>3 DEF Goto, finder, TypeOK, FileSound, IdentitySound, StepSound, Named
  <2> QED BY <1>1, <2>2, <2>3 DEF by_id_file
<1>2. CASE by_uuid
  <2>1. ASSUME NEW d \in devices, Finish(Found(d), devices) PROVE IInv'
    BY <2>1, FinishStep, Names DEF TypeOK
  <2>2. CASE ~\E d \in devices : Finish(Found(d), devices)
    <3>1. polls' \in 0..UUID_WAIT /\ devices' \in SUBSET Disk /\ at' \in {"mounts", at}
      BY <1>2, <2>2 DEF by_uuid, Read, TypeOK
    <3> QED BY <1>2, <2>2, <3>1 DEF by_uuid, finder, TypeOK, FileSound, IdentitySound,
                                    StepSound, Named
  <2> QED BY <2>1, <2>2
<1>3. CASE by_mounts
  <2>1. ASSUME NEW d \in devices, Finish(Found(d), devices) PROVE IInv'
    BY <2>1, FinishStep, Names DEF TypeOK
  <2>2. CASE ~\E d \in devices : Finish(Found(d), devices)
    BY <1>3, <2>2 DEF by_mounts, MountedPayload, Goto, finder, TypeOK, FileSound,
                      IdentitySound, StepSound, Named
  <2> QED BY <2>1, <2>2
<1>4. CASE by_probe
  <2>1. LoadedIdentity \in Identity \cup {None}
    BY Loaded
  <2>2. {} \in SUBSET Disk /\ present \in SUBSET Disk /\ devices \in SUBSET Disk
    BY DEF TypeOK
  <2> QED BY <1>4, <2>1, <2>2, FinishStep DEF by_probe
<1>5. CASE ProbeTimeout
  BY <1>5, FinishStep DEF ProbeTimeout, TypeOK
<1> QED BY <1>1, <1>2, <1>3, <1>4, <1>5 DEF find_media

\* The callers start a search when another one is over.
LEMMA CallerStep ==
    ASSUME IInv, \/ BootlogDone \/ WizardShLists \/ Guard \/ Refuse \/ Select \/ Interrupt
                 \/ StartAgain
    PROVE  IInv'
<1> USE DEF IInv, TypeOK, FileSound, IdentitySound, StepSound, Named
<1>1. CASE BootlogDone
  BY <1>1 DEF BootlogDone, StartWizard
<1>2. CASE WizardShLists
  <2>1. identity' \in Identity \cup {None} /\ IdentitySound'
    BY <1>2, Loaded, FileLines DEF WizardShLists
  <2>2. targets' \in SUBSET Disk /\ media' \in Identity \cup {None}
    BY <1>2 DEF WizardShLists, list_targets
  <2> QED BY <1>2, <2>1, <2>2 DEF WizardShLists
<1>3. CASE Guard
  BY <1>3 DEF Guard, wizard
<1>4. CASE Refuse \/ Interrupt
  BY <1>4 DEF Refuse, Interrupt, Over, wizard
<1>5. CASE Select
  BY <1>5 DEF Select
<1>6. CASE StartAgain
  BY <1>6 DEF StartAgain, StartWizard
<1> QED BY <1>1, <1>2, <1>3, <1>4, <1>5, <1>6

LEMMA AppearStep ==
    ASSUME IInv, NEW d \in Disk, Appear(d)
    PROVE  IInv'
BY DEF Appear, wizard, IInv, TypeOK, FileSound, IdentitySound, StepSound, Named

LEMMA Step == IInv /\ [Next]_vars => IInv'
<1> SUFFICES ASSUME IInv, [Next]_vars PROVE IInv'
  OBVIOUS
<1>1. CASE UNCHANGED vars
  BY <1>1 DEF vars, IInv, TypeOK, FileSound, IdentitySound, StepSound, Named
<1> QED BY <1>1, DiscoverStep, FinderStep, CallerStep, AppearStep DEF Next, Program

\* Every state a run of the searches can reach satisfies the invariant.
THEOREM Reachable == Spec => []IInv
BY Initially, Step, PTL DEF Spec

\* The variables of the searches have their types: what is read from the file,
\* printed by media.sh and counted by the polls stays in range.
THEOREM TypeCorrect == Spec => []TypeOK
<1>1. IInv => TypeOK
  BY DEF IInv
<1> QED BY <1>1, Reachable, PTL

-----------------------------------------------------------------------------
(* The refinement                                                          *)

Wiped == IF stage = "wiping" THEN selected ELSE {}

LEMMA KnownIsNamed ==
    ASSUME IInv
    PROVE  /\ ~Named => Known = None
           /\ Named => Known = id_file[1].disk /\ Known \in Disk
BY FileLines, Names DEF IInv, Named, Known

\* Only installer_save_identity() changes the name, and only from none.
LEMMA SaveLearns ==
    ASSUME IInv, SaveIdentity
    PROVE  Known' = Known \/ (Known = None /\ Known' \in Disk)
<1>0. identity.part \in Name /\ identity.part.disk \in Disk /\ identity.disk \in Name
  BY DEF SaveIdentity, Save, IInv, TypeOK, StepSound, Identity, Name
<1>1. CASE Save("open", "part", <<>>)
  BY <1>1, KnownIsNamed DEF Save, Known, IInv, StepSound
<1>2. CASE Save("part", "disk", <<identity.part>>)
  <2>1. Known = None
    BY <1>2, KnownIsNamed DEF Save, IInv, StepSound, Named
  <2>2. id_file' = <<identity.part>> /\ id_file' \notin {None, <<>>}
    BY <1>0, <1>2 DEF Save, Lines
  <2>3. Known' = identity.part.disk
    BY <2>2 DEF Known
  <2> QED BY <1>0, <2>1, <2>3
<1>3. CASE Save("disk", "found", <<identity.part, identity.disk>>)
  <2>1. id_file = <<identity.part>> /\ id_file \notin {None, <<>>}
    <3>1. <<identity.part>> \in Lines
      BY <1>0 DEF Lines
    <3> QED BY <1>3, <3>1 DEF Save, IInv, StepSound
  <2>2. <<identity.part, identity.disk>> \in Lines
    BY <1>0 DEF Lines
  <2>3. id_file' = <<identity.part, identity.disk>> /\ id_file' \notin {None, <<>>}
    BY <1>3, <2>2 DEF Save
  <2> QED BY <2>1, <2>3 DEF Known
<1> QED BY <1>1, <1>2, <1>3 DEF SaveIdentity

\* setup.sh goes on with disks that are not the one named.
LEMMA GuardSpares ==
    ASSUME IInv, Guard
    PROVE  selected \subseteq Disk \ {Known}
<1>1. CASE ~Named
  BY <1>1, KnownIsNamed DEF IInv, TypeOK
<1>2. CASE Named
  <2>1. sh = "found"
    BY <1>2 DEF Guard, IInv, StepSound
  <2>2. identity.disk = WholeDisk(Known)
    BY <1>2, <2>1, KnownIsNamed DEF IInv, StepSound, IdentitySound, parent_disk
  <2> QED BY <2>1, <2>2 DEF Guard, IInv, TypeOK
<1> QED BY <1>1, <1>2

\* No other step changes the name or the erased disks.
LEMMA OthersKeep ==
    ASSUME IInv, [Next]_vars, ~SaveIdentity, ~Guard
    PROVE  Known' = Known /\ Wiped' = Wiped
<1>1. id_file' = id_file
  BY DEF vars, Next, Program, discover, Load, scan_mounted, identify_by_uuid, probe_parts,
         Accept, SaveFails, shell, find_media, by_id_file, by_uuid, by_mounts, by_probe,
         Finish, Goto, finder, ProbeTimeout, BootlogDone, WizardShLists, Refuse, Over,
         Select, Interrupt, StartAgain, Appear
<1>2. CASE stage = "wiping"
  <2>1. sh = "idle"
    BY <1>2 DEF IInv, StepSound
  <2> QED BY <1>1, <1>2, <2>1
     DEF vars, Next, Program, discover, Load, scan_mounted, identify_by_uuid, probe_parts,
         SaveIdentity, SaveFails, find_media, by_id_file, by_uuid, by_mounts, by_probe,
         ProbeTimeout, BootlogDone, WizardShLists, Refuse, Select, Interrupt, StartAgain,
         Appear, wizard, Known, Wiped
<1>3. CASE stage # "wiping"
  <2>1. stage' # "wiping"
    BY <1>3 DEF vars, Next, Program, discover, Load, scan_mounted, identify_by_uuid,
         probe_parts, Accept, SaveIdentity, SaveFails, shell, find_media, by_id_file,
         by_uuid, by_mounts, by_probe, Finish, Goto, finder, ProbeTimeout, BootlogDone,
         WizardShLists, Refuse, Over, Select, Interrupt, StartAgain, StartWizard, Appear
  <2> QED BY <1>1, <1>3, <2>1 DEF Known, Wiped
<1> QED BY <1>2, <1>3

\* A step of the searches is a step of BootIdentity or leaves it alone.
LEMMA StepMaps ==
    ASSUME IInv, [Next]_vars
    PROVE  [Abstract!BNext]_(Abstract!bvars)
<1> USE DEF Abstract!BNext, Abstract!Learn, Abstract!Wipe, Abstract!bvars
<1>1. CASE SaveIdentity
  <2>1. Wiped' = Wiped
    BY <1>1 DEF SaveIdentity, Save, shell, wizard, Wiped
  <2> QED BY <1>1, <2>1, SaveLearns DEF Wiped
<1>2. CASE Guard
  <2>1. Wiped = {} /\ Wiped' = selected /\ Known' = Known
    BY <1>2 DEF Guard, wizard, Wiped, Known
  <2> QED BY <1>2, <2>1, GuardSpares DEF Wiped
<1>3. CASE ~SaveIdentity /\ ~Guard
  BY <1>3, OthersKeep DEF Wiped
<1> QED BY <1>1, <1>2, <1>3

\* The three searches of media.sh, of storage.py and of setup.sh implement
\* BootIdentity: the boot media is identified once, a file that is unfinished
\* or was never written included, and the disk so named is never erased.
THEOREM IdentifiedOnce == Spec => KnownOnce
<1>1. Init => Abstract!BInit
  BY DEF Init, Abstract!BInit, Known
<1>2. IInv /\ [Next]_vars => [Abstract!BNext]_(Abstract!bvars)
  BY StepMaps
<1> QED BY <1>1, <1>2, Reachable, PTL DEF Spec, KnownOnce, Abstract!BSpec

-----------------------------------------------------------------------------
(* The boot disk is spared                                                 *)

\* With one volume, what is found, saved or loaded is the boot media.
BootOnly ==
    OneVolume => /\ Named => id_file[1].disk = boot
                 /\ identity # None => identity.part.disk = boot

\* What is offered and selected has been seen in /dev.
SeenOnly ==
    /\ devices \subseteq present
    /\ targets \subseteq present
    /\ selected \subseteq present

\* A disk with the UUID that was there at the selection is found by setup.sh.
GuardSees ==
    stage = "guard" /\ world.carriers = {boot} /\ sh \in {"probe", "lost"}
        => boot \notin selected

JInv == BootOnly /\ SeenOnly /\ GuardSees /\ OfferedByTornFile /\ BootDiskSpared

LEMMA JInitially == Init => JInv
BY DEF Init, JInv, BootOnly, SeenOnly, GuardSees, OfferedByTornFile, BootDiskSpared, Named

\* A volume that is accepted is the boot media when there is no other.
LEMMA AcceptBoot ==
    ASSUME IInv, JInv, NEW d \in present, Accept(d), OneVolume => d = boot,
           stage \notin {"asking", "over", "wiping"}
    PROVE  JInv'
<1>1. Found(d) \in Identity /\ Found(d).part.disk = d
  BY Names DEF IInv, TypeOK
<1> QED BY <1>1 DEF Accept, shell, wizard, JInv, BootOnly, SeenOnly, GuardSees,
                    OfferedByTornFile, BootDiskSpared, Named, OneVolume

LEMMA SaveBoot ==
    ASSUME IInv, JInv, SaveIdentity \/ SaveFails
    PROVE  JInv'
<1> USE DEF JInv, BootOnly, SeenOnly, GuardSees, OfferedByTornFile, BootDiskSpared, OneVolume
<1>1. stage \notin {"asking", "over", "wiping"} /\ identity # None
  BY DEF SaveIdentity, SaveFails, Save, IInv, StepSound
<1>2. CASE SaveFails
  BY <1>1, <1>2 DEF SaveFails, shell, wizard, Named
<1>3. CASE SaveIdentity
  <2>1. Named' => id_file'[1].disk = identity.part.disk
    BY <1>3 DEF SaveIdentity, Save, Named
  <2> QED BY <1>1, <1>3, <2>1 DEF SaveIdentity, Save, shell, wizard
<1> QED BY <1>2, <1>3

LEMMA DiscoverBoot ==
    ASSUME IInv, JInv, discover
    PROVE  JInv'
<1> USE DEF JInv
<1>0. sh # "idle" => stage \notin {"asking", "over", "wiping"}
  BY DEF IInv, StepSound
<1>1. CASE Load
  <2>1. identity' # None => Named /\ identity'.part.disk = id_file[1].disk
    BY <1>1, Loaded DEF Load
  <2> QED BY <1>0, <1>1, <2>1 DEF Load, shell, wizard, BootOnly, SeenOnly, GuardSees,
                                  OfferedByTornFile, BootDiskSpared, Named, OneVolume
<1>2. CASE scan_mounted
  <2>1. ASSUME NEW d \in MountedPayload(present), Accept(d) PROVE JInv'
    BY <1>0, <1>2, <2>1, AcceptBoot DEF scan_mounted, MountedPayload, OneVolume
  <2>2. CASE ~\E d \in MountedPayload(present) : Accept(d)
    BY <1>0, <1>2, <2>2 DEF scan_mounted, shell, wizard, BootOnly, SeenOnly, GuardSees,
                            OfferedByTornFile, BootDiskSpared, Named, OneVolume
  <2> QED BY <2>1, <2>2
<1>3. CASE identify_by_uuid
  <2>1. ASSUME NEW d \in present \cap world.carriers, Accept(d) PROVE JInv'
    BY <1>0, <1>3, <2>1, AcceptBoot DEF identify_by_uuid, OneVolume
  <2>2. CASE ~\E d \in present \cap world.carriers : Accept(d)
    <3>1. world.carriers = {boot} => boot \notin selected
      BY <1>3, <2>2 DEF identify_by_uuid, SeenOnly
    <3> QED BY <1>0, <1>3, <2>2, <3>1
            DEF identify_by_uuid, shell, wizard, BootOnly, SeenOnly, GuardSees,
                OfferedByTornFile, BootDiskSpared, Named, OneVolume
  <2> QED BY <2>1, <2>2
<1>4. CASE probe_parts
  <2>1. ASSUME NEW d \in Candidates \cap world.payload, Accept(d) PROVE JInv'
    BY <1>0, <1>4, <2>1, AcceptBoot DEF probe_parts, Candidates, OneVolume
  <2>2. CASE ~\E d \in Candidates \cap world.payload : Accept(d)
    BY <1>0, <1>4, <2>2 DEF probe_parts, shell, wizard, BootOnly, SeenOnly, GuardSees,
                            OfferedByTornFile, BootDiskSpared, Named, OneVolume
  <2> QED BY <2>1, <2>2
<1>5. CASE SaveIdentity \/ SaveFails
  BY <1>5, SaveBoot
<1> QED BY <1>1, <1>2, <1>3, <1>4, <1>5 DEF discover

\* The disks are listed without the one of the media.
LEMMA FinishBoot ==
    ASSUME IInv, JInv, NEW m, NEW devs \in SUBSET present, Finish(m, devs),
           OneVolume /\ m # None /\ id_file # None /\ Len(id_file) >= 2
               => m.disk = WholeDisk(boot)
    PROVE  JInv'
<1>1. list_targets(devs, m) \subseteq present
  BY DEF list_targets
<1>2. OneVolume /\ m # None /\ id_file # None /\ Len(id_file) >= 2
          => boot \notin list_targets(devs, m)
  BY DEF list_targets
<1>3. OneVolume' = OneVolume /\ media' = m /\ targets' = list_targets(devs, m)
      /\ id_file' = id_file /\ stage' = "asking" /\ devices' = devs
  BY DEF Finish, finder, OneVolume
<1>4. OfferedByTornFile'
  <2>1. CASE id_file = None
    BY <1>3, <2>1 DEF OfferedByTornFile
  <2>2. CASE id_file # None
    <3>1. Len(id_file) \in Nat
      BY <2>2 DEF IInv, TypeOK, Lines
    <3> QED BY <1>2, <1>3, <2>2, <3>1 DEF OfferedByTornFile
  <2> QED BY <2>1, <2>2
<1> QED BY <1>1, <1>3, <1>4 DEF Finish, finder, JInv, BootOnly, SeenOnly, GuardSees,
                                 BootDiskSpared, Named

LEMMA FinderBoot ==
    ASSUME IInv, JInv, find_media \/ ProbeTimeout
    PROVE  JInv'
<1> USE DEF JInv
<1>0. devices \subseteq present /\ present \subseteq Disk
      /\ \A d \in Disk : Found(d).disk = WholeDisk(d)
  BY DEF SeenOnly, Found, IInv, TypeOK
<1>1. CASE by_id_file
  <2>1. OneVolume /\ ReadIdFile # None /\ id_file # None /\ Len(id_file) >= 2
            => ReadIdFile.disk = WholeDisk(boot)
    <3> SUFFICES ASSUME OneVolume, ReadIdFile # None, id_file # None, Len(id_file) >= 2
                 PROVE  ReadIdFile.disk = WholeDisk(boot)
      OBVIOUS
    <3>1. Named
      BY DEF ReadIdFile, Named
    <3>2. Len(id_file) = 2
      BY <3>1, FileLines DEF IInv
    <3> QED BY <3>1, <3>2 DEF ReadIdFile, IInv, FileSound, BootOnly, parent_disk
  <2>2. CASE Finish(ReadIdFile, devices)
    BY <1>0, <2>1, <2>2, FinishBoot
  <2>3. CASE Goto("uuid") /\ UNCHANGED <<devices, sh, polls>>
    BY <1>1, <2>3 DEF by_id_file, Goto, finder, BootOnly, SeenOnly, GuardSees,
                      OfferedByTornFile, BootDiskSpared, Named, OneVolume
  <2> QED BY <1>1, <2>2, <2>3 DEF by_id_file
<1>2. CASE by_uuid
  <2>1. ASSUME NEW d \in devices \cap world.carriers, Finish(Found(d), devices) PROVE JInv'
    <3>1. OneVolume => Found(d).disk = WholeDisk(boot)
      BY <1>0 DEF OneVolume
    <3> QED BY <1>0, <2>1, <3>1, FinishBoot
  <2>2. CASE ~\E d \in devices \cap world.carriers : Finish(Found(d), devices)
    BY <1>0, <1>2, <2>2 DEF by_uuid, Read, finder, BootOnly, SeenOnly, GuardSees,
                      OfferedByTornFile, BootDiskSpared, Named, OneVolume
  <2> QED BY <2>1, <2>2
<1>3. CASE by_mounts
  <2>1. ASSUME NEW d \in MountedPayload(devices), Finish(Found(d), devices) PROVE JInv'
    <3>1. OneVolume => Found(d).disk = WholeDisk(boot)
      BY <1>0 DEF OneVolume, MountedPayload
    <3> QED BY <1>0, <2>1, <3>1, FinishBoot
  <2>2. CASE ~\E d \in MountedPayload(devices) : Finish(Found(d), devices)
    BY <1>3, <2>2 DEF by_mounts, Goto, finder, BootOnly, SeenOnly, GuardSees,
                      OfferedByTornFile, BootDiskSpared, Named, OneVolume
  <2> QED BY <2>1, <2>2
<1>4. CASE by_probe
  <2>1. OneVolume /\ LoadedIdentity # None => LoadedIdentity.disk = WholeDisk(boot)
    BY Loaded DEF BootOnly, parent_disk
  <2>2. {} \in SUBSET present /\ present \in SUBSET present
    OBVIOUS
  <2>3. PICK devs \in {present, {}} :
            \/ Finish(None, devices) \/ Finish(LoadedIdentity, devs) \/ Finish(None, devs)
    BY <1>4 DEF by_probe
  <2> QED BY <1>0, <2>1, <2>2, <2>3, FinishBoot
<1>5. CASE ProbeTimeout
  BY <1>0, <1>5, FinishBoot DEF ProbeTimeout
<1> QED BY <1>1, <1>2, <1>3, <1>4, <1>5 DEF find_media

LEMMA CallerBoot ==
    ASSUME IInv, JInv, \/ BootlogDone \/ WizardShLists \/ Guard \/ Refuse \/ Select
                       \/ Interrupt \/ StartAgain \/ \E d \in Disk : Appear(d)
    PROVE  JInv'
<1> USE DEF JInv, BootOnly, SeenOnly, GuardSees, OfferedByTornFile, BootDiskSpared, Named,
            OneVolume
<1>1. CASE BootlogDone \/ StartAgain
  BY <1>1 DEF BootlogDone, StartAgain, StartWizard
<1>2. CASE WizardShLists
  <2>1. OneVolume /\ Named => LoadedIdentity.disk = WholeDisk(boot)
                              /\ LoadedIdentity.part.disk = boot
    BY Loaded DEF parent_disk
  <2>2. ~Named => LoadedIdentity = None /\ (id_file = None \/ Len(id_file) < 2)
    BY Loaded
  <2>3. targets' \subseteq present /\ (OneVolume /\ Named => boot \notin targets')
    BY <1>2, <2>1, Loaded DEF WizardShLists, list_targets, Identity, IInv
  <2> QED BY <1>2, <2>1, <2>2, <2>3 DEF WizardShLists
<1>3. CASE Guard
  <2>1. OneVolume /\ world.carriers = {boot} => boot \notin selected
    <3>1. CASE sh = "lost"
      BY <1>3, <3>1 DEF Guard
    <3>2. CASE sh = "found"
      <4>1. identity # None /\ identity.disk = parent_disk(identity.part)
        BY <3>2 DEF IInv, StepSound, IdentitySound
      <4> QED BY <1>3, <3>2, <4>1, BootAssumption DEF Guard, parent_disk
    <3> QED BY <1>3, <3>1, <3>2 DEF Guard
  <2> QED BY <1>3, <2>1 DEF Guard, wizard
<1>4. CASE Refuse \/ Interrupt
  BY <1>4 DEF Refuse, Interrupt, Over, wizard
<1>5. CASE Select
  BY <1>5 DEF Select
<1>6. CASE \E d \in Disk : Appear(d)
  BY <1>6 DEF Appear, wizard
<1> QED BY <1>1, <1>2, <1>3, <1>4, <1>5, <1>6

LEMMA JStep == IInv /\ JInv /\ [Next]_vars => JInv'
<1> SUFFICES ASSUME IInv, JInv, [Next]_vars PROVE JInv'
  OBVIOUS
<1>1. CASE UNCHANGED vars
  BY <1>1 DEF vars, JInv, BootOnly, SeenOnly, GuardSees, OfferedByTornFile, BootDiskSpared,
              Named, OneVolume
<1> QED BY <1>1, DiscoverBoot, FinderBoot, CallerBoot DEF Next, Program

\* Every state of the searches satisfies the second invariant as well.
LEMMA Sound == Spec => []JInv
BY JInitially, JStep, Reachable, PTL DEF Spec

\* With the UUID on the kernel command line and one volume that bears it,
\* setup.sh never erases the disk the installer was booted from, whatever the
\* wizards took for it and however late it appears.
THEOREM BootDiskIsSpared == Spec => []BootDiskSpared
<1>1. JInv => BootDiskSpared
  BY DEF JInv
<1> QED BY <1>1, Sound, PTL

\* A wizard that has identified the boot media lists its disk only over an
\* identity file that is not complete.
THEOREM OnlyTornFileOffers == Spec => []OfferedByTornFile
<1>1. JInv => OfferedByTornFile
  BY DEF JInv
<1> QED BY <1>1, Sound, PTL
-----------------------------------------------------------------------------
(* How long a search may take: the variant of SearchEnds                   *)

\* The steps media.sh, then storage.py, then the running program has ahead of it
\* at most, counted in its own steps and polls.
ShellEffort ==
    CASE sh = "load"    -> UUID_WAIT + 8
      [] sh = "mounted" -> UUID_WAIT + 7
      [] sh = "uuid"    -> 6 + (UUID_WAIT - polls)
      [] sh = "probe"   -> 5
      [] sh = "open"    -> 4
      [] sh = "part"    -> 3
      [] sh = "disk"    -> 2
      [] sh = "idle"    -> 0
      [] OTHER          -> 1

FinderEffort ==
    CASE at = "id_file" -> 2 * UUID_WAIT + 11
      [] at = "uuid"    -> UUID_WAIT + 10 + (UUID_WAIT - polls)
      [] at = "mounts"  -> UUID_WAIT + 9
      [] OTHER          -> ShellEffort

Effort ==
    CASE stage = "bootlog"                -> 2 * UUID_WAIT + 11 + ShellEffort
      [] stage = "finder"                 -> FinderEffort
      [] stage \in {"wizard.sh", "guard"} -> ShellEffort
      [] OTHER                            -> 0

\* media.sh runs in every search but the first steps of storage.py.
AtWork ==
    /\ stage \in {"bootlog", "wizard.sh", "guard"} => sh # "idle"
    /\ stage = "finder" => at # "none" /\ (sh = "idle" <=> at # "probe")

LEMMA AtWorkStep ==
    ASSUME IInv, AtWork, [Next]_vars
    PROVE  AtWork'
<1> USE DEF AtWork
<1>0. stage \in {"asking", "over", "wiping"} => sh = "idle"
  BY DEF IInv, StepSound
<1>1. CASE discover
  BY <1>0, <1>1 DEF discover, Load, scan_mounted, identify_by_uuid, probe_parts, Accept,
                    SaveIdentity, Save, SaveFails, shell
<1>2. CASE find_media \/ ProbeTimeout
  BY <1>2 DEF find_media, by_id_file, by_uuid, by_mounts, by_probe, ProbeTimeout, Finish, Goto,
              finder
<1>3. CASE BootlogDone \/ WizardShLists \/ Select \/ StartAgain
  BY <1>3 DEF BootlogDone, WizardShLists, Select, StartAgain, StartWizard
<1>4. CASE Guard \/ Refuse \/ Interrupt
  BY <1>4 DEF Guard, Refuse, Interrupt, Over
<1>5. CASE (\E d \in Disk : Appear(d)) \/ UNCHANGED vars
  BY <1>5 DEF Appear, vars
<1> QED BY <1>1, <1>2, <1>3, <1>4, <1>5 DEF Next, Program

LEMMA EffortBounds ==
    ASSUME IInv, AtWork
    PROVE  /\ ShellEffort \in 0..(UUID_WAIT + 8)
           /\ sh # "idle" => ShellEffort >= 1
           /\ FinderEffort \in 0..(2 * UUID_WAIT + 11)
           /\ Effort \in 0..(3 * UUID_WAIT + 19)
           /\ Searching <=> Effort > 0
<1>1. UUID_WAIT \in Nat /\ polls \in 0..UUID_WAIT
  BY DEF IInv, TypeOK
<1>2. ShellEffort \in 0..(UUID_WAIT + 8) /\ (sh # "idle" => ShellEffort >= 1)
  BY <1>1 DEF ShellEffort
<1>3. /\ FinderEffort \in 0..(2 * UUID_WAIT + 11)
      /\ at \in {"id_file", "uuid", "mounts"} \/ sh # "idle" => FinderEffort >= 1
  <2> HIDE DEF ShellEffort
  <2> QED BY <1>1, <1>2 DEF FinderEffort
<1>4. stage = "finder" => at \in {"id_file", "uuid", "mounts"} \/ sh # "idle"
  BY DEF AtWork, IInv, TypeOK
<1> QED BY <1>1, <1>2, <1>3, <1>4 DEF Effort, Searching, AtWork

\* A step of media.sh.
LEMMA DiscoverEffort ==
    ASSUME IInv, discover
    PROVE  ShellEffort' < ShellEffort /\ ShellEffort' \in Nat /\ UNCHANGED <<stage, at>>
<1>1. UUID_WAIT \in Nat /\ polls \in 0..UUID_WAIT
  BY DEF IInv, TypeOK
<1>2. CASE Load
  BY <1>1, <1>2 DEF Load, shell, ShellEffort
<1>3. CASE scan_mounted
  BY <1>1, <1>3 DEF scan_mounted, Accept, shell, ShellEffort
<1>4. CASE identify_by_uuid
  <2>1. sh = "uuid" /\ UNCHANGED <<stage, at>>
        /\ \/ sh' \in {"open", "probe"}
           \/ sh' = "uuid" /\ polls' = polls + 1 /\ polls < Tries
    BY <1>4 DEF identify_by_uuid, Accept, shell
  <2>2. Tries \in 0..UUID_WAIT
    BY <1>1 DEF Tries
  <2> QED BY <1>1, <2>1, <2>2 DEF ShellEffort
<1>5. CASE probe_parts
  BY <1>1, <1>5 DEF probe_parts, Accept, shell, ShellEffort
<1>6. CASE SaveIdentity \/ SaveFails
  BY <1>1, <1>6 DEF SaveIdentity, Save, SaveFails, shell, ShellEffort
<1>7. ShellEffort' \in Nat
  <2>1. polls' \in 0..UUID_WAIT
    BY DiscoverStep DEF IInv, TypeOK
  <2> QED BY <1>1, <2>1 DEF ShellEffort
<1> QED BY <1>2, <1>3, <1>4, <1>5, <1>6, <1>7 DEF discover

\* A step of storage.py.
LEMMA FinderTakes ==
    ASSUME IInv, AtWork, find_media
    PROVE  Effort' < Effort
<1>0. UUID_WAIT \in Nat /\ polls \in 0..UUID_WAIT
  BY DEF IInv, TypeOK
<1>1. stage = "finder" /\ Effort = FinderEffort /\ Effort > 0 /\ Searching
  BY EffortBounds DEF find_media, by_id_file, by_uuid, by_mounts, by_probe, Effort, Searching
<1>2. CASE stage' = "asking"
  BY <1>1, <1>2 DEF Effort
<1>3. CASE stage' # "asking"
  <2>1. \/ at = "id_file" /\ at' = "uuid" /\ polls' = polls
        \/ at = "uuid" /\ at' = "uuid" /\ polls' = polls + 1 /\ polls < UUID_WAIT
        \/ at = "uuid" /\ at' = "mounts"
        \/ at = "mounts" /\ at' = "probe" /\ sh' = "load"
    BY <1>3 DEF find_media, by_id_file, by_uuid, by_mounts, by_probe, Finish, Goto
  <2>2. stage' = "finder"
    BY <1>1, <1>3 DEF find_media, by_id_file, by_uuid, by_mounts, by_probe, Finish, Goto
  <2>3. FinderEffort' < FinderEffort
    BY <1>0, <2>1 DEF FinderEffort, ShellEffort
  <2> QED BY <1>1, <2>2, <2>3 DEF Effort
<1> QED BY <1>2, <1>3

LEMMA ProgramTakes ==
    ASSUME IInv, AtWork, Program
    PROVE  Effort' < Effort
<1>0. UUID_WAIT \in Nat /\ polls \in 0..UUID_WAIT /\ Effort \in Nat /\ ShellEffort \in Nat
      /\ (Searching => Effort > 0) /\ (sh # "idle" => ShellEffort >= 1)
  BY EffortBounds DEF IInv, TypeOK
<1>1. CASE find_media
  BY <1>1, FinderTakes
<1>2. CASE (stage \in {"bootlog", "wizard.sh", "guard"} \/ at = "probe") /\ discover
  <2>1. ShellEffort' < ShellEffort /\ ShellEffort' \in Nat /\ UNCHANGED <<stage, at>>
    BY <1>2, DiscoverEffort
  <2>2. sh # "idle"
    BY <1>2 DEF discover, Load, scan_mounted, identify_by_uuid, probe_parts, SaveIdentity, Save,
                SaveFails
  <2>3. stage \in {"bootlog", "finder", "wizard.sh", "guard"} /\ (stage = "finder" => at = "probe")
    BY <2>2 DEF IInv, TypeOK, StepSound, AtWork
  <2>4. (stage = "finder" => FinderEffort = ShellEffort /\ FinderEffort' = ShellEffort')
    BY <2>1, <2>3 DEF FinderEffort
  <2> QED BY <1>0, <2>1, <2>3, <2>4 DEF Effort
<1>3. CASE BootlogDone
  BY <1>0, <1>3 DEF BootlogDone, StartWizard, Effort, FinderEffort, ShellEffort
<1>4. CASE WizardShLists \/ Guard \/ Refuse
  <2>1. Searching /\ stage' \in {"asking", "wiping", "over"}
    BY <1>4 DEF WizardShLists, Guard, Refuse, Over, Searching
  <2> QED BY <1>0, <2>1 DEF Effort
<1> QED BY <1>1, <1>2, <1>3, <1>4 DEF Program

\* The other steps, but for the operator who starts a search, prolong none.
LEMMA OthersTake ==
    ASSUME IInv, AtWork, [Next]_vars, ~Program, ~Select, ~StartAgain
    PROVE  Effort' <= Effort
<1>0. Effort \in Nat
  BY EffortBounds
<1>1. CASE ProbeTimeout \/ Interrupt
  BY <1>0, <1>1 DEF ProbeTimeout, Finish, Interrupt, Over, Effort
<1>2. CASE (\E d \in Disk : Appear(d)) \/ UNCHANGED vars
  <2>1. UNCHANGED <<stage, at, sh, polls>>
    BY <1>2 DEF Appear, vars
  <2>2. Effort' = Effort
    BY <2>1 DEF Effort, FinderEffort, ShellEffort
  <2> QED BY <1>0, <2>2
<1> QED BY <1>1, <1>2 DEF Next

\* A search takes one of its steps only to have fewer left, and gets no more of
\* them before the operator confirms a selection or the next wizard is started.
SearchAdvances ==
    [][(Program => Effort' < Effort) /\ (Select \/ StartAgain \/ Effort' <= Effort)]_vars

\* For any machine and any deadline, a program is searching exactly as long as it
\* has steps left, and never more than this many: no order in which the disks
\* appear, no interruption and no answer of media.sh keeps a search going.
BoundedSearch == Effort \in 0..(3 * UUID_WAIT + 19) /\ (Searching <=> Effort > 0)

THEOREM SearchNeverLoops == Spec => []BoundedSearch /\ SearchAdvances
<1>1. Init => AtWork
  BY DEF Init, AtWork
<1>2. IInv /\ AtWork => BoundedSearch
  BY EffortBounds DEF BoundedSearch
<1>3. IInv /\ AtWork /\ BoundedSearch' /\ [Next]_vars =>
        (Program => Effort' < Effort) /\ (Select \/ StartAgain \/ Effort' <= Effort)
  <2> SUFFICES ASSUME IInv, AtWork, BoundedSearch', [Next]_vars
               PROVE  (Program => Effort' < Effort) /\ (Select \/ StartAgain \/ Effort' <= Effort)
    OBVIOUS
  <2>1. Effort \in Nat /\ Effort' \in Nat
    BY EffortBounds DEF BoundedSearch
  <2> QED BY <2>1, ProgramTakes, OthersTake
<1> QED BY <1>1, <1>2, <1>3, AtWorkStep, Reachable, PTL DEF Spec, SearchAdvances
================================================================================
