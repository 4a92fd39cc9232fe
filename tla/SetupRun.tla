------------------------------- MODULE SetupRun -------------------------------
(***************************************************************************)
(* setup.sh over one or more attempts: the operator may start it again     *)
(* from the wizard after it failed, and may reboot at any moment.          *)
(*                                                                         *)
(* The script runs under set -e with an ERR trap, so any command without   *)
(* "|| true" may end the attempt where it stands (Fails).  Nothing that an *)
(* attempt has mounted or assembled is undone when it fails; the next one  *)
(* finds it.  cur is the disk the wipe loop is at, todo the disks after    *)
(* it; the order of the disks does not matter and is left open.            *)
(***************************************************************************)
EXTENDS Integers, FiniteSets

CONSTANTS
    Disk,
    Boot,           \* the disk the installer was booted from
    None,
    MaxAttempts     \* bound on the attempts between two reboots

ASSUME BootAssumption == Boot \in Disk /\ None \notin Disk
ASSUME AttemptsAssumption == MaxAttempts \in Nat

VARIABLES
    identity,   \* /run/installer-media-id: "known" (names Boot) or "unknown"
    pc,         \* the next step of setup.sh, "idle" when it does not run
    disks,      \* DISK_ARRAY
    todo, cur,  \* the loop over it
    table,      \* table[d]: "old" as found, "zeroed", "wiped", "new" (2 partitions)
    arrays,     \* running arrays: "md0", "md1", "stale" (of an earlier system)
    members,    \* members[a]: the disks of array a, running or not
    image,      \* what md1 holds: "none", "fs", "unpacked", "configured"
    mounted,    \* mount points in use: "root" (md1), "efi" (md0), "src" (media)
    result,     \* how the last attempt of this boot ended: "none", "failed", "ok"
    attempt,    \* attempts since the boot
    exposed     \* history: has an attempt got Boot without an identity?

loop == <<todo, cur, table>>
raid == <<arrays, members, image>>
vars == <<identity, pc, disks, loop, raid, mounted, result, attempt, exposed>>

Array == {"md0", "md1", "stale"}

Init ==
    /\ identity \in {"known", "unknown"}
    /\ pc = "idle" /\ disks = {} /\ todo = {} /\ cur = None
    /\ table = [d \in Disk |-> "old"]
    /\ arrays \in {{}, {"stale"}}
    /\ members = [a \in Array |-> IF a = "stale" THEN Disk \ {Boot} ELSE {}]
    /\ image = "none" /\ mounted = {}
    /\ result = "none" /\ attempt = 0 /\ exposed = "no"

-----------------------------------------------------------------------------
\* mdadm --stop refuses an array that is mounted.
InUse(a) ==
    \/ a = "md1" /\ "root" \in mounted
    \/ a = "md0" /\ "efi" \in mounted

\* Mutant of Stopped: only the installer's own arrays are stopped.
StoppedOwn(A) == {a \in arrays : a \notin A \/ a = "stale" \/ InUse(a)}

\* The arrays left after mdadm --stop of those in A, "|| true".
Stopped(A) == {a \in arrays : a \notin A \/ InUse(a)}

\* Mutant of Ends: the loop's variables outlive the attempt.
EndsKeepsLoop(r) ==
    /\ pc' = "idle"
    /\ result' = r
    /\ disks' = {}
    /\ UNCHANGED <<todo, cur>>

Ends(r) ==
    /\ pc' = "idle"
    /\ result' = r
    /\ disks' = {} /\ todo' = {} /\ cur' = None

\* A wizard hands two or more disks over.
Start(D) ==
    /\ pc = "idle"
    /\ attempt < MaxAttempts
    /\ attempt' = attempt + 1
    /\ disks' = D
    /\ pc' = "guard"
    /\ UNCHANGED <<identity, loop, raid, mounted, result, exposed>>

\* Mutant of Refused: the list is compared as a whole.
RefusedWhole(id) == id = "known" /\ disks = {Boot}

\* Does the guard refuse these disks?
Refused(id) == id = "known" /\ Boot \in disks

\* installer_load_identity || installer_discover, which may find the media now;
\* with no identity only a warning is logged.  Then the stale arrays are stopped.
Guard(id) ==
    /\ pc = "guard"
    /\ identity = "known" => id = "known"
    /\ identity' = id
    /\ \/ /\ Refused(id)
          /\ Ends("failed")
          /\ UNCHANGED <<arrays, table, exposed>>
       \/ /\ ~Refused(id)
          /\ exposed' = IF id = "unknown" /\ Boot \in disks THEN "yes" ELSE exposed
          /\ arrays' = Stopped(Array)
          /\ todo' = disks
          /\ pc' = "next"
          /\ UNCHANGED <<disks, cur, table, result>>
    /\ UNCHANGED <<members, image, mounted, attempt>>

\* The loop: release_disk unmounts what is mounted from the disk itself and
\* stops its arrays; dd overwrites its first sectors.
ZeroDisk(d) ==
    /\ pc = "next"
    /\ d \in todo
    /\ todo' = todo \ {d}
    /\ cur' = d
    /\ mounted' = IF d = Boot THEN mounted \ {"src"} ELSE mounted
    /\ arrays' = Stopped({a \in Array : d \in members[a]})
    /\ table' = [table EXCEPT ![d] = "zeroed"]
    /\ pc' = "wipefs"
    /\ UNCHANGED <<identity, disks, members, image, result, attempt, exposed>>

\* wipefs finds the disk busy while an array holds it.
Busy(d) == \E a \in arrays : d \in members[a]

WipeDisk ==
    /\ pc = "wipefs"
    /\ \/ /\ Busy(cur)
          /\ Ends("failed")
          /\ UNCHANGED table
       \/ /\ ~Busy(cur)
          /\ table' = [table EXCEPT ![cur] = "wiped"]
          /\ pc' = "sfdisk"
          /\ UNCHANGED <<disks, todo, cur, result>>
    /\ UNCHANGED <<identity, raid, mounted, attempt, exposed>>

PartitionDisk ==
    /\ pc = "sfdisk"
    /\ table' = [table EXCEPT ![cur] = "new"]
    /\ pc' = IF todo = {} THEN "md0" ELSE "next"
    /\ UNCHANGED <<identity, disks, todo, cur, raid, mounted, result, attempt, exposed>>

\* Mutant of Create: an array of that name is taken as the one wanted.
CreateOrReuse(a, left) ==
    /\ arrays' = left \cup {a}
    /\ members' = IF a \in left THEN members ELSE [members EXCEPT ![a] = disks]

\* mdadm --create fails when an array of that name is still running.
Create(a, left) ==
    /\ a \notin left
    /\ \A b \in left : members[b] \cap disks = {} \/ b \in {"md0", "md1"}
    /\ arrays' = left \cup {a}
    /\ members' = [members EXCEPT ![a] = disks]

CreateBoot ==
    /\ pc = "md0"
    /\ Create("md0", Stopped({"md0", "md1"}))
    /\ pc' = "md1"
    /\ UNCHANGED <<identity, disks, loop, image, mounted, result, attempt, exposed>>

CreateRoot ==
    /\ pc = "md1"
    /\ Create("md1", arrays)
    /\ image' = "none"
    /\ pc' = "mkfs"
    /\ UNCHANGED <<identity, disks, loop, mounted, result, attempt, exposed>>

Mkfs ==
    /\ pc = "mkfs"
    /\ image' = "fs"
    /\ pc' = "mount"
    /\ UNCHANGED <<identity, disks, loop, arrays, members, mounted, result, attempt, exposed>>

MountRoot ==
    /\ pc = "mount"
    /\ mounted' = mounted \cup {"root"}
    /\ pc' = "mountefi"
    /\ UNCHANGED <<identity, disks, loop, raid, result, attempt, exposed>>

MountEfi ==
    /\ pc = "mountefi"
    /\ mounted' = mounted \cup {"efi"}
    /\ pc' = "media"
    /\ UNCHANGED <<identity, disks, loop, raid, result, attempt, exposed>>

\* installer_mount /src, or the error that it cannot be mounted; it may identify
\* the media only now.
MountMedia ==
    /\ pc = "media"
    /\ identity' = "known"
    /\ mounted' = mounted \cup {"src"}
    /\ pc' = "unpack"
    /\ UNCHANGED <<disks, loop, raid, result, attempt, exposed>>

\* The tarballs are missing: unmount the media and exit 1.
NoTarballs ==
    /\ pc = "unpack"
    /\ mounted' = mounted \ {"src"}
    /\ Ends("failed")
    /\ UNCHANGED <<identity, table, raid, attempt, exposed>>

Unpack ==
    /\ pc = "unpack"
    /\ image' = "unpacked"
    /\ pc' = "config"
    /\ UNCHANGED <<identity, disks, loop, arrays, members, mounted, result, attempt, exposed>>

\* mdadm.conf, /etc/config/mdadm, grub.cfg and fstab in the target.
Configure ==
    /\ pc = "config"
    /\ image' = "configured"
    /\ pc' = "umount"
    /\ UNCHANGED <<identity, disks, loop, arrays, members, mounted, result, attempt, exposed>>

\* umount -R /target/root; what follows cannot fail the attempt any more: the log
\* is copied and the media unmounted.
Finish ==
    /\ pc = "umount"
    /\ mounted' = {}
    /\ Ends("ok")
    /\ UNCHANGED <<identity, table, raid, attempt, exposed>>

\* Any other command fails: setup_fail, which may mount the media for the log.
Fails ==
    /\ pc \notin {"idle", "guard", "next"}
    /\ Ends("failed")
    /\ \/ UNCHANGED mounted
       \/ identity = "known" /\ mounted' = mounted \cup {"src"}
    /\ UNCHANGED <<identity, table, raid, attempt, exposed>>

\* An array can be assembled as long as one of its disks may carry its
\* superblock: a disk as found, or one with partitions again, where sfdisk can
\* bring an old superblock back to light.
Assemblable == {a \in Array : \E d \in members[a] : table[d] \in {"old", "new"}}

\* Reset, or power loss in the middle of an attempt.  Any array may be assembled
\* again from the disks, also one that an attempt had stopped, and any may not;
\* nothing is mounted.
Reboot ==
    /\ Ends("none")
    /\ mounted' = {}
    /\ arrays' \in SUBSET Assemblable
    /\ identity' \in {"known", "unknown"}
    /\ attempt' = 0
    /\ UNCHANGED <<table, members, image, exposed>>

Step ==
    \/ \E id \in {"known", "unknown"} : Guard(id)
    \/ \E d \in Disk : ZeroDisk(d)
    \/ WipeDisk \/ PartitionDisk
    \/ CreateBoot \/ CreateRoot \/ Mkfs
    \/ MountRoot \/ MountEfi \/ MountMedia
    \/ NoTarballs \/ Unpack \/ Configure \/ Finish
    \/ Fails

Next ==
    \/ \E D \in SUBSET Disk : Cardinality(D) \in 2 .. 4 /\ Start(D)
    \/ Step
    \/ Reboot

Spec == Init /\ [][Next]_vars

-----------------------------------------------------------------------------
TypeOK ==
    /\ identity \in {"known", "unknown"}
    /\ pc \in {"idle", "guard", "next", "wipefs", "sfdisk", "md0", "md1", "mkfs",
               "mount", "mountefi", "media", "unpack", "config", "umount"}
    /\ disks \subseteq Disk
    /\ todo \subseteq disks
    /\ cur \in disks \cup {None}
    /\ table \in [Disk -> {"old", "zeroed", "wiped", "new"}]
    /\ arrays \subseteq Array
    /\ members \in [Array -> SUBSET Disk]
    /\ image \in {"none", "fs", "unpacked", "configured"}
    /\ mounted \subseteq {"root", "efi", "src"}
    /\ result \in {"none", "failed", "ok"}
    /\ attempt \in 0 .. MaxAttempts
    /\ exposed \in {"no", "yes"}

\* "Never wipe the volume we booted the installer from": the boot disk is only
\* ever overwritten by an attempt that got it as a target while no identity of
\* the media was to be had.
BootDiskSurvives == table[Boot] # "old" => exposed = "yes"

\* A successful attempt leaves both arrays on exactly its own disks, with the
\* configured system, and nothing mounted, whatever earlier attempts with other
\* disks have left behind.
SuccessIsComplete ==
    [][Finish =>
        /\ {"md0", "md1"} \subseteq arrays'
        /\ members'["md0"] = disks /\ members'["md1"] = disks
        /\ \A d \in disks : table'[d] = "new"
        /\ image' = "configured"
        /\ mounted' = {}]_vars

\* The first attempt after a boot never finds a disk busy: release_disk has
\* stopped every array of the disks before wipefs, however the last one ended.
FirstAttemptReleases == attempt = 1 /\ pc = "wipefs" => ~Busy(cur)

\* setup.sh:198 logs "Stopping any stale md arrays before wiping target disks":
\* no disk is overwritten while a running array holds it.
StaleArraysStopped == pc = "wipefs" => ~Busy(cur)
==============================================================================
