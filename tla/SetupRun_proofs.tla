---------------------------- MODULE SetupRun_proofs ----------------------------
(***************************************************************************)
(* The boot disk is safe from setup.sh as long as its identity is known,   *)
(* the first attempt finds no disk busy, and a success is complete, for    *)
(* any number of disks, attempts and reboots.                              *)
(***************************************************************************)
EXTENDS SetupRun, TLAPS

\* Past the guard, the boot disk can only be among the attempt's disks when the
\* guard had no identity.
Guarded == pc \notin {"idle", "guard"} /\ Boot \in disks => exposed = "yes"

\* The loop is at one of the attempt's disks, and at none before the guard.
LoopBounded ==
    /\ pc \in {"idle", "guard"} => todo = {} /\ cur = None
    /\ pc \in {"wipefs", "sfdisk"} => cur \in disks

IInv ==
    /\ TypeOK
    /\ Guarded
    /\ LoopBounded
    /\ BootDiskSurvives

LEMMA InitIInv == Init => IInv
BY BootAssumption, AttemptsAssumption
   DEF Init, IInv, TypeOK, Guarded, LoopBounded, BootDiskSurvives, Array

\* mdadm --stop leaves a subset of the arrays.
LEMMA StoppedIsSubset == \A A : Stopped(A) \subseteq arrays
BY DEF Stopped

\* An attempt starts or ends, or the machine is reset: no disk is touched.
LEMMA BetweenAttempts ==
    IInv /\ (\/ \E D \in SUBSET Disk : Start(D)
             \/ Reboot \/ Fails \/ NoTarballs \/ Finish) => IInv'
<1> SUFFICES ASSUME IInv, \/ \E D \in SUBSET Disk : Start(D)
                          \/ Reboot \/ Fails \/ NoTarballs \/ Finish
             PROVE  IInv'
    OBVIOUS
<1> USE BootAssumption, AttemptsAssumption
    DEF IInv, TypeOK, Guarded, LoopBounded, BootDiskSurvives, loop, raid
<1>1. ASSUME NEW D \in SUBSET Disk, Start(D)
      PROVE  IInv'
    BY <1>1 DEF Start
<1>2. CASE Reboot
    BY <1>2 DEF Reboot, Ends, Assemblable
<1>3. CASE Fails
    BY <1>3 DEF Fails, Ends
<1>4. CASE NoTarballs
    BY <1>4 DEF NoTarballs, Ends
<1>5. CASE Finish
    BY <1>5 DEF Finish, Ends
<1> QED
    BY <1>1, <1>2, <1>3, <1>4, <1>5

\* The guard is where the boot disk is refused, or found to be unguarded.
LEMMA GuardNext ==
    ASSUME IInv, NEW id \in {"known", "unknown"}, Guard(id)
    PROVE  IInv'
<1> USE BootAssumption, AttemptsAssumption
    DEF IInv, TypeOK, Guarded, LoopBounded, BootDiskSurvives, loop, raid
<1>1. pc = "guard" /\ identity' = id /\ UNCHANGED <<table, members, image, mounted, attempt>>
    BY DEF Guard
<1>2. CASE Refused(id)
    <2>1. Ends("failed") /\ UNCHANGED <<arrays, exposed>>
        BY <1>2 DEF Guard
    <2> QED
        BY <1>1, <2>1 DEF Ends
<1>3. CASE ~Refused(id)
    <2>1. /\ exposed' = (IF id = "unknown" /\ Boot \in disks THEN "yes" ELSE exposed)
          /\ arrays' = Stopped(Array) /\ todo' = disks /\ pc' = "next"
          /\ UNCHANGED <<disks, cur, result>>
        BY <1>3 DEF Guard
    <2>2. Boot \in disks => id = "unknown"
        BY <1>3 DEF Refused
    <2>3. arrays' \subseteq arrays
        BY <2>1, StoppedIsSubset
    <2> QED
        BY <1>1, <2>1, <2>2, <2>3
<1> QED
    BY <1>2, <1>3

\* The wipe loop overwrites disks of the attempt only.
LEMMA LoopNext ==
    IInv /\ ((\E d \in Disk : ZeroDisk(d)) \/ WipeDisk \/ PartitionDisk) => IInv'
<1> SUFFICES ASSUME IInv, (\E d \in Disk : ZeroDisk(d)) \/ WipeDisk \/ PartitionDisk
             PROVE  IInv'
    OBVIOUS
<1> USE BootAssumption, AttemptsAssumption
    DEF IInv, TypeOK, Guarded, LoopBounded, BootDiskSurvives, loop, raid
<1>1. ASSUME NEW d \in Disk, ZeroDisk(d)
      PROVE  IInv'
    <2>1. /\ pc = "next" /\ d \in todo /\ todo' = todo \ {d} /\ cur' = d
          /\ table' = [table EXCEPT ![d] = "zeroed"] /\ pc' = "wipefs"
          /\ mounted' \subseteq mounted
          /\ UNCHANGED <<identity, disks, members, image, result, attempt, exposed>>
        BY <1>1 DEF ZeroDisk
    <2>2. arrays' \subseteq arrays
        BY <1>1, StoppedIsSubset DEF ZeroDisk
    <2> QED
        BY <2>1, <2>2
<1>2. CASE WipeDisk
    <2>1. CASE Busy(cur)
        BY <1>2, <2>1 DEF WipeDisk, Ends
    <2>2. CASE ~Busy(cur)
        BY <1>2, <2>2 DEF WipeDisk
    <2> QED
        BY <2>1, <2>2
<1>3. CASE PartitionDisk
    BY <1>3 DEF PartitionDisk
<1> QED
    BY <1>1, <1>2, <1>3

\* What follows the loop leaves the partition tables alone.
LEMMA ArraysNext ==
    IInv /\ (\/ CreateBoot \/ CreateRoot \/ Mkfs \/ MountRoot \/ MountEfi
             \/ MountMedia \/ Unpack \/ Configure) => IInv'
<1> SUFFICES ASSUME IInv, \/ CreateBoot \/ CreateRoot \/ Mkfs \/ MountRoot \/ MountEfi
                          \/ MountMedia \/ Unpack \/ Configure
             PROVE  IInv'
    OBVIOUS
<1> USE BootAssumption, AttemptsAssumption
    DEF IInv, TypeOK, Guarded, LoopBounded, BootDiskSurvives, loop, raid
<1>1. CASE CreateBoot
    <2>1. Stopped({"md0", "md1"}) \subseteq arrays
        BY StoppedIsSubset
    <2> QED
        BY <1>1, <2>1 DEF CreateBoot, Create, Array
<1>2. CASE CreateRoot
    BY <1>2 DEF CreateRoot, Create, Array
<1>3. CASE Mkfs \/ Unpack \/ Configure
    BY <1>3 DEF Mkfs, Unpack, Configure
<1>4. CASE MountRoot \/ MountEfi \/ MountMedia
    BY <1>4 DEF MountRoot, MountEfi, MountMedia
<1> QED
    BY <1>1, <1>2, <1>3, <1>4

LEMMA NextIInv == IInv /\ [Next]_vars => IInv'
<1> SUFFICES ASSUME IInv, [Next]_vars
             PROVE  IInv'
    OBVIOUS
<1>1. CASE Next
    BY <1>1, BetweenAttempts, GuardNext, LoopNext, ArraysNext DEF Next, Step
<1>2. CASE UNCHANGED vars
    BY <1>2 DEF vars, loop, raid, IInv, TypeOK, Guarded, LoopBounded, BootDiskSurvives
<1> QED
    BY <1>1, <1>2

\* The strengthening is an invariant of every sequence of attempts and reboots.
THEOREM Inductive == Spec => []IInv
BY InitIInv, NextIInv, PTL DEF Spec

\* Every variable stays in its range.
THEOREM SetupTypeCorrect == Spec => []TypeOK
<1>1. IInv => TypeOK
    BY DEF IInv
<1> QED
    BY <1>1, Inductive, PTL

\* setup.sh overwrites the disk it was booted from only when it was handed over
\* as a target and neither the identity file nor a new search named it.
THEOREM BootDiskIsSpared == Spec => []BootDiskSurvives
<1>1. IInv => BootDiskSurvives
    BY DEF IInv
<1> QED
    BY <1>1, Inductive, PTL

-----------------------------------------------------------------------------
(* The first attempt after a boot                                          *)

\* Nothing is mounted before the first attempt, so that its guard stops every
\* array and the loop finds none.
FirstClean ==
    /\ attempt = 0 => pc = "idle" /\ mounted = {}
    /\ attempt = 1 /\ pc = "guard" => mounted = {}
    /\ attempt = 1 /\ pc \in {"next", "wipefs", "sfdisk"} => arrays = {}

\* With nothing mounted, mdadm --stop leaves none of the arrays it is given.
LEMMA StopsAll == mounted = {} /\ arrays \subseteq Array => Stopped(Array) = {}
BY DEF Stopped, InUse

LEMMA InitFirstClean == Init => FirstClean
BY DEF Init, FirstClean

LEMMA LoopFirstClean ==
    ASSUME TypeOK, FirstClean, \/ \E id \in {"known", "unknown"} : Guard(id)
                               \/ \E d \in Disk : ZeroDisk(d)
                               \/ WipeDisk \/ PartitionDisk
    PROVE  FirstClean'
<1> USE DEF FirstClean
<1>1. ASSUME NEW id \in {"known", "unknown"}, Guard(id)
      PROVE  FirstClean'
    <2>1. CASE Refused(id)
        BY <1>1, <2>1 DEF Guard, Ends
    <2>2. CASE ~Refused(id)
        BY <1>1, <2>2, StopsAll DEF Guard, TypeOK
    <2> QED
        BY <2>1, <2>2
<1>2. ASSUME NEW d \in Disk, ZeroDisk(d)
      PROVE  FirstClean'
    <2>1. arrays' \subseteq arrays
        BY <1>2, StoppedIsSubset DEF ZeroDisk
    <2> QED
        BY <1>2, <2>1 DEF ZeroDisk
<1>3. CASE WipeDisk
    <2>1. CASE Busy(cur)
        BY <1>3, <2>1 DEF WipeDisk, Ends, raid
    <2>2. CASE ~Busy(cur)
        BY <1>3, <2>2 DEF WipeDisk, raid
    <2> QED
        BY <2>1, <2>2
<1>4. CASE PartitionDisk
    BY <1>4 DEF PartitionDisk, raid
<1> QED
    BY <1>1, <1>2, <1>3, <1>4

LEMMA NextFirstClean == IInv /\ FirstClean /\ [Next]_vars => FirstClean'
<1> SUFFICES ASSUME IInv, FirstClean, [Next]_vars
             PROVE  FirstClean'
    OBVIOUS
<1> USE DEF FirstClean
<1>0. TypeOK /\ attempt \in Nat
    BY AttemptsAssumption DEF IInv, TypeOK
<1>1. ASSUME NEW D \in SUBSET Disk, Start(D)
      PROVE  FirstClean'
    BY <1>0, <1>1 DEF Start, raid
<1>2. CASE Reboot
    BY <1>2 DEF Reboot, Ends
<1>3. CASE NoTarballs \/ Finish \/ Fails
    BY <1>3 DEF NoTarballs, Finish, Fails, Ends
<1>4. CASE CreateBoot \/ CreateRoot \/ Mkfs \/ Unpack \/ Configure
    BY <1>4 DEF CreateBoot, CreateRoot, Mkfs, Unpack, Configure
<1>5. CASE MountRoot \/ MountEfi \/ MountMedia
    BY <1>5 DEF MountRoot, MountEfi, MountMedia
<1>6. CASE UNCHANGED vars
    BY <1>6 DEF vars, raid
<1> QED
    BY <1>0, <1>1, <1>2, <1>3, <1>4, <1>5, <1>6, LoopFirstClean DEF Next, Step

\* In the first attempt after a boot no disk is busy when wipefs gets to it,
\* whatever arrays were assembled and whatever attempts the last boot has seen.
THEOREM FirstAttemptIsReleased == Spec => []FirstAttemptReleases
<1>1. FirstClean => FirstAttemptReleases
    BY DEF FirstClean, FirstAttemptReleases, Busy
<1>2. Spec => []FirstClean
    BY Inductive, InitFirstClean, NextFirstClean, PTL DEF Spec
<1> QED
    BY <1>1, <1>2, PTL

-----------------------------------------------------------------------------
(* A successful attempt                                                    *)

WithBoot == {"md1", "mkfs", "mount", "mountefi", "media", "unpack", "config", "umount"}
WithRoot == WithBoot \ {"md1"}

\* What the attempt has done to its disks and arrays by each of its steps.
Built ==
    /\ pc = "next" => \A d \in disks \ todo : table[d] = "new"
    /\ pc \in {"wipefs", "sfdisk"} => \A d \in disks \ (todo \cup {cur}) : table[d] = "new"
    /\ pc \in WithBoot \cup {"md0"} => \A d \in disks : table[d] = "new"
    /\ pc \in WithBoot => "md0" \in arrays /\ members["md0"] = disks
    /\ pc \in WithRoot => "md1" \in arrays /\ members["md1"] = disks
    /\ pc = "umount" => image = "configured"

LEMMA InitBuilt == Init => Built
BY DEF Init, Built, WithBoot, WithRoot

\* The loop makes the disks new, one after the other.
LEMMA LoopBuilt ==
    ASSUME IInv, Built, \/ \E id \in {"known", "unknown"} : Guard(id)
                        \/ \E d \in Disk : ZeroDisk(d)
                        \/ WipeDisk \/ PartitionDisk
    PROVE  Built'
<1> USE DEF IInv, TypeOK, LoopBounded, Built, WithBoot, WithRoot
<1>1. ASSUME NEW id \in {"known", "unknown"}, Guard(id)
      PROVE  Built'
    <2>1. CASE Refused(id)
        BY <1>1, <2>1 DEF Guard, Ends
    <2>2. CASE ~Refused(id)
        BY <1>1, <2>2 DEF Guard
    <2> QED
        BY <2>1, <2>2
<1>2. ASSUME NEW d \in Disk, ZeroDisk(d)
      PROVE  Built'
    BY <1>2 DEF ZeroDisk
<1>3. CASE WipeDisk
    <2>1. CASE Busy(cur)
        BY <1>3, <2>1 DEF WipeDisk, Ends
    <2>2. CASE ~Busy(cur)
        BY <1>3, <2>2 DEF WipeDisk
    <2> QED
        BY <2>1, <2>2
<1>4. CASE PartitionDisk
    <2>1. cur \in Disk /\ table' = [table EXCEPT ![cur] = "new"]
        BY <1>4, BootAssumption DEF PartitionDisk
    <2>2. \A d \in disks \ todo : table'[d] = "new"
        BY <1>4, <2>1 DEF PartitionDisk
    <2> QED
        BY <1>4, <2>2 DEF PartitionDisk, raid
<1> QED
    BY <1>1, <1>2, <1>3, <1>4

\* The arrays are made of all of the disks, and nothing after it undoes that.
LEMMA NextBuilt == IInv /\ Built /\ [Next]_vars => Built'
<1> SUFFICES ASSUME IInv, Built, [Next]_vars
             PROVE  Built'
    OBVIOUS
<1> USE DEF Built, WithBoot, WithRoot
<1>0. members \in [Array -> SUBSET Disk] /\ "md0" \in Array /\ "md1" \in Array
    BY DEF IInv, TypeOK, Array
<1>1. ASSUME NEW D \in SUBSET Disk, Start(D)
      PROVE  Built'
    BY <1>1 DEF Start
<1>2. CASE Reboot \/ NoTarballs \/ Finish \/ Fails
    BY <1>2 DEF Reboot, NoTarballs, Finish, Fails, Ends
<1>3. CASE CreateBoot
    BY <1>0, <1>3 DEF CreateBoot, Create, loop
<1>4. CASE CreateRoot
    BY <1>0, <1>4 DEF CreateRoot, Create, loop
<1>5. CASE Mkfs \/ Unpack \/ Configure
    BY <1>5 DEF Mkfs, Unpack, Configure, loop
<1>6. CASE MountRoot \/ MountEfi \/ MountMedia
    BY <1>6 DEF MountRoot, MountEfi, MountMedia, loop, raid
<1>7. CASE UNCHANGED vars
    BY <1>7 DEF vars, loop, raid
<1> QED
    BY <1>1, <1>2, <1>3, <1>4, <1>5, <1>6, <1>7, LoopBuilt DEF Next, Step

\* When setup.sh succeeds, both arrays run on exactly the disks it was given,
\* all of them newly partitioned, with the configured system on them and nothing
\* mounted, whatever attempts with whatever disks came before.
THEOREM SuccessMeansComplete == Spec => SuccessIsComplete
<1>1. Built /\ [Next]_vars =>
        [Finish => /\ {"md0", "md1"} \subseteq arrays'
                   /\ members'["md0"] = disks /\ members'["md1"] = disks
                   /\ \A d \in disks : table'[d] = "new"
                   /\ image' = "configured"
                   /\ mounted' = {}]_vars
    BY DEF Built, WithBoot, WithRoot, Finish, raid
<1>2. Spec => []Built
    BY Inductive, InitBuilt, NextBuilt, PTL DEF Spec
<1> QED
    BY <1>1, <1>2, PTL DEF Spec, SuccessIsComplete
==============================================================================
