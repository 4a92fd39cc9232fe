\* bootlog, up to three wizards and setup.sh look for the boot stick.
CONSTANTS
    boot = boot
    stick = stick
    d1 = d1
    nbd = nbd
    None = None
    Disk <- MCDisk
    Worlds <- MCWorlds
    UUID_WAIT = 2
    MaxRuns = 3
SPECIFICATION Spec
INVARIANTS
    TypeOK
    BootDiskSpared
    OfferedByTornFile
PROPERTIES
    SearchEnds
    KnownOnce
\* setup.sh goes on to erase and reboots; nothing follows here.
CHECK_DEADLOCK FALSE
