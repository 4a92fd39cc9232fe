\* collect_plan(): two to four of five disks.
CONSTANTS
    d1 = d1
    d2 = d2
    d3 = d3
    d4 = d4
    d5 = d5
    part = part
    None = None
    Disk <- MCDisk
    Size <- MCSize
    Inventories <- MCInventories
    Media <- MCMedia
    Typed <- MCTyped
SPECIFICATION Spec
INVARIANTS
    TypeOK
    NeverRaises
    BootMediaSpared
    VouchedFor
    RoomForRoot
    NothingStale
PROPERTY ContractSpec
\* A finished or cancelled sequence has no next step.
CHECK_DEADLOCK FALSE
