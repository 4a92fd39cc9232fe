\* wizard.sh: none, one, three or five disks.
CONSTANTS
    d1 = d1
    d2 = d2
    d3 = d3
    d4 = d4
    d5 = d5
    None = None
    Disk <- MCDisk
    Size <- MCSize
    Inventories <- MCInventories
    Media <- MCMedia
    Typed <- MCTyped
SPECIFICATION Spec
INVARIANTS
    TypeOK
    WipesTargetsOnly
    RaidFitsDisks
\* The script ends.
CHECK_DEADLOCK FALSE
