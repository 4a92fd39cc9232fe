\* The documented effect of Cancel.
CONSTANTS
    d1 = d1
    d2 = d2
    d3 = d3
    d4 = d4
    d5 = d5
    None = None
    Disk <- MCDisk
    Size <- MCSize
    Inventories <- MCInventories
    Media <- MCMedia
    Typed <- MCTyped
SPECIFICATION Spec
INVARIANT CancelLeaves
CHECK_DEADLOCK FALSE
