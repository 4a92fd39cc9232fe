\* The documented release of the disks before they are wiped, on a retry.
CONSTANTS
    boot = boot
    d1 = d1
    d2 = d2
    d3 = d3
    None = None
    Disk <- MCDisk
    Boot <- boot
    MaxAttempts = 2
SPECIFICATION Spec
INVARIANT StaleArraysStopped
