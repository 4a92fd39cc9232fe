\* setup.sh, tried twice.
CONSTANTS
    boot = boot
    d1 = d1
    d2 = d2
    d3 = d3
    None = None
    Disk <- MCDisk
    Boot <- boot
    MaxAttempts = 2
SPECIFICATION Spec
INVARIANTS
    TypeOK
    BootDiskSurvives
    FirstAttemptReleases
PROPERTY SuccessIsComplete
SYMMETRY Symmetric
