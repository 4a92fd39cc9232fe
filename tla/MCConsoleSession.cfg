\* One boot, any number of activations.
SPECIFICATION FairSpec
INVARIANTS
    TypeOK
    WizardOnce
    NoCrashLoop
PROPERTIES
    NoKmsconAfterFailed
    ProgramAppears
