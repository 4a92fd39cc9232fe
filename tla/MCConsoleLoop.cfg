\* One boot, any number of rounds of the loop.
SPECIFICATION FairLoopSpec
INVARIANTS
    LoopTypeOK
    MaintenanceSparesWizard
PROPERTIES
    SessionSpec
    ConsoleReturns
    ExitLeadsToWizard
    RequestHonoured
