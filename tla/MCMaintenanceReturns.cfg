SPECIFICATION FairLoopSpec
PROPERTY MaintenanceReturns
