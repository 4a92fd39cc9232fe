\* One boot, with or without a Python wizard.
SPECIFICATION Spec
INVARIANTS
    TypeOK
    NoSecondQuestions
    ReportTruthful
PROPERTY StaleMarkerIgnored
