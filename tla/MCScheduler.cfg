\* One Task over two seconds: one user's action and one crash, with fairness.
SPECIFICATION FairSpec
CONSTANTS
    MaxEdits = 1
    None = None
    MaxTime = 1
    Period = 1
    MaxCrashes = 1
PROPERTY ReportsAreFinal
PROPERTY OutcomeNamesItsRun
PROPERTY SkipIsRecorded
PROPERTY LastRunAdvances
PROPERTY RequestIsActedOn
CHECK_DEADLOCK FALSE
