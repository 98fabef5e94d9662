\* Both queues equally deep, as in the code.
SPECIFICATION LiveSpec
CONSTANTS
    JobLen = 2
    VerdictLen = 2
    MaxPress = 2
    RetryCap = 1
INVARIANTS TypeOK DashPendingBacked OnePlace VerdictTruthful PressOrder
PROPERTIES PollingResumes
