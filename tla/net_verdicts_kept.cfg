SPECIFICATION Spec
CONSTANTS
    JobLen = 1
    VerdictLen = 1
    MaxPress = 3
    RetryCap = 0
PROPERTY VerdictsKept
