SPECIFICATION Spec
CONSTANTS
    JobLen = 2
    VerdictLen = 2
    MaxPress = 1
    RetryCap = 2
INVARIANT OneRetry
