SPECIFICATION Spec
CONSTANTS
    JobLen = 2
    VerdictLen = 2
    MaxPress = 1
    RetryCap = 0
INVARIANT OneDashWaits
