\* Both queues equally deep, as in the code, and more presses than they hold.
SPECIFICATION LiveSpec
CONSTANTS
    JobLen = 1
    VerdictLen = 1
    MaxPress = 3
    RetryCap = 0
PROPERTIES KeepsBook PressAnswered
