\* A tick is two seconds.
SPECIFICATION FairSpec
CONSTANTS
    PollActive = 1
    PollIdle = 2
    ActiveWindow = 2
    SleepAfter = 5
    BackoffStart = 1
    BackoffMax = 3
    StaleAfter = 4
    Connect = 3
    HttpTakes = {1, 2}
    QueueLen = 2
    MaxAct = 1
    MaxFailures = 3
INVARIANTS TypeOK FreshIsRecent OldOnlyInTrouble
PROPERTY SleepsWhenLeftAlone
