\* A timeout of five steps leaves time for one retry, and for an attempt that begins with less
\* than MinTimeout left.
SPECIFICATION FairSpec
CONSTANTS
    RetryCount = 2
    Timeout = 5
    MinTimeout = 4
    Rounds = 2
    MaxEvents = 3
INVARIANTS
    OneWholeAnswer
    UsageOfTheAnswer
    NextRoundAccepted
PROPERTY RunSettles
