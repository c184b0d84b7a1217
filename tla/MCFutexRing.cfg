SPECIFICATION FairSpec
CONSTANTS
    N = 6
    Times = 8
    Failures <- AllFailures
\* When the client makes no more calls the server waits for ever.
CHECK_DEADLOCK FALSE
INVARIANTS
    TypeOK
    WordsTellHands
    SleepersAreSeen
    AnswersMatch
    SurvivorStops
PROPERTIES
    CallsReturn
    ServerEnds
    ImplementsRing
