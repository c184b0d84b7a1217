SPECIFICATION FairSpec
CONSTANTS
    N = 6
    Times = 14
\* When the client has made its calls the server waits for ever.
CHECK_DEADLOCK FALSE
INVARIANTS
    TypeOK
    PagesExclusive
    AnswersMatch
    NextPageIsFree
PROPERTIES
    CallsReturn
    ImplementsCalls
