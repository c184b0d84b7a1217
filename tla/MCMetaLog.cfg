SPECIFICATION Spec
CONSTANTS
    None = None
    k1 = k1
    k2 = k2
    Keys = {k1, k2}
    Uses <- AllUses
    MaxNode = 4
\* After the last close, or when the constructor has failed, nothing happens.
CHECK_DEADLOCK FALSE
INVARIANTS
    TypeOK
    SessionsKeep
    CorrectionSpares
    RecoveredIsWhole
    ClosedSurvives
