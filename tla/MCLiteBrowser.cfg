SPECIFICATION FairSpec
CONSTANTS
    None = None
    short = short
    long = long
    tall = tall
    Pages = {short, long, tall}
    Tall = {tall}
    Height <- PageHeight
    Sizes <- TwoSizes
    Places = {1, 2}
    Uses <- AllUses
\* When everything asked for is done, nothing happens.
CHECK_DEADLOCK FALSE
INVARIANTS
    TypeOK
    DrawsFinished
    NativeAlive
    LayoutsBounded
    TextIsPages
PROPERTIES
    LoadShown
