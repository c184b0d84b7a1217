SPECIFICATION Spec
CONSTANTS
    None = None
    outer = outer
    inner = inner
    array = array
    Objects = {outer, inner, array}
    Lists = {array}
    MaxDeep = 1
    Slots = 2
    SystemSlots = 2
    HashSize = 16777216
    Uses <- AllUses
\* After the last message nothing happens any more.
CHECK_DEADLOCK FALSE
INVARIANT
    SkipsUncounted
