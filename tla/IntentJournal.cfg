SPECIFICATION Spec
CONSTANTS
    c1 = c1
    c2 = c2
    sent = sent
    replied = replied
    v1 = v1
    v2 = v2
    x1 = x1
    None = None
    Mutating = Mutating
    Component = Component
    Commands = {c1, c2}
    Slots = {sent, replied}
    Needs <- MCNeeds
    Values = {v1, v2}
    Allocations <- MCAllocations
    Times = {1}
    MaxSyncErrors = 2
    MaxCuts = 1
SYMMETRY Symmetry
INVARIANTS
    OneCallPerSlot
    NothingIsInvented
    TruthsStand
