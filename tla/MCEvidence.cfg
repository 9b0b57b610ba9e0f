SPECIFICATION EvidenceSpec
CONSTANTS
    SetNames = {"jungle", "fossil"}
    Catalogued = {"jungle"}
    NoSet = "unnamed"
    Products = {"box", "other"}
INVARIANTS
    FiledUnderObservedSet
CHECK_DEADLOCK FALSE
