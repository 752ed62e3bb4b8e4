\* Every tool with a schema of up to three layers, two keywords in the lowest.
CONSTANTS
    Layers <- MCLayers
    Tools <- MCTools
    Values <- MCValues
CHECK_DEADLOCK FALSE
SPECIFICATION Spec
INVARIANTS
    TypeOK
    OnlyWidened
