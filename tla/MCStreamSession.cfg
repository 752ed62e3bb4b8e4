\* Three calls on one session, from any tasks, over a stream of up to three lines.
CONSTANTS
    h1 = h1
    h2 = h2
    h3 = h3
    NoAnswer = NoAnswer
    Handles <- ThreeCalls
    Wires <- AllWires
    MaxLines = 3
CHECK_DEADLOCK FALSE
SPECIFICATION FairSpec
INVARIANTS
    TypeOK
    OneReader
    InOrder
    DeltasAreTheText
PROPERTIES
    ContractSpec
    FinalSettles
