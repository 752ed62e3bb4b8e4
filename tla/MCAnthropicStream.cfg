\* Answers of up to three blocks of up to two pieces, interleaved in every way.
CONSTANTS
    Absent = Absent
    None = None
    Answers <- MCAnswers
    MaxBlocks = 3
    MaxPieces = 2
CHECK_DEADLOCK FALSE
SPECIFICATION Spec
INVARIANTS
    TypeOK
    StreamAgreesWithComplete
    CutShortIsATruncation
    DeltasAreKept
