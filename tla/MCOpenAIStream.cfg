\* Answers of up to three tool calls of up to two pieces, interleaved in every way.
CONSTANTS
    Absent = Absent
    None = None
    Answers <- MCAnswers
    MaxText = 1
    MaxCalls = 3
    MaxPieces = 2
CHECK_DEADLOCK FALSE
SPECIFICATION Spec
INVARIANTS
    TypeOK
    StreamAgreesWithComplete
    CutShortIsATruncation
