\* Two answers of up to two calls, on any wires.
CONSTANTS
    a = a
    b = b
    Names <- MCNames
    NoName = NoName
    None = None
    Answers <- MCAnswers
    MaxCalls = 2
    MaxAnswers = 2
    MaxMessages = 5
    MaxWindow = 1
CHECK_DEADLOCK FALSE
SPECIFICATION Spec
SYMMETRY Symmetry
INVARIANTS
    TypeOK
    NamedAfterCalls
    PairedById
    RolesAlternate
    AnsweredAtOnce
    NothingLost
    StreamAgreesWithComplete
    CutShortIsATruncation
