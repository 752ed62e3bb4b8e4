\* Every response of up to six characters, in pieces of up to three.
CONSTANTS
    Alphabet <- MCAlphabet
    Whitespace <- MCWhitespace
    Newline <- MCNewline
    Open <- MCOpen
    Close <- MCClose
CHECK_DEADLOCK FALSE
SPECIFICATION Spec
CONSTANTS
    MaxLength = 6
    MaxDelta = 3
INVARIANTS
    TypeOK
    QuietUntilResolved
    OutputIsSuffix
    HidesOnlyTheBlock
    SameAnswer
