\* The shortest response on which the two disagree.
CONSTANTS
    Alphabet <- MCAlphabet
    Whitespace <- MCWhitespace
    Newline <- MCNewline
    Open <- MCOpen
    Close <- MCClose
CHECK_DEADLOCK FALSE
SPECIFICATION Spec
CONSTANTS
    MaxLength = 5
    MaxDelta = 4
INVARIANTS
    StreamingCounterpart
