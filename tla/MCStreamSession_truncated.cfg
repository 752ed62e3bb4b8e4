\* The body ends before any finish reason has come.
CONSTANTS
    h1 = h1
    h2 = h2
    h3 = h3
    NoAnswer = NoAnswer
    Handles <- TwoCalls
    Wires <- OneWire
    MaxLines = 2
CHECK_DEADLOCK FALSE
SPECIFICATION Spec
INVARIANTS
    DoneMeansFinished
