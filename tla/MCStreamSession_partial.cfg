\* A consumer leaves its loop early, then asks for the final message.
CONSTANTS
    h1 = h1
    h2 = h2
    h3 = h3
    NoAnswer = NoAnswer
    Handles <- TwoCalls
    Wires <- OneWire
    MaxLines = 2
CHECK_DEADLOCK FALSE
SPECIFICATION Spec
PROPERTIES
    FinalAssemblesTheRest
