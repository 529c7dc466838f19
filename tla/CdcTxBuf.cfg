SPECIFICATION Spec
CONSTANTS
    TxSize = 5
    ChunkSize = 2
    LineLen = 3
    MaxLines = 2
    MaxRetries = 1
    Suspends = FALSE
    Toggles = FALSE
    Resets = FALSE
PROPERTIES LineSentIsLineGiven
