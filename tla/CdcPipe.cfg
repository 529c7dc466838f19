SPECIFICATION Spec
CONSTANTS
    TxSize = 7
    ChunkSize = 2
    LineLen = 3
    MaxLines = 2
    MaxRetries = 1
    Suspends = TRUE
    Toggles = FALSE
    Resets = FALSE
PROPERTIES IsFifo QueueDrains
