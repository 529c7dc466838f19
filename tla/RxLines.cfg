SPECIFICATION Spec
CONSTANTS
    RingSize = 4
    BufferSize = 3
    OutSize = 2
    PacketSize = 2
    MaxLines = 3
    Scripts <- MCScripts
INVARIANTS TypeOK LineIntact
PROPERTIES IsFifo LineDispatched
