SPECIFICATION Spec
CONSTANTS
    Requests <- MCRequests
    Chars <- MCChars
    Codings = {"8N1", "7E1"}
    DefaultCoding = "8N1"
    Transfers = {10, 64}
    MaxPacket = 64
INVARIANTS TypeOK  Answerable HostNotDeceived
PROPERTIES  IsUsbStates
