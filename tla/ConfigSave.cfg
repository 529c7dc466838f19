SPECIFICATION Spec
CONSTANTS
    WordMod = 65536
    CONFIG_MAGIC = 42362
    CONFIG_VERSION = 1
    Defaults <- MCDefaults
    HostGains <- MCHostGains
    Reorders = FALSE
INVARIANTS TypeOK GainsTakeEffect GainsWhole AnswerHolds
PROPERTIES SectorNeverMixed
