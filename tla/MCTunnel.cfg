CONSTANTS
    CheckInterval = 1
    RefreshInterval = 2
    HandshakeTimeout = 3
    MaxBackoff = 4
    Slack = 1
    Never = 5
    ForceUserspace = FALSE
    Addresses = {a1, a2}
    MaxTrouble = 2
SPECIFICATION LiveSpec
INVARIANTS TypeOK IInv StatusFresh DeviceReleased NotDownForLong
PROPERTIES Recovers Stops
