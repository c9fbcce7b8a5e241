CONSTANTS
    Ports = {8096, 8989}
    DefaultPort = 8096
    Creds = {c1, c2, c3, c4}
    Keys = {k1, k2, k3, k4}
    ForeignKey = ForeignKey
    NoSeat = NoSeat
    MaxLate = 1
    Testers = {"startup", "dashboard"}
    LegacyGateway = FALSE
    External = FALSE
    IOErrors = FALSE
    MaxTrouble = 2
    NoFile = NoFile
    Empty = Empty
    Torn = Torn
    NoKey = NoKey
    NoReply = NoReply
SPECIFICATION Spec
INVARIANTS RunningServicesAssigned QuiescentReadable
PROPERTIES KeyStable RegistersOnlyWhenNeeded NeverDiscardsLive
