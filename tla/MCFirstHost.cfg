CONSTANTS
    Hosts = {h1, h2}
    NoHost = nohost
    Ports = {1, 2, 3}
    BadPort = 0
    MaxTokens = 3
    Names = {"a", "b", "c"}
    Registrations <- MCRegistrations
    Intervals = {1, 2}
    Minute = 3
    ProbeTimeout = 2
    PostTimeout = 1
    FreshAge = 2
SPECIFICATION Spec
INVARIANTS FirstHostInherited
