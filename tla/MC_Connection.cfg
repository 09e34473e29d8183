\* Two clients, one of which may be killed or lose its connection.
SPECIFICATION FairSpec
CONSTANTS
    c1 = c1
    c2 = c2
    Clients = {c1, c2}
    Newlines <- Messages
    Colons <- TheirColons
    MaxLen = 4
    RioSize = 2
    Capacity = 2
    Addresses = 2
    Unsupported = {1}
    Descriptors = {3, 4, 5}
    Inherited = {{}, {3, 4}, {3, 4, 5}}
    Nobody = nobody
    Faults = {"getaddrinfo", "bind", "listen", "thread"}
    Unreliable = {c1}
INVARIANTS
    DescriptorsMatch
    ConnectFindsServer
PROPERTIES
    ImplementsLineStream
    LinesArrive
