\* Two senders that broadcast at the same time to two receivers, under fair scheduling.
SPECIFICATION FairSpec
CONSTANTS
    Clients = {c1, c2, c3, c4}
    RoomObjects = {r1}
    RoomNames = {lobby}
    NoRoom = none
    NoThread = nobody
    LoginTags <- FixedLogin
    Commands = {"join", "sendall"}
    MaxRequests = 3
    Unreliable = {c3}
    Senders = {c1, c2}
    Receivers = {c3, c4}
INVARIANTS
    TotalOrder
PROPERTIES
    BroadcastEnds
    QueuedIsDelivered
    BrokenReceiverIsRemoved
