\* Three clients that may be anything and say anything.
SPECIFICATION Spec
CONSTANTS
    Clients = {c1, c2, c3}
    RoomObjects = {r1, r2}
    RoomNames = {lobby, attic}
    NoRoom = none
    NoThread = nobody
    LoginTags <- AnyLogin
    Commands = {"join", "leave", "sendall", "quit", "other", "malformed"}
    MaxRequests = 3
    Unreliable = {c1, c2, c3}
    Senders = {c1, c2, c3}
    Receivers = {}
SYMMETRY Interchangeable
INVARIANTS
    TypeOK
    NoUseAfterFree
    OneRoomPerName
    OneAnswerPerRequest
PROPERTIES
    MembersStableDuringBroadcast
    ImplementsRoomBroadcast
