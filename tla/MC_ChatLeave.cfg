\* A sender joins a room and leaves it.
SPECIFICATION Spec
CONSTANTS
    Clients = {c1, c2}
    RoomObjects = {r1, r2}
    RoomNames = {lobby}
    NoRoom = none
    NoThread = nobody
    LoginTags <- FixedLogin
    Commands = {"join", "leave"}
    MaxRequests = 3
    Unreliable = {}
    Senders = {c1}
    Receivers = {c2}
PROPERTIES
    LeaveLeavesRoom
