------------------------------ MODULE ChatServer -------------------------------
(***************************************************************************)
(* csf_assign05's chat server: one detached worker thread per accepted      *)
(* connection, running worker, chat_with_sender or chat_with_receiver of    *)
(* server.cpp over the rooms of Server::m_rooms.  The steps of a worker are *)
(* its mutex operations and the shared accesses between them; what a worker *)
(* does to its own variables is part of the step before it.                 *)
(*                                                                         *)
(* A connection and the worker that serves it have one name, and so has the *)
(* User object of a receiver, which its worker allocates once.  enqueue and *)
(* dequeue are single steps here: module MessageQueue shows that the queue  *)
(* with its own mutex and semaphore is a FIFO channel.                      *)
(***************************************************************************)
EXTENDS Naturals, Sequences

CONSTANTS
    Clients,        \* connections, each with its worker thread and its User
    RoomObjects,    \* heap addresses that new Room(...) may return
    RoomNames,
    NoRoom,         \* nullptr, and a name that m_rooms does not have
    NoThread,       \* owner of an unlocked mutex
    LoginTags,      \* bound: the login messages each client may send
    Commands,       \* bound: the messages a sender may send, a malformed one included
    Unreliable,     \* bound: the clients that may close or lose their connection
    MaxRequests     \* bound: messages each client sends, its login included

ASSUME ServerAssumption ==
    /\ NoRoom \notin RoomObjects
    /\ NoThread \notin Clients
    /\ NoRoom \notin RoomNames
    /\ LoginTags \in [Clients -> SUBSET {"slogin", "rlogin", "other"}]
    /\ Commands \subseteq {"join", "leave", "sendall", "quit", "other", "malformed"}
    /\ Unreliable \subseteq Clients
    /\ MaxRequests \in Nat

VARIABLES
    server,      \* the process: "up" or "crashed"
    pc,          \* where each worker is
    role,        \* the chat_with_ function of each worker that has logged in
    peer,        \* the client's end: "up", "closed" (FIN sent), "reset"
    requests,    \* messages each client has sent and the server has read
    replies,     \* answers ("ok", "err") the server has written to each client
    room,        \* each worker's local variable room
    wanted,      \* the room name of the join a worker is serving
    m_lock,      \* owner of Server::m_lock
    m_rooms,     \* Server::m_rooms, NoRoom where the map has no entry
    room_name,   \* Room::room_name, NoRoom where no Room is allocated
    lock,        \* owner of each Room::lock
    members,     \* Room::members
    users,       \* the User objects allocated and not deleted
    mqueue,      \* User::mqueue
    msg,         \* the message a receiver's worker took from its queue
    todo,        \* users the broadcast of a worker has still to reach
    broadcasts,  \* how many broadcasts each sender has begun
    delivered    \* deliveries that reached each receiver's client

serverVars == <<m_lock, m_rooms, room_name>>
roomVars == <<lock, members>>
userVars == <<users, mqueue>>

vars == <<server, pc, role, peer, requests, replies, room, wanted, m_lock, m_rooms, room_name,
          lock, members, users, mqueue, msg, todo, broadcasts, delivered>>

\* A delivery: the room's name, the sender, and which of its messages it is.
Messages == [room : RoomNames, from : Clients, number : 1..MaxRequests]

Init ==
    /\ server = "up"
    /\ pc = [c \in Clients |-> "none"]
    /\ role = [c \in Clients |-> "none"]
    /\ peer = [c \in Clients |-> "closed"]
    /\ requests = [c \in Clients |-> 0]
    /\ replies = [c \in Clients |-> 0]
    /\ room = [c \in Clients |-> NoRoom]
    /\ wanted = [c \in Clients |-> NoRoom]
    /\ m_lock = NoThread
    /\ m_rooms = [n \in RoomNames |-> NoRoom]
    /\ room_name = [r \in RoomObjects |-> NoRoom]
    /\ lock = [r \in RoomObjects |-> NoThread]
    /\ members = [r \in RoomObjects |-> {}]
    /\ users = {}
    /\ mqueue = [c \in Clients |-> <<>>]
    /\ msg = [c \in Clients |-> <<>>]
    /\ todo = [c \in Clients |-> {}]
    /\ broadcasts = [c \in Clients |-> 0]
    /\ delivered = [c \in Clients |-> <<>>]

--------------------------------------------------------------------------------
(* The socket, as Connection::send and Connection::receive see it *)

Goto(c, label) == pc' = [pc EXCEPT ![c] = label]

At(c, label) == server = "up" /\ pc[c] = label

\* A message of the client is read.  What it sent before it closed is still
\* there; after a reset nothing is.
Receive(c) ==
    /\ peer[c] # "reset"
    /\ requests[c] < MaxRequests
    /\ requests' = [requests EXCEPT ![c] = @ + 1]

\* receive returns false: end of file, an error, or a line without a colon.
\* Only the last one is a message of the client.
ReceiveFails(c) ==
    \/ peer[c] # "up" /\ UNCHANGED requests
    \/ "malformed" \in Commands /\ Receive(c)

\* An answer is written.  A closed peer's kernel takes it and drops it.
Reply(c) ==
    replies' = [replies EXCEPT ![c] = IF peer[c] = "reset" THEN @ ELSE @ + 1]

NoAnswer == UNCHANGED <<requests, replies, delivered>>

\* What a step leaves alone that only talks to the client.
NothingShared == UNCHANGED <<serverVars, roomVars, userVars, msg, todo, broadcasts>>

--------------------------------------------------------------------------------
(* The client's side of the connection *)

\* The client closes its end: what it wrote can be read, then end of file.
Disconnect(c) ==
    /\ server = "up"
    /\ c \in Unreliable
    /\ pc[c] \notin {"none", "closed"}
    /\ peer[c] = "up"
    /\ peer' = [peer EXCEPT ![c] = "closed"]
    /\ UNCHANGED <<server, pc, role, room, wanted>>
    /\ NothingShared /\ NoAnswer

\* The connection breaks: from now on reads and writes fail.
Reset(c) ==
    /\ server = "up"
    /\ c \in Unreliable
    /\ pc[c] \notin {"none", "closed"}
    /\ peer[c] # "reset"
    /\ peer' = [peer EXCEPT ![c] = "reset"]
    /\ UNCHANGED <<server, pc, role, room, wanted>>
    /\ NothingShared /\ NoAnswer

--------------------------------------------------------------------------------
(* Server::handle_client_requests and worker *)

\* The main thread accepts a connection; its worker thread starts or, when
\* pthread_create fails, the connection is closed at once.
Accept(c) ==
    /\ At(c, "none")
    /\ \E started \in BOOLEAN :
          IF started
          THEN Goto(c, "login") /\ peer' = [peer EXCEPT ![c] = "up"]
          ELSE Goto(c, "closed") /\ UNCHANGED peer
    /\ UNCHANGED <<server, role, room, wanted>>
    /\ NothingShared /\ NoAnswer

Login(c) ==
    /\ At(c, "login")
    /\ Receive(c)
    /\ Reply(c)
    /\ \E tag \in LoginTags[c] :
          IF tag = "other"
          THEN Goto(c, "closed") /\ UNCHANGED role
          ELSE /\ Goto(c, "request")
               /\ role' = [role EXCEPT ![c] = IF tag = "slogin" THEN "sender" ELSE "receiver"]
    /\ UNCHANGED <<server, peer, room, wanted, delivered>>
    /\ NothingShared

\* receive failed, at the login, in chat_with_sender's loop or before the
\* receiver's join: an "err" answer, and the worker ends.
GiveUp(c) ==
    /\ At(c, "login") \/ At(c, "request")
    /\ ReceiveFails(c)
    /\ Reply(c)
    /\ Goto(c, "closed")
    /\ UNCHANGED <<server, role, peer, room, wanted, delivered>>
    /\ NothingShared

--------------------------------------------------------------------------------
(* chat_with_sender and the first message of chat_with_receiver *)

\* The worker reads a message of a kind that its role may get.
Request(c, r, tag) ==
    /\ At(c, "request")
    /\ role[c] = r
    /\ r = "receiver" \/ tag \in Commands
    /\ Receive(c)

\* The worker has more to do before it answers.
ServeAt(c, label) ==
    /\ Goto(c, label)
    /\ UNCHANGED <<server, role, peer, room, replies, delivered>>
    /\ NothingShared

\* Mutant: no answer is sent.
StaySilent(c, label) == UNCHANGED wanted /\ ServeAt(c, label)

\* The worker answers at once and waits for the next request, or ends.
AnswerAndGoto(c, label) ==
    /\ Reply(c)
    /\ Goto(c, label)
    /\ UNCHANGED <<server, role, peer, room, wanted, delivered>>
    /\ NothingShared

Join(c) ==
    /\ Request(c, "sender", "join") \/ Request(c, "receiver", "join")
    /\ room[c] = NoRoom
    /\ \E n \in RoomNames : wanted' = [wanted EXCEPT ![c] = n]
    /\ ServeAt(c, "find")

SendAll(c) ==
    /\ Request(c, "sender", "sendall")
    /\ room[c] # NoRoom
    /\ UNCHANGED wanted
    /\ ServeAt(c, "broadcast")

\* room is set to nullptr and its name is asked for: the process dies.
Leave(c) ==
    /\ Request(c, "sender", "leave")
    /\ room[c] # NoRoom
    /\ room' = [room EXCEPT ![c] = NoRoom]
    /\ server' = "crashed"
    /\ UNCHANGED <<pc, role, peer, wanted, replies, delivered>>
    /\ NothingShared

\* The "err" answers that leave a sender in the loop.
Refuse(c) ==
    /\ \/ Request(c, "sender", "join") /\ room[c] # NoRoom
       \/ Request(c, "sender", "leave") /\ room[c] = NoRoom
       \/ Request(c, "sender", "sendall") /\ room[c] = NoRoom
       \/ Request(c, "sender", "other")
    /\ AnswerAndGoto(c, "request")

\* quit, or a receiver's first message that is not a join: the last answer.
Quit(c) ==
    /\ Request(c, "sender", "quit") \/ Request(c, "receiver", "other")
    /\ AnswerAndGoto(c, "closed")

\* The "ok" of a join, of a broadcast and of the receiver's welcome.
Acknowledge(c) ==
    /\ At(c, "joined") \/ At(c, "sent") \/ At(c, "welcome")
    /\ Reply(c)
    /\ Goto(c, IF pc[c] = "welcome" THEN "waiting" ELSE "request")
    /\ UNCHANGED <<server, role, peer, requests, room, wanted, delivered>>
    /\ NothingShared

--------------------------------------------------------------------------------
(* Server::find_or_create_room *)

\* What find_or_create_room leaves alone.
FindFrame ==
    /\ UNCHANGED <<server, role, peer, wanted>>
    /\ UNCHANGED <<roomVars, userVars, msg, todo, broadcasts>>
    /\ NoAnswer

\* Guard's constructor waits for the map's mutex.  Mutant: there is no Guard.
NoMapGuard == TRUE
MapIsFree == m_lock = NoThread

LockRooms(c) ==
    /\ At(c, "find")
    /\ MapIsFree
    /\ m_lock' = c
    /\ Goto(c, "lookup")
    /\ UNCHANGED <<room, m_rooms, room_name>>
    /\ FindFrame

\* The caller gets the room, and Guard's destructor releases the map.
ReturnRoom(c, r) ==
    /\ room' = [room EXCEPT ![c] = r]
    /\ m_lock' = NoThread
    /\ Goto(c, IF role[c] = "sender" THEN "joined" ELSE "adding")

FindRoom(c) ==
    /\ At(c, "lookup")
    /\ m_rooms[wanted[c]] # NoRoom
    /\ ReturnRoom(c, m_rooms[wanted[c]])
    /\ UNCHANGED <<m_rooms, room_name>>
    /\ FindFrame

MissRoom(c) ==
    /\ At(c, "lookup")
    /\ m_rooms[wanted[c]] = NoRoom
    /\ Goto(c, "create")
    /\ UNCHANGED <<room, m_lock, m_rooms, room_name>>
    /\ FindFrame

CreateRoom(c) ==
    /\ At(c, "create")
    /\ \E r \in RoomObjects :
          /\ room_name[r] = NoRoom
          /\ room_name' = [room_name EXCEPT ![r] = wanted[c]]
          /\ m_rooms' = [m_rooms EXCEPT ![wanted[c]] = r]
          /\ ReturnRoom(c, r)
    /\ FindFrame

--------------------------------------------------------------------------------
(* Room: add_member, remove_member, broadcast_message *)

\* What the steps of a worker inside a Room leave alone.
RoomFrame == UNCHANGED <<server, role, peer, room, wanted, serverVars>>

\* Guard's constructor waits for the room's mutex.  Mutant: there is no Guard.
NoRoomGuard(c) == TRUE
RoomIsFree(c) == lock[room[c]] = NoThread

\* new User, and add_member under the room's lock.
AddMember(c) ==
    /\ At(c, "adding")
    /\ RoomIsFree(c)
    /\ users' = users \cup {c}
    /\ mqueue' = [mqueue EXCEPT ![c] = <<>>]
    /\ members' = [members EXCEPT ![room[c]] = @ \cup {c}]
    /\ Goto(c, "welcome")
    /\ UNCHANGED <<lock, msg, todo, broadcasts>>
    /\ RoomFrame /\ NoAnswer

RemoveMember(c) ==
    /\ At(c, "removing")
    /\ RoomIsFree(c)
    /\ members' = [members EXCEPT ![room[c]] = @ \ {c}]
    /\ Goto(c, "deleting")
    /\ UNCHANGED <<lock, users, mqueue, msg, todo, broadcasts>>
    /\ RoomFrame /\ NoAnswer

\* delete user drains the queue; the worker ends and its connection closes.
DeleteUser(c) ==
    /\ At(c, "deleting")
    /\ users' = users \ {c}
    /\ mqueue' = [mqueue EXCEPT ![c] = <<>>]
    /\ Goto(c, "closed")
    /\ UNCHANGED <<lock, members, msg, todo, broadcasts>>
    /\ RoomFrame /\ NoAnswer

\* broadcast_message takes the room's lock and starts to walk over members.
LockRoom(c) ==
    /\ At(c, "broadcast")
    /\ RoomIsFree(c)
    /\ lock' = [lock EXCEPT ![room[c]] = c]
    /\ todo' = [todo EXCEPT ![c] = members[room[c]]]
    /\ broadcasts' = [broadcasts EXCEPT ![c] = @ + 1]
    /\ Goto(c, "enqueueing")
    /\ UNCHANGED <<members, users, mqueue, msg>>
    /\ RoomFrame /\ NoAnswer

\* The message c is broadcasting.
Delivery(c) == [room |-> room_name[room[c]], from |-> c, number |-> broadcasts[c]]

\* std::set iterates in the order of the pointers: any order.
EnqueueTo(c, u) ==
    /\ At(c, "enqueueing")
    /\ u \in todo[c]
    /\ mqueue' = [mqueue EXCEPT ![u] = Append(@, Delivery(c))]
    /\ todo' = [todo EXCEPT ![c] = @ \ {u}]
    /\ UNCHANGED <<pc, lock, members, users, msg, broadcasts>>
    /\ RoomFrame /\ NoAnswer

\* Guard's destructor.  Mutant: the room stays locked.
KeepLock(c) == UNCHANGED lock
ReleaseLock(c) == lock' = [lock EXCEPT ![room[c]] = NoThread]

UnlockRoom(c) ==
    /\ At(c, "enqueueing")
    /\ todo[c] = {}
    /\ ReleaseLock(c)
    /\ Goto(c, "sent")
    /\ UNCHANGED <<members, users, mqueue, msg, todo, broadcasts>>
    /\ RoomFrame /\ NoAnswer

--------------------------------------------------------------------------------
(* chat_with_receiver's loop *)

\* What the loop leaves alone.
LoopFrame ==
    /\ UNCHANGED <<server, role, peer, room, wanted, requests, replies>>
    /\ UNCHANGED <<serverVars, roomVars, users, todo, broadcasts>>

\* A message is taken out of the queue, which keeps the rest.
TakeFromQueue(c, taken, rest) ==
    /\ At(c, "waiting")
    /\ mqueue[c] # <<>>
    /\ msg' = [msg EXCEPT ![c] = taken]
    /\ mqueue' = [mqueue EXCEPT ![c] = rest]
    /\ Goto(c, "delivering")
    /\ UNCHANGED delivered
    /\ LoopFrame

\* Mutant: everything is taken at once.
DequeueAll(c) == TakeFromQueue(c, mqueue[c], <<>>)

Dequeue(c) == TakeFromQueue(c, <<Head(mqueue[c])>>, Tail(mqueue[c]))

\* A second passed without a message: the loop goes round.
DequeueTimeout(c) ==
    /\ At(c, "waiting")
    /\ mqueue[c] = <<>>
    /\ UNCHANGED vars

\* send returns, and delete msg.
EndSend(c, label) ==
    /\ At(c, "delivering")
    /\ msg' = [msg EXCEPT ![c] = <<>>]
    /\ Goto(c, label)
    /\ UNCHANGED mqueue
    /\ LoopFrame

\* The bytes reach a client that is there to read them.
Send(c) == delivered' = [delivered EXCEPT ![c] = IF peer[c] = "up" THEN @ \o msg[c] ELSE @]

\* Mutant: the message is forgotten.
SendNothing(c) == peer[c] # "reset" /\ UNCHANGED delivered /\ EndSend(c, "waiting")

\* send succeeds even if the client has closed its end; the bytes are lost then.
SendDelivery(c) == peer[c] # "reset" /\ Send(c) /\ EndSend(c, "waiting")

\* Mutants: no remove_member, or send's result is ignored.
SendFailsAndDeletes(c) == peer[c] = "reset" /\ UNCHANGED delivered /\ EndSend(c, "deleting")
SendFailsUnnoticed(c) == peer[c] = "reset" /\ UNCHANGED delivered /\ EndSend(c, "waiting")

SendFails(c) == peer[c] = "reset" /\ UNCHANGED delivered /\ EndSend(c, "removing")

--------------------------------------------------------------------------------
\* What a worker does without waiting for its client.
Serve(c) ==
    \/ Acknowledge(c)
    \/ LockRooms(c) \/ FindRoom(c) \/ MissRoom(c) \/ CreateRoom(c)
    \/ AddMember(c) \/ RemoveMember(c) \/ DeleteUser(c)
    \/ LockRoom(c) \/ (\E u \in Clients : EnqueueTo(c, u)) \/ UnlockRoom(c)
    \/ Dequeue(c) \/ SendDelivery(c) \/ SendFails(c)

\* What needs the client to connect, to send or to go away.
ClientActs(c) ==
    \/ Accept(c) \/ Disconnect(c) \/ Reset(c)
    \/ Login(c) \/ GiveUp(c)
    \/ Join(c) \/ SendAll(c) \/ Leave(c) \/ Refuse(c) \/ Quit(c)

\* Nothing is left for the server to do: the process has died, or every worker
\* has ended or waits for a client that need not send anything.
Quiet ==
    /\ server = "crashed" \/ \A c \in Clients : pc[c] \in {"login", "request", "closed"}
    /\ UNCHANGED vars

Next ==
    \/ \E c \in Clients : Serve(c) \/ ClientActs(c) \/ DequeueTimeout(c)
    \/ Quiet

Spec == Init /\ [][Next]_vars

\* Every thread that can run is run.  Clients need not do anything.
FairSpec == Spec /\ \A c \in Clients : WF_vars(Serve(c))

--------------------------------------------------------------------------------
(* Correctness *)

Places == {"none", "login", "request", "find", "lookup", "create", "joined", "adding",
           "welcome", "waiting", "delivering", "removing", "deleting", "broadcast",
           "enqueueing", "sent", "closed"}

ThreadTypes ==
    /\ server \in {"up", "crashed"}
    /\ pc \in [Clients -> Places]
    /\ role \in [Clients -> {"none", "sender", "receiver"}]
    /\ peer \in [Clients -> {"up", "closed", "reset"}]
    /\ requests \in [Clients -> 0..MaxRequests]
    /\ replies \in [Clients -> Nat]
    /\ room \in [Clients -> RoomObjects \cup {NoRoom}]
    /\ wanted \in [Clients -> RoomNames \cup {NoRoom}]

SharedTypes ==
    /\ m_lock \in Clients \cup {NoThread}
    /\ m_rooms \in [RoomNames -> RoomObjects \cup {NoRoom}]
    /\ room_name \in [RoomObjects -> RoomNames \cup {NoRoom}]
    /\ lock \in [RoomObjects -> Clients \cup {NoThread}]
    /\ members \in [RoomObjects -> SUBSET Clients]
    /\ users \in SUBSET Clients
    /\ todo \in [Clients -> SUBSET Clients]

MessageTypes ==
    /\ mqueue \in [Clients -> Seq(Messages)]
    /\ msg \in [Clients -> Seq(Messages)]
    /\ \A c \in Clients : Len(msg[c]) <= 1
    /\ broadcasts \in [Clients -> 0..MaxRequests]
    /\ delivered \in [Clients -> Seq(Messages)]

\* The type of every variable.
TypeOK == ThreadTypes /\ SharedTypes /\ MessageTypes

\* A broadcast never reaches a deleted User: whoever a room lists, and whoever a
\* walk over a room has still to reach, is allocated.  delete user comes after
\* remove_member, and remove_member waits for the walk.
NoUseAfterFree ==
    /\ \A r \in RoomObjects : members[r] \subseteq users
    /\ \A c \in Clients : todo[c] \subseteq users

\* One Room object per name, whoever created it: two workers that join a new
\* name at the same time meet in the same room.
OneRoomPerName ==
    /\ \A r, s \in RoomObjects : room_name[r] = room_name[s] /\ room_name[r] # NoRoom => r = s
    /\ \A c \in Clients : room[c] # NoRoom => m_rooms[wanted[c]] = room[c]

\* The set a broadcast iterates over does not change under it: no iterator of
\* Room::members is invalidated by a receiver that comes or goes.
MembersStableDuringBroadcast ==
    [][\A r \in RoomObjects : lock[r] # NoThread => members'[r] = members[r]]_members

\* Everything a receiver has got or is about to get, in order.
Received(c) == delivered[c] \o msg[c] \o mqueue[c]

\* Any two receivers see the messages they both get in the same order.
TotalOrder ==
    \A c, d \in Clients :
        \A i, j \in 1..Len(Received(c)) : \A k, l \in 1..Len(Received(d)) :
            (Received(c)[i] = Received(d)[k] /\ Received(c)[j] = Received(d)[l])
                => (i < j <=> k < l)

\* Sender and server stay in step: when the server waits for a request it has
\* answered all earlier ones, once each, so that the n-th answer a client reads
\* is the answer to its n-th request.
OneAnswerPerRequest ==
    \A c \in Clients :
        pc[c] \in {"login", "request", "waiting"} /\ peer[c] # "reset" /\ server = "up"
            => replies[c] = requests[c]

--------------------------------------------------------------------------------
(* What makes the safety properties inductive *)

\* Server::m_lock belongs to the worker between lookup and return.
MapLockHeld == \A c \in Clients : m_lock = c <=> pc[c] \in {"lookup", "create"}

\* A Room's lock belongs to the worker that is walking over its members, ...
RoomLockHeld ==
    \A c \in Clients : \A r \in RoomObjects :
        lock[r] = c <=> pc[c] = "enqueueing" /\ room[c] = r

\* ... which walks over nothing but the members the room has now.
WalkIsInRoom ==
    \A c, u \in Clients : u \in todo[c] => pc[c] = "enqueueing" /\ u \in members[room[c]]

\* A User exists from before add_member until after remove_member.
UserPlaces == {"welcome", "waiting", "delivering", "removing"}

UsersAllocated == \A c \in Clients : c \in users <=> pc[c] \in UserPlaces \cup {"deleting"}

MembersReceive ==
    \A c \in Clients : \A r \in RoomObjects :
        c \in members[r] <=> pc[c] \in UserPlaces /\ room[c] = r

\* Who works in a room has one; who asks for one has a name for it.
RoomAtHand ==
    \A c \in Clients :
        /\ pc[c] \in UserPlaces \cup {"adding", "deleting", "broadcast", "enqueueing"}
              => room[c] \in RoomObjects
        /\ pc[c] \in {"find", "lookup", "create"} => room[c] = NoRoom /\ wanted[c] \in RoomNames
        /\ pc[c] = "create" => m_rooms[wanted[c]] = NoRoom
        /\ room[c] # NoRoom => wanted[c] \in RoomNames /\ m_rooms[wanted[c]] = room[c]

\* m_rooms and Room::room_name are inverse to each other.
MapMatchesNames ==
    /\ \A n \in RoomNames : m_rooms[n] # NoRoom => room_name[m_rooms[n]] = n
    /\ \A r \in RoomObjects : room_name[r] # NoRoom => m_rooms[room_name[r]] = r

\* Every broadcast answers a request of its own.
BroadcastsRequested ==
    \A c \in Clients : broadcasts[c] + (IF pc[c] = "broadcast" THEN 1 ELSE 0) <= requests[c]

\* A worker has a message in its hands exactly while it sends it.
MessageInHand == \A c \in Clients : msg[c] # <<>> <=> pc[c] = "delivering"

\* The number of a message being broadcast.
BroadcastNumbered == \A c \in Clients : pc[c] = "enqueueing" => broadcasts[c] >= 1

\* A receiver is taken out of its room only after its connection broke.
GoneIsBroken == \A c \in Clients : pc[c] \in {"removing", "deleting"} => peer[c] = "reset"

\* Between a request and its answer the client is owed one, otherwise none.
Serving == {"find", "lookup", "create", "joined", "adding", "welcome",
            "broadcast", "enqueueing", "sent"}

AnswersInStep ==
    \A c \in Clients :
        pc[c] # "closed" /\ (peer[c] # "reset" \/ pc[c] = "none") /\ server = "up"
            => replies[c] + (IF pc[c] \in Serving THEN 1 ELSE 0) = requests[c]

\* The inductive invariant of the server.
ServerInv ==
    /\ TypeOK
    /\ MapLockHeld
    /\ RoomLockHeld
    /\ WalkIsInRoom
    /\ UsersAllocated
    /\ MembersReceive
    /\ RoomAtHand
    /\ MapMatchesNames
    /\ BroadcastsRequested
    /\ MessageInHand
    /\ BroadcastNumbered
    /\ GoneIsBroken
    /\ AnswersInStep

--------------------------------------------------------------------------------
(* The abstract promise, and what must happen *)

\* The promise of RoomBroadcast.  The room's lock is where a broadcast happens:
\* what it has still to enqueue is on its way already.
Pending(c) ==
    IF \E b \in Clients : c \in todo[b]
    THEN <<Delivery(CHOOSE b \in Clients : c \in todo[b])>>
    ELSE <<>>

RoomMembers ==
    [n \in RoomNames |-> IF m_rooms[n] = NoRoom THEN {} ELSE members[m_rooms[n]]]

Inbox ==
    [c \in Clients |-> IF \E r \in RoomObjects : c \in members[r]
                       THEN msg[c] \o mqueue[c] \o Pending(c)
                       ELSE <<>>]

Connected == {c \in Clients : peer[c] = "up"}

Promise == INSTANCE RoomBroadcast WITH
    Users <- Clients, Rooms <- RoomNames,
    member <- RoomMembers, inbox <- Inbox, seen <- delivered, connected <- Connected

\* The server implements RoomBroadcast: broadcasts are atomic to the receivers of
\* a room, in one order for all of them, to the members of that room only, and
\* with nothing lost for a receiver that is connected.
ImplementsRoomBroadcast == Promise!Spec

\* The clients that the worker may take for a sender, or for a receiver.
MaySend == {c \in Clients : "slogin" \in LoginTags[c]}
MayReceive == {c \in Clients : "rlogin" \in LoginTags[c]}

\* A broadcast ends: no worker waits for ever for a lock of another.
BroadcastEnds ==
    \A c \in MaySend : (pc[c] = "broadcast") ~> (pc[c] = "sent" \/ server = "crashed")

\* The n-th message put into a receiver's queue reaches its client, unless the
\* client goes away or the process dies.  (After its login a client has MaxRequests - 1
\* requests.)
QueuedIsDelivered ==
    \A c \in MayReceive : \A n \in 1..MaxRequests - 1 :
        (Len(Received(c)) >= n)
            ~> (Len(delivered[c]) >= n \/ peer[c] # "up" \/ server = "crashed")

\* A receiver whose connection is broken is taken out of its room and deleted
\* once there is a message for it.
BrokenReceiverIsRemoved ==
    \A c \in MayReceive \cap Unreliable :
        (peer[c] = "reset" /\ c \in users /\ mqueue[c] # <<>>)
            ~> (c \notin users \/ server = "crashed")

\* What TAG_LEAVE of message.h says: "leave a chat room".  A sender in a room that
\* asks to leave is then in no room, and the server is there to tell it so.
LeaveLeavesRoom == [][\A c \in Clients : Leave(c) => server' = "up" /\ room'[c] = NoRoom]_vars
================================================================================
