--------------------------- MODULE ChatServer_proofs ---------------------------
(***************************************************************************)
(* Proofs about ChatServer, for any number of clients, rooms and requests,  *)
(* and that it implements RoomBroadcast.                                     *)
(***************************************************************************)
EXTENDS ChatServer, SequenceTheorems, TLAPS

--------------------------------------------------------------------------------
(* What a client can make its worker do, seen from the rest of the server. *)

SharedUnchanged ==
    UNCHANGED <<m_lock, m_rooms, room_name, lock, members, users, mqueue, msg, todo, broadcasts, delivered>>

\* A worker that waits for its client works in no room and holds no lock: c goes
\* nowhere, loses its room, waits on or ends, starts a join or starts a sendall.
ClientFrame(c) ==
    /\ SharedUnchanged
    /\ \A d \in Clients \ {c} :
          /\ pc'[d] = pc[d] /\ room'[d] = room[d] /\ wanted'[d] = wanted[d]
          /\ requests'[d] = requests[d]
    /\ \/ pc'[c] = pc[c] /\ room'[c] = room[c] /\ wanted'[c] = wanted[c]
       \/ pc[c] = "request" /\ pc'[c] = pc[c] /\ room'[c] = NoRoom
       \/ /\ pc[c] \in {"none", "login", "request"} /\ pc'[c] \in {"login", "request", "closed"}
          /\ room'[c] = room[c] /\ wanted'[c] = wanted[c]
       \/ /\ pc[c] = "request" /\ pc'[c] = "find"
          /\ room[c] = NoRoom /\ room'[c] = NoRoom /\ wanted'[c] \in RoomNames
       \/ /\ pc[c] = "request" /\ pc'[c] = "broadcast"
          /\ room[c] # NoRoom /\ room'[c] = room[c] /\ wanted'[c] = wanted[c]
          /\ requests'[c] = requests[c] + 1
    /\ requests'[c] \in {requests[c], requests[c] + 1}
    /\ \A d \in Clients : pc[d] # "none" /\ peer[d] = "reset" => peer'[d] = "reset"

\* The frame holds for each of the ten things a client may do.
LEMMA ClientSteps == ASSUME TypeOK, NEW c \in Clients, ClientActs(c) PROVE ClientFrame(c)
<1> USE DEF TypeOK, ThreadTypes, ClientFrame, SharedUnchanged, NothingShared, serverVars, roomVars, userVars,
            AnswerAndGoto, ServeAt, Request, Receive, ReceiveFails, Goto, At, NoAnswer
<1>1. CASE Accept(c)
    BY <1>1 DEF Accept
<1>2. CASE Disconnect(c)
    BY <1>2 DEF Disconnect
<1>3. CASE Reset(c)
    BY <1>3 DEF Reset
<1>4. CASE Login(c)
    BY <1>4 DEF Login
<1>5. CASE GiveUp(c)
    BY <1>5 DEF GiveUp
<1>6. CASE Join(c)
    BY <1>6 DEF Join
<1>7. CASE SendAll(c)
    BY <1>7 DEF SendAll
<1>8. CASE Leave(c)
    BY <1>8 DEF Leave
<1>9. CASE Refuse(c)
    BY <1>9 DEF Refuse, AnswerAndGoto
<1>10. CASE Quit(c)
    BY <1>10 DEF Quit, AnswerAndGoto
<1> QED
    BY <1>1, <1>2, <1>3, <1>4, <1>5, <1>6, <1>7, <1>8, <1>9, <1>10 DEF ClientActs

\* Guard in find_or_create_room: the map's mutex follows the worker inside.
LEMMA MapLockHeldStep == ServerInv /\ [Next]_vars => MapLockHeld'
<1> SUFFICES ASSUME ServerInv, [Next]_vars PROVE MapLockHeld'
    OBVIOUS
<1>0. /\ TypeOK /\ MapLockHeld
      /\ pc \in [Clients -> Places]
      /\ m_lock \in Clients \cup {NoThread}
    BY DEF ServerInv, TypeOK, ThreadTypes, SharedTypes, MessageTypes
<1> USE <1>0, ServerAssumption
    DEF MapLockHeld, UserPlaces, Places,
        serverVars, roomVars, userVars, NothingShared, NoAnswer, FindFrame,
        ReturnRoom, RoomFrame, LoopFrame, Reply, Goto, At
<1>1. ASSUME NEW c \in Clients, ClientActs(c) PROVE MapLockHeld'
  <2>1. ClientFrame(c)
    BY <1>1, ClientSteps
  <2> QED BY <2>1 DEF ClientFrame, SharedUnchanged
<1>2. ASSUME NEW c \in Clients, Acknowledge(c) PROVE MapLockHeld'
    BY <1>2 DEF Acknowledge
<1>3. ASSUME NEW c \in Clients, LockRooms(c) PROVE MapLockHeld'
    BY <1>3 DEF LockRooms, MapIsFree
<1>4. ASSUME NEW c \in Clients, FindRoom(c) PROVE MapLockHeld'
    BY <1>4 DEF FindRoom
<1>5. ASSUME NEW c \in Clients, MissRoom(c) PROVE MapLockHeld'
    BY <1>5 DEF MissRoom
<1>6. ASSUME NEW c \in Clients, CreateRoom(c) PROVE MapLockHeld'
    BY <1>6 DEF CreateRoom
<1>7. ASSUME NEW c \in Clients, AddMember(c) PROVE MapLockHeld'
    BY <1>7 DEF AddMember, RoomIsFree
<1>8. ASSUME NEW c \in Clients, RemoveMember(c) PROVE MapLockHeld'
    BY <1>8 DEF RemoveMember, RoomIsFree
<1>9. ASSUME NEW c \in Clients, DeleteUser(c) PROVE MapLockHeld'
    BY <1>9 DEF DeleteUser
<1>10. ASSUME NEW c \in Clients, LockRoom(c) PROVE MapLockHeld'
    BY <1>10 DEF LockRoom, RoomIsFree
<1>11. ASSUME NEW c \in Clients, UnlockRoom(c) PROVE MapLockHeld'
    BY <1>11 DEF UnlockRoom, ReleaseLock
<1>12. ASSUME NEW c \in Clients, Dequeue(c) PROVE MapLockHeld'
    BY <1>12 DEF Dequeue, TakeFromQueue
<1>13. ASSUME NEW c \in Clients, SendDelivery(c) PROVE MapLockHeld'
    BY <1>13 DEF SendDelivery, Send, EndSend
<1>14. ASSUME NEW c \in Clients, SendFails(c) PROVE MapLockHeld'
    BY <1>14 DEF SendFails, EndSend
<1>15. ASSUME NEW c \in Clients, NEW u \in Clients, EnqueueTo(c, u) PROVE MapLockHeld'
    BY <1>15 DEF EnqueueTo
<1>16. CASE UNCHANGED vars
    BY <1>16 DEF vars
<1> QED
    BY <1>1, <1>2, <1>3, <1>4, <1>5, <1>6, <1>7, <1>8, <1>9, <1>10, <1>11, <1>12, <1>13, <1>14, <1>15, <1>16
    DEF Next, Serve, DequeueTimeout, Quiet

\* Guard in broadcast_message: a room's mutex follows the worker that walks.
LEMMA RoomLockHeldStep == ServerInv /\ [Next]_vars => RoomLockHeld'
<1> SUFFICES ASSUME ServerInv, [Next]_vars PROVE RoomLockHeld'
    OBVIOUS
<1>0. /\ TypeOK /\ RoomLockHeld /\ RoomAtHand
      /\ pc \in [Clients -> Places]
      /\ lock \in [RoomObjects -> Clients \cup {NoThread}]
      /\ room \in [Clients -> RoomObjects \cup {NoRoom}]
    BY DEF ServerInv, TypeOK, ThreadTypes, SharedTypes, MessageTypes
<1> USE <1>0, ServerAssumption
    DEF RoomLockHeld, RoomAtHand, UserPlaces, Places,
        serverVars, roomVars, userVars, NothingShared, NoAnswer, FindFrame,
        ReturnRoom, RoomFrame, LoopFrame, Reply, Goto, At
<1>1. ASSUME NEW c \in Clients, ClientActs(c) PROVE RoomLockHeld'
  <2>1. ClientFrame(c)
    BY <1>1, ClientSteps
  <2> QED BY <2>1 DEF ClientFrame, SharedUnchanged
<1>2. ASSUME NEW c \in Clients, Acknowledge(c) PROVE RoomLockHeld'
    BY <1>2 DEF Acknowledge
<1>3. ASSUME NEW c \in Clients, LockRooms(c) PROVE RoomLockHeld'
    BY <1>3 DEF LockRooms, MapIsFree
<1>4. ASSUME NEW c \in Clients, FindRoom(c) PROVE RoomLockHeld'
    BY <1>4 DEF FindRoom
<1>5. ASSUME NEW c \in Clients, MissRoom(c) PROVE RoomLockHeld'
    BY <1>5 DEF MissRoom
<1>6. ASSUME NEW c \in Clients, CreateRoom(c) PROVE RoomLockHeld'
    BY <1>6 DEF CreateRoom
<1>7. ASSUME NEW c \in Clients, AddMember(c) PROVE RoomLockHeld'
    BY <1>7 DEF AddMember, RoomIsFree
<1>8. ASSUME NEW c \in Clients, RemoveMember(c) PROVE RoomLockHeld'
    BY <1>8 DEF RemoveMember, RoomIsFree
<1>9. ASSUME NEW c \in Clients, DeleteUser(c) PROVE RoomLockHeld'
    BY <1>9 DEF DeleteUser
<1>10. ASSUME NEW c \in Clients, LockRoom(c) PROVE RoomLockHeld'
    BY <1>10 DEF LockRoom, RoomIsFree
<1>11. ASSUME NEW c \in Clients, UnlockRoom(c) PROVE RoomLockHeld'
    BY <1>11 DEF UnlockRoom, ReleaseLock
<1>12. ASSUME NEW c \in Clients, Dequeue(c) PROVE RoomLockHeld'
    BY <1>12 DEF Dequeue, TakeFromQueue
<1>13. ASSUME NEW c \in Clients, SendDelivery(c) PROVE RoomLockHeld'
    BY <1>13 DEF SendDelivery, Send, EndSend
<1>14. ASSUME NEW c \in Clients, SendFails(c) PROVE RoomLockHeld'
    BY <1>14 DEF SendFails, EndSend
<1>15. ASSUME NEW c \in Clients, NEW u \in Clients, EnqueueTo(c, u) PROVE RoomLockHeld'
  <2>1. UNCHANGED <<pc, room, lock>>
    BY <1>15 DEF EnqueueTo
  <2> QED BY <2>1
<1>16. CASE UNCHANGED vars
    BY <1>16 DEF vars
<1> QED
    BY <1>1, <1>2, <1>3, <1>4, <1>5, <1>6, <1>7, <1>8, <1>9, <1>10, <1>11, <1>12, <1>13, <1>14, <1>15, <1>16
    DEF Next, Serve, DequeueTimeout, Quiet

\* Nobody leaves a room while it is walked over.
LEMMA WalkIsInRoomStep == ServerInv /\ [Next]_vars => WalkIsInRoom'
<1> SUFFICES ASSUME ServerInv, [Next]_vars PROVE WalkIsInRoom'
    OBVIOUS
<1>0. /\ TypeOK /\ WalkIsInRoom /\ RoomLockHeld /\ RoomAtHand
      /\ pc \in [Clients -> Places]
      /\ lock \in [RoomObjects -> Clients \cup {NoThread}]
      /\ room \in [Clients -> RoomObjects \cup {NoRoom}]
      /\ members \in [RoomObjects -> SUBSET Clients]
      /\ todo \in [Clients -> SUBSET Clients]
    BY DEF ServerInv, TypeOK, ThreadTypes, SharedTypes, MessageTypes
<1> USE <1>0, ServerAssumption
    DEF WalkIsInRoom, RoomLockHeld, RoomAtHand, UserPlaces, Places,
        serverVars, roomVars, userVars, NothingShared, NoAnswer, FindFrame,
        ReturnRoom, RoomFrame, LoopFrame, Reply, Goto, At
<1>1. ASSUME NEW c \in Clients, ClientActs(c) PROVE WalkIsInRoom'
  <2>1. ClientFrame(c)
    BY <1>1, ClientSteps
  <2> QED BY <2>1 DEF ClientFrame, SharedUnchanged
<1>2. ASSUME NEW c \in Clients, Acknowledge(c) PROVE WalkIsInRoom'
    BY <1>2 DEF Acknowledge
<1>3. ASSUME NEW c \in Clients, LockRooms(c) PROVE WalkIsInRoom'
    BY <1>3 DEF LockRooms, MapIsFree
<1>4. ASSUME NEW c \in Clients, FindRoom(c) PROVE WalkIsInRoom'
    BY <1>4 DEF FindRoom
<1>5. ASSUME NEW c \in Clients, MissRoom(c) PROVE WalkIsInRoom'
    BY <1>5 DEF MissRoom
<1>6. ASSUME NEW c \in Clients, CreateRoom(c) PROVE WalkIsInRoom'
    BY <1>6 DEF CreateRoom
<1>7. ASSUME NEW c \in Clients, AddMember(c) PROVE WalkIsInRoom'
    BY <1>7 DEF AddMember, RoomIsFree
<1>8. ASSUME NEW c \in Clients, RemoveMember(c) PROVE WalkIsInRoom'
    BY <1>8 DEF RemoveMember, RoomIsFree
<1>9. ASSUME NEW c \in Clients, DeleteUser(c) PROVE WalkIsInRoom'
    BY <1>9 DEF DeleteUser
<1>10. ASSUME NEW c \in Clients, LockRoom(c) PROVE WalkIsInRoom'
    BY <1>10 DEF LockRoom, RoomIsFree
<1>11. ASSUME NEW c \in Clients, UnlockRoom(c) PROVE WalkIsInRoom'
    BY <1>11 DEF UnlockRoom, ReleaseLock
<1>12. ASSUME NEW c \in Clients, Dequeue(c) PROVE WalkIsInRoom'
    BY <1>12 DEF Dequeue, TakeFromQueue
<1>13. ASSUME NEW c \in Clients, SendDelivery(c) PROVE WalkIsInRoom'
    BY <1>13 DEF SendDelivery, Send, EndSend
<1>14. ASSUME NEW c \in Clients, SendFails(c) PROVE WalkIsInRoom'
    BY <1>14 DEF SendFails, EndSend
<1>15. ASSUME NEW c \in Clients, NEW u \in Clients, EnqueueTo(c, u) PROVE WalkIsInRoom'
  <2>1. UNCHANGED <<pc, room, members>>
    BY <1>15 DEF EnqueueTo
  <2>2. \A d \in Clients : todo'[d] \subseteq todo[d]
    BY <1>15 DEF EnqueueTo
  <2> QED BY <2>1, <2>2
<1>16. CASE UNCHANGED vars
    BY <1>16 DEF vars
<1> QED
    BY <1>1, <1>2, <1>3, <1>4, <1>5, <1>6, <1>7, <1>8, <1>9, <1>10, <1>11, <1>12, <1>13, <1>14, <1>15, <1>16
    DEF Next, Serve, DequeueTimeout, Quiet

\* new User and delete User bracket the receiver's time in its loop.
LEMMA UsersAllocatedStep == ServerInv /\ [Next]_vars => UsersAllocated'
<1> SUFFICES ASSUME ServerInv, [Next]_vars PROVE UsersAllocated'
    OBVIOUS
<1>0. /\ TypeOK /\ UsersAllocated
      /\ pc \in [Clients -> Places]
      /\ users \in SUBSET Clients
    BY DEF ServerInv, TypeOK, ThreadTypes, SharedTypes, MessageTypes
<1> USE <1>0, ServerAssumption
    DEF UsersAllocated, UserPlaces, Places,
        serverVars, roomVars, userVars, NothingShared, NoAnswer, FindFrame,
        ReturnRoom, RoomFrame, LoopFrame, Reply, Goto, At
<1>1. ASSUME NEW c \in Clients, ClientActs(c) PROVE UsersAllocated'
  <2>1. ClientFrame(c)
    BY <1>1, ClientSteps
  <2> QED BY <2>1 DEF ClientFrame, SharedUnchanged
<1>2. ASSUME NEW c \in Clients, Acknowledge(c) PROVE UsersAllocated'
    BY <1>2 DEF Acknowledge
<1>3. ASSUME NEW c \in Clients, LockRooms(c) PROVE UsersAllocated'
    BY <1>3 DEF LockRooms, MapIsFree
<1>4. ASSUME NEW c \in Clients, FindRoom(c) PROVE UsersAllocated'
    BY <1>4 DEF FindRoom
<1>5. ASSUME NEW c \in Clients, MissRoom(c) PROVE UsersAllocated'
    BY <1>5 DEF MissRoom
<1>6. ASSUME NEW c \in Clients, CreateRoom(c) PROVE UsersAllocated'
    BY <1>6 DEF CreateRoom
<1>7. ASSUME NEW c \in Clients, AddMember(c) PROVE UsersAllocated'
    BY <1>7 DEF AddMember, RoomIsFree
<1>8. ASSUME NEW c \in Clients, RemoveMember(c) PROVE UsersAllocated'
    BY <1>8 DEF RemoveMember, RoomIsFree
<1>9. ASSUME NEW c \in Clients, DeleteUser(c) PROVE UsersAllocated'
    BY <1>9 DEF DeleteUser
<1>10. ASSUME NEW c \in Clients, LockRoom(c) PROVE UsersAllocated'
    BY <1>10 DEF LockRoom, RoomIsFree
<1>11. ASSUME NEW c \in Clients, UnlockRoom(c) PROVE UsersAllocated'
    BY <1>11 DEF UnlockRoom, ReleaseLock
<1>12. ASSUME NEW c \in Clients, Dequeue(c) PROVE UsersAllocated'
    BY <1>12 DEF Dequeue, TakeFromQueue
<1>13. ASSUME NEW c \in Clients, SendDelivery(c) PROVE UsersAllocated'
    BY <1>13 DEF SendDelivery, Send, EndSend
<1>14. ASSUME NEW c \in Clients, SendFails(c) PROVE UsersAllocated'
    BY <1>14 DEF SendFails, EndSend
<1>15. ASSUME NEW c \in Clients, NEW u \in Clients, EnqueueTo(c, u) PROVE UsersAllocated'
    BY <1>15 DEF EnqueueTo
<1>16. CASE UNCHANGED vars
    BY <1>16 DEF vars
<1> QED
    BY <1>1, <1>2, <1>3, <1>4, <1>5, <1>6, <1>7, <1>8, <1>9, <1>10, <1>11, <1>12, <1>13, <1>14, <1>15, <1>16
    DEF Next, Serve, DequeueTimeout, Quiet

\* A room lists exactly the receivers that are in its loop.
LEMMA MembersReceiveStep == ServerInv /\ [Next]_vars => MembersReceive'
<1> SUFFICES ASSUME ServerInv, [Next]_vars PROVE MembersReceive'
    OBVIOUS
<1>0. /\ TypeOK /\ MembersReceive /\ RoomAtHand
      /\ pc \in [Clients -> Places]
      /\ room \in [Clients -> RoomObjects \cup {NoRoom}]
      /\ members \in [RoomObjects -> SUBSET Clients]
    BY DEF ServerInv, TypeOK, ThreadTypes, SharedTypes, MessageTypes
<1> USE <1>0, ServerAssumption
    DEF MembersReceive, RoomAtHand, UserPlaces, Places,
        serverVars, roomVars, userVars, NothingShared, NoAnswer, FindFrame,
        ReturnRoom, RoomFrame, LoopFrame, Reply, Goto, At
<1>1. ASSUME NEW c \in Clients, ClientActs(c) PROVE MembersReceive'
  <2>1. ClientFrame(c)
    BY <1>1, ClientSteps
  <2> QED BY <2>1 DEF ClientFrame, SharedUnchanged
<1>2. ASSUME NEW c \in Clients, Acknowledge(c) PROVE MembersReceive'
    BY <1>2 DEF Acknowledge
<1>3. ASSUME NEW c \in Clients, LockRooms(c) PROVE MembersReceive'
    BY <1>3 DEF LockRooms, MapIsFree
<1>4. ASSUME NEW c \in Clients, FindRoom(c) PROVE MembersReceive'
    BY <1>4 DEF FindRoom
<1>5. ASSUME NEW c \in Clients, MissRoom(c) PROVE MembersReceive'
    BY <1>5 DEF MissRoom
<1>6. ASSUME NEW c \in Clients, CreateRoom(c) PROVE MembersReceive'
    BY <1>6 DEF CreateRoom
<1>7. ASSUME NEW c \in Clients, AddMember(c) PROVE MembersReceive'
    BY <1>7 DEF AddMember, RoomIsFree
<1>8. ASSUME NEW c \in Clients, RemoveMember(c) PROVE MembersReceive'
    BY <1>8 DEF RemoveMember, RoomIsFree
<1>9. ASSUME NEW c \in Clients, DeleteUser(c) PROVE MembersReceive'
    BY <1>9 DEF DeleteUser
<1>10. ASSUME NEW c \in Clients, LockRoom(c) PROVE MembersReceive'
    BY <1>10 DEF LockRoom, RoomIsFree
<1>11. ASSUME NEW c \in Clients, UnlockRoom(c) PROVE MembersReceive'
    BY <1>11 DEF UnlockRoom, ReleaseLock
<1>12. ASSUME NEW c \in Clients, Dequeue(c) PROVE MembersReceive'
    BY <1>12 DEF Dequeue, TakeFromQueue
<1>13. ASSUME NEW c \in Clients, SendDelivery(c) PROVE MembersReceive'
    BY <1>13 DEF SendDelivery, Send, EndSend
<1>14. ASSUME NEW c \in Clients, SendFails(c) PROVE MembersReceive'
    BY <1>14 DEF SendFails, EndSend
<1>15. ASSUME NEW c \in Clients, NEW u \in Clients, EnqueueTo(c, u) PROVE MembersReceive'
    BY <1>15 DEF EnqueueTo
<1>16. CASE UNCHANGED vars
    BY <1>16 DEF vars
<1> QED
    BY <1>1, <1>2, <1>3, <1>4, <1>5, <1>6, <1>7, <1>8, <1>9, <1>10, <1>11, <1>12, <1>13, <1>14, <1>15, <1>16
    DEF Next, Serve, DequeueTimeout, Quiet

\* A worker's room pointer is the one m_rooms has for the name it asked for.
LEMMA RoomAtHandStep == ServerInv /\ [Next]_vars => RoomAtHand'
<1> SUFFICES ASSUME ServerInv, [Next]_vars PROVE RoomAtHand'
    OBVIOUS
<1>0. /\ TypeOK /\ RoomAtHand /\ MapLockHeld /\ MapMatchesNames
      /\ pc \in [Clients -> Places]
      /\ room \in [Clients -> RoomObjects \cup {NoRoom}]
      /\ wanted \in [Clients -> RoomNames \cup {NoRoom}]
      /\ m_lock \in Clients \cup {NoThread}
      /\ m_rooms \in [RoomNames -> RoomObjects \cup {NoRoom}]
      /\ room_name \in [RoomObjects -> RoomNames \cup {NoRoom}]
    BY DEF ServerInv, TypeOK, ThreadTypes, SharedTypes, MessageTypes
<1> USE <1>0, ServerAssumption
    DEF RoomAtHand, MapLockHeld, MapMatchesNames, UserPlaces, Places,
        serverVars, roomVars, userVars, NothingShared, NoAnswer, FindFrame,
        ReturnRoom, RoomFrame, LoopFrame, Reply, Goto, At
<1>1. ASSUME NEW c \in Clients, ClientActs(c) PROVE RoomAtHand'
  <2>1. ClientFrame(c)
    BY <1>1, ClientSteps
  <2> QED BY <2>1 DEF ClientFrame, SharedUnchanged
<1>2. ASSUME NEW c \in Clients, Acknowledge(c) PROVE RoomAtHand'
    BY <1>2 DEF Acknowledge
<1>3. ASSUME NEW c \in Clients, LockRooms(c) PROVE RoomAtHand'
    BY <1>3 DEF LockRooms, MapIsFree
<1>4. ASSUME NEW c \in Clients, FindRoom(c) PROVE RoomAtHand'
    BY <1>4 DEF FindRoom
<1>5. ASSUME NEW c \in Clients, MissRoom(c) PROVE RoomAtHand'
    BY <1>5 DEF MissRoom
<1>6. ASSUME NEW c \in Clients, CreateRoom(c) PROVE RoomAtHand'
    BY <1>6 DEF CreateRoom
<1>7. ASSUME NEW c \in Clients, AddMember(c) PROVE RoomAtHand'
    BY <1>7 DEF AddMember, RoomIsFree
<1>8. ASSUME NEW c \in Clients, RemoveMember(c) PROVE RoomAtHand'
    BY <1>8 DEF RemoveMember, RoomIsFree
<1>9. ASSUME NEW c \in Clients, DeleteUser(c) PROVE RoomAtHand'
    BY <1>9 DEF DeleteUser
<1>10. ASSUME NEW c \in Clients, LockRoom(c) PROVE RoomAtHand'
    BY <1>10 DEF LockRoom, RoomIsFree
<1>11. ASSUME NEW c \in Clients, UnlockRoom(c) PROVE RoomAtHand'
    BY <1>11 DEF UnlockRoom, ReleaseLock
<1>12. ASSUME NEW c \in Clients, Dequeue(c) PROVE RoomAtHand'
    BY <1>12 DEF Dequeue, TakeFromQueue
<1>13. ASSUME NEW c \in Clients, SendDelivery(c) PROVE RoomAtHand'
    BY <1>13 DEF SendDelivery, Send, EndSend
<1>14. ASSUME NEW c \in Clients, SendFails(c) PROVE RoomAtHand'
    BY <1>14 DEF SendFails, EndSend
<1>15. ASSUME NEW c \in Clients, NEW u \in Clients, EnqueueTo(c, u) PROVE RoomAtHand'
    BY <1>15 DEF EnqueueTo
<1>16. CASE UNCHANGED vars
    BY <1>16 DEF vars
<1> QED
    BY <1>1, <1>2, <1>3, <1>4, <1>5, <1>6, <1>7, <1>8, <1>9, <1>10, <1>11, <1>12, <1>13, <1>14, <1>15, <1>16
    DEF Next, Serve, DequeueTimeout, Quiet

\* The map and the rooms' names stay inverse to each other.
LEMMA MapMatchesNamesStep == ServerInv /\ [Next]_vars => MapMatchesNames'
<1> SUFFICES ASSUME ServerInv, [Next]_vars PROVE MapMatchesNames'
    OBVIOUS
<1>0. /\ TypeOK /\ MapMatchesNames /\ RoomAtHand
      /\ m_rooms \in [RoomNames -> RoomObjects \cup {NoRoom}]
      /\ room_name \in [RoomObjects -> RoomNames \cup {NoRoom}]
      /\ pc \in [Clients -> Places]
    BY DEF ServerInv, TypeOK, ThreadTypes, SharedTypes, MessageTypes
<1> USE <1>0, ServerAssumption
    DEF MapMatchesNames, RoomAtHand, UserPlaces, Places,
        serverVars, roomVars, userVars, NothingShared, NoAnswer, FindFrame,
        ReturnRoom, RoomFrame, LoopFrame, Reply, Goto, At
<1>1. ASSUME NEW c \in Clients, ClientActs(c) PROVE MapMatchesNames'
  <2>1. ClientFrame(c)
    BY <1>1, ClientSteps
  <2> QED BY <2>1 DEF ClientFrame, SharedUnchanged
<1>2. ASSUME NEW c \in Clients, Acknowledge(c) PROVE MapMatchesNames'
    BY <1>2 DEF Acknowledge
<1>3. ASSUME NEW c \in Clients, LockRooms(c) PROVE MapMatchesNames'
    BY <1>3 DEF LockRooms, MapIsFree
<1>4. ASSUME NEW c \in Clients, FindRoom(c) PROVE MapMatchesNames'
    BY <1>4 DEF FindRoom
<1>5. ASSUME NEW c \in Clients, MissRoom(c) PROVE MapMatchesNames'
    BY <1>5 DEF MissRoom
<1>6. ASSUME NEW c \in Clients, CreateRoom(c) PROVE MapMatchesNames'
    BY <1>6 DEF CreateRoom
<1>7. ASSUME NEW c \in Clients, AddMember(c) PROVE MapMatchesNames'
    BY <1>7 DEF AddMember, RoomIsFree
<1>8. ASSUME NEW c \in Clients, RemoveMember(c) PROVE MapMatchesNames'
    BY <1>8 DEF RemoveMember, RoomIsFree
<1>9. ASSUME NEW c \in Clients, DeleteUser(c) PROVE MapMatchesNames'
    BY <1>9 DEF DeleteUser
<1>10. ASSUME NEW c \in Clients, LockRoom(c) PROVE MapMatchesNames'
    BY <1>10 DEF LockRoom, RoomIsFree
<1>11. ASSUME NEW c \in Clients, UnlockRoom(c) PROVE MapMatchesNames'
    BY <1>11 DEF UnlockRoom, ReleaseLock
<1>12. ASSUME NEW c \in Clients, Dequeue(c) PROVE MapMatchesNames'
    BY <1>12 DEF Dequeue, TakeFromQueue
<1>13. ASSUME NEW c \in Clients, SendDelivery(c) PROVE MapMatchesNames'
    BY <1>13 DEF SendDelivery, Send, EndSend
<1>14. ASSUME NEW c \in Clients, SendFails(c) PROVE MapMatchesNames'
    BY <1>14 DEF SendFails, EndSend
<1>15. ASSUME NEW c \in Clients, NEW u \in Clients, EnqueueTo(c, u) PROVE MapMatchesNames'
    BY <1>15 DEF EnqueueTo
<1>16. CASE UNCHANGED vars
    BY <1>16 DEF vars
<1> QED
    BY <1>1, <1>2, <1>3, <1>4, <1>5, <1>6, <1>7, <1>8, <1>9, <1>10, <1>11, <1>12, <1>13, <1>14, <1>15, <1>16
    DEF Next, Serve, DequeueTimeout, Quiet

\* No broadcast without a sendall.
LEMMA BroadcastsRequestedStep == ServerInv /\ [Next]_vars => BroadcastsRequested'
<1> SUFFICES ASSUME ServerInv, [Next]_vars PROVE BroadcastsRequested'
    OBVIOUS
<1>0. /\ TypeOK /\ BroadcastsRequested
      /\ pc \in [Clients -> Places]
      /\ requests \in [Clients -> 0..MaxRequests]
      /\ broadcasts \in [Clients -> 0..MaxRequests]
    BY DEF ServerInv, TypeOK, ThreadTypes, SharedTypes, MessageTypes
<1> USE <1>0, ServerAssumption
    DEF BroadcastsRequested, UserPlaces, Places,
        serverVars, roomVars, userVars, NothingShared, NoAnswer, FindFrame,
        ReturnRoom, RoomFrame, LoopFrame, Reply, Goto, At
<1>1. ASSUME NEW c \in Clients, ClientActs(c) PROVE BroadcastsRequested'
  <2>1. ClientFrame(c)
    BY <1>1, ClientSteps
  <2> QED BY <2>1 DEF ClientFrame, SharedUnchanged
<1>2. ASSUME NEW c \in Clients, Acknowledge(c) PROVE BroadcastsRequested'
    BY <1>2 DEF Acknowledge
<1>3. ASSUME NEW c \in Clients, LockRooms(c) PROVE BroadcastsRequested'
    BY <1>3 DEF LockRooms, MapIsFree
<1>4. ASSUME NEW c \in Clients, FindRoom(c) PROVE BroadcastsRequested'
    BY <1>4 DEF FindRoom
<1>5. ASSUME NEW c \in Clients, MissRoom(c) PROVE BroadcastsRequested'
    BY <1>5 DEF MissRoom
<1>6. ASSUME NEW c \in Clients, CreateRoom(c) PROVE BroadcastsRequested'
    BY <1>6 DEF CreateRoom
<1>7. ASSUME NEW c \in Clients, AddMember(c) PROVE BroadcastsRequested'
    BY <1>7 DEF AddMember, RoomIsFree
<1>8. ASSUME NEW c \in Clients, RemoveMember(c) PROVE BroadcastsRequested'
    BY <1>8 DEF RemoveMember, RoomIsFree
<1>9. ASSUME NEW c \in Clients, DeleteUser(c) PROVE BroadcastsRequested'
    BY <1>9 DEF DeleteUser
<1>10. ASSUME NEW c \in Clients, LockRoom(c) PROVE BroadcastsRequested'
    BY <1>10 DEF LockRoom, RoomIsFree
<1>11. ASSUME NEW c \in Clients, UnlockRoom(c) PROVE BroadcastsRequested'
    BY <1>11 DEF UnlockRoom, ReleaseLock
<1>12. ASSUME NEW c \in Clients, Dequeue(c) PROVE BroadcastsRequested'
    BY <1>12 DEF Dequeue, TakeFromQueue
<1>13. ASSUME NEW c \in Clients, SendDelivery(c) PROVE BroadcastsRequested'
    BY <1>13 DEF SendDelivery, Send, EndSend
<1>14. ASSUME NEW c \in Clients, SendFails(c) PROVE BroadcastsRequested'
    BY <1>14 DEF SendFails, EndSend
<1>15. ASSUME NEW c \in Clients, NEW u \in Clients, EnqueueTo(c, u) PROVE BroadcastsRequested'
    BY <1>15 DEF EnqueueTo
<1>16. CASE UNCHANGED vars
    BY <1>16 DEF vars
<1> QED
    BY <1>1, <1>2, <1>3, <1>4, <1>5, <1>6, <1>7, <1>8, <1>9, <1>10, <1>11, <1>12, <1>13, <1>14, <1>15, <1>16
    DEF Next, Serve, DequeueTimeout, Quiet

\* msg is null but for the time of a send.
LEMMA MessageInHandStep == ServerInv /\ [Next]_vars => MessageInHand'
<1> SUFFICES ASSUME ServerInv, [Next]_vars PROVE MessageInHand'
    OBVIOUS
<1>0. /\ TypeOK /\ MessageInHand
      /\ pc \in [Clients -> Places]
      /\ msg \in [Clients -> Seq(Messages)]
    BY DEF ServerInv, TypeOK, ThreadTypes, SharedTypes, MessageTypes
<1> USE <1>0, ServerAssumption
    DEF MessageInHand, UserPlaces, Places,
        serverVars, roomVars, userVars, NothingShared, NoAnswer, FindFrame,
        ReturnRoom, RoomFrame, LoopFrame, Reply, Goto, At
<1>1. ASSUME NEW c \in Clients, ClientActs(c) PROVE MessageInHand'
  <2>1. ClientFrame(c)
    BY <1>1, ClientSteps
  <2> QED BY <2>1 DEF ClientFrame, SharedUnchanged
<1>2. ASSUME NEW c \in Clients, Acknowledge(c) PROVE MessageInHand'
    BY <1>2 DEF Acknowledge
<1>3. ASSUME NEW c \in Clients, LockRooms(c) PROVE MessageInHand'
    BY <1>3 DEF LockRooms, MapIsFree
<1>4. ASSUME NEW c \in Clients, FindRoom(c) PROVE MessageInHand'
    BY <1>4 DEF FindRoom
<1>5. ASSUME NEW c \in Clients, MissRoom(c) PROVE MessageInHand'
    BY <1>5 DEF MissRoom
<1>6. ASSUME NEW c \in Clients, CreateRoom(c) PROVE MessageInHand'
    BY <1>6 DEF CreateRoom
<1>7. ASSUME NEW c \in Clients, AddMember(c) PROVE MessageInHand'
    BY <1>7 DEF AddMember, RoomIsFree
<1>8. ASSUME NEW c \in Clients, RemoveMember(c) PROVE MessageInHand'
    BY <1>8 DEF RemoveMember, RoomIsFree
<1>9. ASSUME NEW c \in Clients, DeleteUser(c) PROVE MessageInHand'
    BY <1>9 DEF DeleteUser
<1>10. ASSUME NEW c \in Clients, LockRoom(c) PROVE MessageInHand'
    BY <1>10 DEF LockRoom, RoomIsFree
<1>11. ASSUME NEW c \in Clients, UnlockRoom(c) PROVE MessageInHand'
    BY <1>11 DEF UnlockRoom, ReleaseLock
<1>12. ASSUME NEW c \in Clients, Dequeue(c) PROVE MessageInHand'
    BY <1>12 DEF Dequeue, TakeFromQueue
<1>13. ASSUME NEW c \in Clients, SendDelivery(c) PROVE MessageInHand'
    BY <1>13 DEF SendDelivery, Send, EndSend
<1>14. ASSUME NEW c \in Clients, SendFails(c) PROVE MessageInHand'
    BY <1>14 DEF SendFails, EndSend
<1>15. ASSUME NEW c \in Clients, NEW u \in Clients, EnqueueTo(c, u) PROVE MessageInHand'
    BY <1>15 DEF EnqueueTo
<1>16. CASE UNCHANGED vars
    BY <1>16 DEF vars
<1> QED
    BY <1>1, <1>2, <1>3, <1>4, <1>5, <1>6, <1>7, <1>8, <1>9, <1>10, <1>11, <1>12, <1>13, <1>14, <1>15, <1>16
    DEF Next, Serve, DequeueTimeout, Quiet

\* A message being broadcast has its number.
LEMMA BroadcastNumberedStep == ServerInv /\ [Next]_vars => BroadcastNumbered'
<1> SUFFICES ASSUME ServerInv, [Next]_vars PROVE BroadcastNumbered'
    OBVIOUS
<1>0. /\ TypeOK /\ BroadcastNumbered
      /\ pc \in [Clients -> Places]
      /\ broadcasts \in [Clients -> 0..MaxRequests]
    BY DEF ServerInv, TypeOK, ThreadTypes, SharedTypes, MessageTypes
<1> USE <1>0, ServerAssumption
    DEF BroadcastNumbered, UserPlaces, Places,
        serverVars, roomVars, userVars, NothingShared, NoAnswer, FindFrame,
        ReturnRoom, RoomFrame, LoopFrame, Reply, Goto, At
<1>1. ASSUME NEW c \in Clients, ClientActs(c) PROVE BroadcastNumbered'
  <2>1. ClientFrame(c)
    BY <1>1, ClientSteps
  <2> QED BY <2>1 DEF ClientFrame, SharedUnchanged
<1>2. ASSUME NEW c \in Clients, Acknowledge(c) PROVE BroadcastNumbered'
    BY <1>2 DEF Acknowledge
<1>3. ASSUME NEW c \in Clients, LockRooms(c) PROVE BroadcastNumbered'
    BY <1>3 DEF LockRooms, MapIsFree
<1>4. ASSUME NEW c \in Clients, FindRoom(c) PROVE BroadcastNumbered'
    BY <1>4 DEF FindRoom
<1>5. ASSUME NEW c \in Clients, MissRoom(c) PROVE BroadcastNumbered'
    BY <1>5 DEF MissRoom
<1>6. ASSUME NEW c \in Clients, CreateRoom(c) PROVE BroadcastNumbered'
    BY <1>6 DEF CreateRoom
<1>7. ASSUME NEW c \in Clients, AddMember(c) PROVE BroadcastNumbered'
    BY <1>7 DEF AddMember, RoomIsFree
<1>8. ASSUME NEW c \in Clients, RemoveMember(c) PROVE BroadcastNumbered'
    BY <1>8 DEF RemoveMember, RoomIsFree
<1>9. ASSUME NEW c \in Clients, DeleteUser(c) PROVE BroadcastNumbered'
    BY <1>9 DEF DeleteUser
<1>10. ASSUME NEW c \in Clients, LockRoom(c) PROVE BroadcastNumbered'
    BY <1>10 DEF LockRoom, RoomIsFree
<1>11. ASSUME NEW c \in Clients, UnlockRoom(c) PROVE BroadcastNumbered'
    BY <1>11 DEF UnlockRoom, ReleaseLock
<1>12. ASSUME NEW c \in Clients, Dequeue(c) PROVE BroadcastNumbered'
    BY <1>12 DEF Dequeue, TakeFromQueue
<1>13. ASSUME NEW c \in Clients, SendDelivery(c) PROVE BroadcastNumbered'
    BY <1>13 DEF SendDelivery, Send, EndSend
<1>14. ASSUME NEW c \in Clients, SendFails(c) PROVE BroadcastNumbered'
    BY <1>14 DEF SendFails, EndSend
<1>15. ASSUME NEW c \in Clients, NEW u \in Clients, EnqueueTo(c, u) PROVE BroadcastNumbered'
    BY <1>15 DEF EnqueueTo
<1>16. CASE UNCHANGED vars
    BY <1>16 DEF vars
<1> QED
    BY <1>1, <1>2, <1>3, <1>4, <1>5, <1>6, <1>7, <1>8, <1>9, <1>10, <1>11, <1>12, <1>13, <1>14, <1>15, <1>16
    DEF Next, Serve, DequeueTimeout, Quiet

\* Only a failed send takes a receiver out of its loop.
LEMMA GoneIsBrokenStep == ServerInv /\ [Next]_vars => GoneIsBroken'
<1> SUFFICES ASSUME ServerInv, [Next]_vars PROVE GoneIsBroken'
    OBVIOUS
<1>0. /\ TypeOK /\ GoneIsBroken
      /\ pc \in [Clients -> Places]
      /\ peer \in [Clients -> {"up", "closed", "reset"}]
    BY DEF ServerInv, TypeOK, ThreadTypes, SharedTypes, MessageTypes
<1> USE <1>0, ServerAssumption
    DEF GoneIsBroken, UserPlaces, Places,
        serverVars, roomVars, userVars, NothingShared, NoAnswer, FindFrame,
        ReturnRoom, RoomFrame, LoopFrame, Reply, Goto, At
<1>1. ASSUME NEW c \in Clients, ClientActs(c) PROVE GoneIsBroken'
  <2>1. ClientFrame(c)
    BY <1>1, ClientSteps
  <2> QED BY <2>1 DEF ClientFrame, SharedUnchanged
<1>2. ASSUME NEW c \in Clients, Acknowledge(c) PROVE GoneIsBroken'
    BY <1>2 DEF Acknowledge
<1>3. ASSUME NEW c \in Clients, LockRooms(c) PROVE GoneIsBroken'
    BY <1>3 DEF LockRooms, MapIsFree
<1>4. ASSUME NEW c \in Clients, FindRoom(c) PROVE GoneIsBroken'
    BY <1>4 DEF FindRoom
<1>5. ASSUME NEW c \in Clients, MissRoom(c) PROVE GoneIsBroken'
    BY <1>5 DEF MissRoom
<1>6. ASSUME NEW c \in Clients, CreateRoom(c) PROVE GoneIsBroken'
    BY <1>6 DEF CreateRoom
<1>7. ASSUME NEW c \in Clients, AddMember(c) PROVE GoneIsBroken'
    BY <1>7 DEF AddMember, RoomIsFree
<1>8. ASSUME NEW c \in Clients, RemoveMember(c) PROVE GoneIsBroken'
    BY <1>8 DEF RemoveMember, RoomIsFree
<1>9. ASSUME NEW c \in Clients, DeleteUser(c) PROVE GoneIsBroken'
    BY <1>9 DEF DeleteUser
<1>10. ASSUME NEW c \in Clients, LockRoom(c) PROVE GoneIsBroken'
    BY <1>10 DEF LockRoom, RoomIsFree
<1>11. ASSUME NEW c \in Clients, UnlockRoom(c) PROVE GoneIsBroken'
    BY <1>11 DEF UnlockRoom, ReleaseLock
<1>12. ASSUME NEW c \in Clients, Dequeue(c) PROVE GoneIsBroken'
    BY <1>12 DEF Dequeue, TakeFromQueue
<1>13. ASSUME NEW c \in Clients, SendDelivery(c) PROVE GoneIsBroken'
    BY <1>13 DEF SendDelivery, Send, EndSend
<1>14. ASSUME NEW c \in Clients, SendFails(c) PROVE GoneIsBroken'
    BY <1>14 DEF SendFails, EndSend
<1>15. ASSUME NEW c \in Clients, NEW u \in Clients, EnqueueTo(c, u) PROVE GoneIsBroken'
    BY <1>15 DEF EnqueueTo
<1>16. CASE UNCHANGED vars
    BY <1>16 DEF vars
<1> QED
    BY <1>1, <1>2, <1>3, <1>4, <1>5, <1>6, <1>7, <1>8, <1>9, <1>10, <1>11, <1>12, <1>13, <1>14, <1>15, <1>16
    DEF Next, Serve, DequeueTimeout, Quiet

\* Locks, rooms and users keep their types.
LEMMA SharedTypesStep == ServerInv /\ [Next]_vars => SharedTypes'
<1> SUFFICES ASSUME ServerInv, [Next]_vars PROVE SharedTypes'
    OBVIOUS
<1>0. /\ TypeOK /\ SharedTypes /\ RoomAtHand
      /\ pc \in [Clients -> Places]
    BY DEF ServerInv, TypeOK, ThreadTypes, SharedTypes, MessageTypes
<1> USE <1>0, ServerAssumption
    DEF SharedTypes, RoomAtHand, UserPlaces, Places,
        serverVars, roomVars, userVars, NothingShared, NoAnswer, FindFrame,
        ReturnRoom, RoomFrame, LoopFrame, Reply, Goto, At
<1>1. ASSUME NEW c \in Clients, ClientActs(c) PROVE SharedTypes'
  <2>1. ClientFrame(c)
    BY <1>1, ClientSteps
  <2> QED BY <2>1 DEF ClientFrame, SharedUnchanged
<1>2. ASSUME NEW c \in Clients, Acknowledge(c) PROVE SharedTypes'
    BY <1>2 DEF Acknowledge
<1>3. ASSUME NEW c \in Clients, LockRooms(c) PROVE SharedTypes'
    BY <1>3 DEF LockRooms, MapIsFree
<1>4. ASSUME NEW c \in Clients, FindRoom(c) PROVE SharedTypes'
    BY <1>4 DEF FindRoom
<1>5. ASSUME NEW c \in Clients, MissRoom(c) PROVE SharedTypes'
    BY <1>5 DEF MissRoom
<1>6. ASSUME NEW c \in Clients, CreateRoom(c) PROVE SharedTypes'
    BY <1>6 DEF CreateRoom
<1>7. ASSUME NEW c \in Clients, AddMember(c) PROVE SharedTypes'
    BY <1>7 DEF AddMember, RoomIsFree
<1>8. ASSUME NEW c \in Clients, RemoveMember(c) PROVE SharedTypes'
    BY <1>8 DEF RemoveMember, RoomIsFree
<1>9. ASSUME NEW c \in Clients, DeleteUser(c) PROVE SharedTypes'
    BY <1>9 DEF DeleteUser
<1>10. ASSUME NEW c \in Clients, LockRoom(c) PROVE SharedTypes'
    BY <1>10 DEF LockRoom, RoomIsFree
<1>11. ASSUME NEW c \in Clients, UnlockRoom(c) PROVE SharedTypes'
    BY <1>11 DEF UnlockRoom, ReleaseLock
<1>12. ASSUME NEW c \in Clients, Dequeue(c) PROVE SharedTypes'
    BY <1>12 DEF Dequeue, TakeFromQueue
<1>13. ASSUME NEW c \in Clients, SendDelivery(c) PROVE SharedTypes'
    BY <1>13 DEF SendDelivery, Send, EndSend
<1>14. ASSUME NEW c \in Clients, SendFails(c) PROVE SharedTypes'
    BY <1>14 DEF SendFails, EndSend
<1>15. ASSUME NEW c \in Clients, NEW u \in Clients, EnqueueTo(c, u) PROVE SharedTypes'
    BY <1>15 DEF EnqueueTo
<1>16. CASE UNCHANGED vars
    BY <1>16 DEF vars
<1> QED
    BY <1>1, <1>2, <1>3, <1>4, <1>5, <1>6, <1>7, <1>8, <1>9, <1>10, <1>11, <1>12, <1>13, <1>14, <1>15, <1>16
    DEF Next, Serve, DequeueTimeout, Quiet

\* Queues hold deliveries: a broadcast has a room, a sender and a number.
LEMMA MessageTypesStep == ServerInv /\ [Next]_vars => MessageTypes'
<1> SUFFICES ASSUME ServerInv, [Next]_vars PROVE MessageTypes'
    OBVIOUS
<1>0. /\ TypeOK /\ MessageTypes /\ BroadcastsRequested /\ BroadcastNumbered /\ RoomAtHand /\ MapMatchesNames
      /\ pc \in [Clients -> Places]
      /\ requests \in [Clients -> 0..MaxRequests]
    BY DEF ServerInv, TypeOK, ThreadTypes, SharedTypes, MessageTypes
<1> USE <1>0, ServerAssumption
    DEF MessageTypes, BroadcastsRequested, BroadcastNumbered, RoomAtHand, MapMatchesNames, UserPlaces, Places,
        serverVars, roomVars, userVars, NothingShared, NoAnswer, FindFrame,
        ReturnRoom, RoomFrame, LoopFrame, Reply, Goto, At
<1>1. ASSUME NEW c \in Clients, ClientActs(c) PROVE MessageTypes'
  <2>1. ClientFrame(c)
    BY <1>1, ClientSteps
  <2> QED BY <2>1 DEF ClientFrame, SharedUnchanged
<1>2. ASSUME NEW c \in Clients, Acknowledge(c) PROVE MessageTypes'
    BY <1>2 DEF Acknowledge
<1>3. ASSUME NEW c \in Clients, LockRooms(c) PROVE MessageTypes'
    BY <1>3 DEF LockRooms, MapIsFree
<1>4. ASSUME NEW c \in Clients, FindRoom(c) PROVE MessageTypes'
    BY <1>4 DEF FindRoom
<1>5. ASSUME NEW c \in Clients, MissRoom(c) PROVE MessageTypes'
    BY <1>5 DEF MissRoom
<1>6. ASSUME NEW c \in Clients, CreateRoom(c) PROVE MessageTypes'
    BY <1>6 DEF CreateRoom
<1>7. ASSUME NEW c \in Clients, AddMember(c) PROVE MessageTypes'
    BY <1>7 DEF AddMember, RoomIsFree
<1>8. ASSUME NEW c \in Clients, RemoveMember(c) PROVE MessageTypes'
    BY <1>8 DEF RemoveMember, RoomIsFree
<1>9. ASSUME NEW c \in Clients, DeleteUser(c) PROVE MessageTypes'
    BY <1>9 DEF DeleteUser
<1>10. ASSUME NEW c \in Clients, LockRoom(c) PROVE MessageTypes'
    BY <1>10 DEF LockRoom, RoomIsFree
<1>11. ASSUME NEW c \in Clients, UnlockRoom(c) PROVE MessageTypes'
    BY <1>11 DEF UnlockRoom, ReleaseLock
<1>12. ASSUME NEW c \in Clients, Dequeue(c) PROVE MessageTypes'
    BY <1>12 DEF Dequeue, TakeFromQueue
<1>13. ASSUME NEW c \in Clients, SendDelivery(c) PROVE MessageTypes'
    BY <1>13 DEF SendDelivery, Send, EndSend
<1>14. ASSUME NEW c \in Clients, SendFails(c) PROVE MessageTypes'
    BY <1>14 DEF SendFails, EndSend
<1>15. ASSUME NEW c \in Clients, NEW u \in Clients, EnqueueTo(c, u) PROVE MessageTypes'
  <2>1. /\ wanted[c] \in RoomNames /\ room[c] \in RoomObjects /\ room[c] # NoRoom
        /\ m_rooms[wanted[c]] = room[c] /\ broadcasts[c] \in 1..MaxRequests
    BY <1>15 DEF EnqueueTo
  <2>2. room_name[room[c]] = wanted[c]
    BY <2>1
  <2>3. Delivery(c) \in Messages
    BY <2>1, <2>2 DEF Delivery, Messages
  <2>4. Append(mqueue[u], Delivery(c)) \in Seq(Messages)
    BY <2>3, AppendProperties
  <2>5. mqueue' \in [Clients -> Seq(Messages)]
    BY <1>15, <2>4 DEF EnqueueTo
  <2> QED BY <1>15, <2>5 DEF EnqueueTo
<1>16. CASE UNCHANGED vars
    BY <1>16 DEF vars
<1> QED
    BY <1>1, <1>2, <1>3, <1>4, <1>5, <1>6, <1>7, <1>8, <1>9, <1>10, <1>11, <1>12, <1>13, <1>14, <1>15, <1>16
    DEF Next, Serve, DequeueTimeout, Quiet

\* What a worker keeps for itself stays in its type.
LEMMA ThreadTypesStep == ServerInv /\ [Next]_vars => ThreadTypes'
<1> SUFFICES ASSUME ServerInv, [Next]_vars PROVE ThreadTypes'
    OBVIOUS
<1>0. ThreadTypes /\ SharedTypes /\ RoomAtHand
    BY DEF ServerInv, TypeOK
<1> USE <1>0, ServerAssumption
    DEF ThreadTypes, Places, AnswerAndGoto, ServeAt, Request, Receive, ReceiveFails, Reply, Goto, At,
        NoAnswer, FindFrame, ReturnRoom, RoomFrame, LoopFrame
<1>1. ASSUME NEW c \in Clients, Accept(c) \/ Disconnect(c) \/ Reset(c) PROVE ThreadTypes'
    BY <1>1 DEF Accept, Disconnect, Reset
<1>2. ASSUME NEW c \in Clients, Login(c) PROVE ThreadTypes'
    BY <1>2 DEF Login
<1>3. ASSUME NEW c \in Clients, GiveUp(c) \/ Quit(c) \/ Refuse(c) \/ Acknowledge(c)
      PROVE ThreadTypes'
    BY <1>3 DEF GiveUp, Quit, Refuse, Acknowledge, AnswerAndGoto
<1>4. ASSUME NEW c \in Clients, Join(c) \/ SendAll(c) PROVE ThreadTypes'
    BY <1>4 DEF Join, SendAll
<1>5. ASSUME NEW c \in Clients, Leave(c) PROVE ThreadTypes'
    BY <1>5 DEF Leave
<1>6. ASSUME NEW c \in Clients, LockRooms(c) \/ MissRoom(c) PROVE ThreadTypes'
    BY <1>6 DEF LockRooms, MissRoom, MapIsFree
<1>7. ASSUME NEW c \in Clients, FindRoom(c) PROVE ThreadTypes'
    BY <1>7 DEF FindRoom, SharedTypes, RoomAtHand
<1>8. ASSUME NEW c \in Clients, CreateRoom(c) PROVE ThreadTypes'
    BY <1>8 DEF CreateRoom
<1>9. ASSUME NEW c \in Clients, AddMember(c) \/ RemoveMember(c) \/ DeleteUser(c) PROVE ThreadTypes'
    BY <1>9 DEF AddMember, RemoveMember, DeleteUser, RoomIsFree
<1>10. ASSUME NEW c \in Clients, LockRoom(c) \/ UnlockRoom(c) PROVE ThreadTypes'
    BY <1>10 DEF LockRoom, UnlockRoom, RoomIsFree, ReleaseLock
<1>11. ASSUME NEW c \in Clients, NEW u \in Clients, EnqueueTo(c, u) PROVE ThreadTypes'
    BY <1>11 DEF EnqueueTo
<1>12. ASSUME NEW c \in Clients, Dequeue(c) \/ SendDelivery(c) \/ SendFails(c) PROVE ThreadTypes'
    BY <1>12 DEF Dequeue, SendDelivery, SendFails, TakeFromQueue, Send, EndSend
<1>13. CASE UNCHANGED vars
    BY <1>13 DEF vars
<1> QED
    BY <1>1, <1>2, <1>3, <1>4, <1>5, <1>6, <1>7, <1>8, <1>9, <1>10, <1>11, <1>12, <1>13
    DEF Next, Serve, ClientActs, DequeueTimeout, Quiet

\* Each request is answered once: the branches that answer at once, and those
\* that come back to it after the map or the room.
LEMMA AnswersInStepStep == ServerInv /\ [Next]_vars => AnswersInStep'
<1> SUFFICES ASSUME ServerInv, [Next]_vars PROVE AnswersInStep'
    OBVIOUS
<1>0. ThreadTypes /\ AnswersInStep
    BY DEF ServerInv, TypeOK
<1> USE <1>0, ServerAssumption
    DEF ThreadTypes, AnswersInStep, Serving, AnswerAndGoto, ServeAt, Request, Receive, ReceiveFails,
        Reply, Goto, At, NoAnswer, FindFrame, ReturnRoom, RoomFrame, LoopFrame
<1>1. ASSUME NEW c \in Clients, Accept(c) PROVE AnswersInStep'
    BY <1>1 DEF Accept
<1>2. ASSUME NEW c \in Clients, Disconnect(c) \/ Reset(c) PROVE AnswersInStep'
    BY <1>2 DEF Disconnect, Reset
<1>3. ASSUME NEW c \in Clients, Login(c) PROVE AnswersInStep'
    BY <1>3 DEF Login
<1>4. ASSUME NEW c \in Clients, GiveUp(c) PROVE AnswersInStep'
    BY <1>4 DEF GiveUp
<1>5. ASSUME NEW c \in Clients, Quit(c) \/ Refuse(c) PROVE AnswersInStep'
    BY <1>5 DEF Quit, Refuse, AnswerAndGoto
<1>6. ASSUME NEW c \in Clients, Acknowledge(c) PROVE AnswersInStep'
    BY <1>6 DEF Acknowledge
<1>7. ASSUME NEW c \in Clients, Join(c) \/ SendAll(c) PROVE AnswersInStep'
    BY <1>7 DEF Join, SendAll
<1>8. ASSUME NEW c \in Clients, Leave(c) PROVE AnswersInStep'
    BY <1>8 DEF Leave
<1>9. ASSUME NEW c \in Clients, LockRooms(c) \/ MissRoom(c) PROVE AnswersInStep'
    BY <1>9 DEF LockRooms, MissRoom, MapIsFree
<1>10. ASSUME NEW c \in Clients, FindRoom(c) \/ CreateRoom(c) PROVE AnswersInStep'
    BY <1>10 DEF FindRoom, CreateRoom
<1>11. ASSUME NEW c \in Clients, AddMember(c) PROVE AnswersInStep'
    BY <1>11 DEF AddMember, RoomIsFree
<1>12. ASSUME NEW c \in Clients, RemoveMember(c) PROVE AnswersInStep'
    BY <1>12 DEF RemoveMember, RoomIsFree
<1>13. ASSUME NEW c \in Clients, DeleteUser(c) PROVE AnswersInStep'
    BY <1>13 DEF DeleteUser
<1>14. ASSUME NEW c \in Clients, LockRoom(c) \/ UnlockRoom(c) PROVE AnswersInStep'
    BY <1>14 DEF LockRoom, UnlockRoom, RoomIsFree, ReleaseLock
<1>15. ASSUME NEW c \in Clients, NEW u \in Clients, EnqueueTo(c, u) PROVE AnswersInStep'
    BY <1>15 DEF EnqueueTo
<1>16. ASSUME NEW c \in Clients, Dequeue(c) PROVE AnswersInStep'
    BY <1>16 DEF Dequeue, TakeFromQueue
<1>17. ASSUME NEW c \in Clients, SendDelivery(c) \/ SendFails(c) PROVE AnswersInStep'
    BY <1>17 DEF SendDelivery, SendFails, Send, EndSend
<1>18. CASE UNCHANGED vars
    BY <1>18 DEF vars
<1> QED
    BY <1>1, <1>2, <1>3, <1>4, <1>5, <1>6, <1>7, <1>8, <1>9, <1>10, <1>11, <1>12, <1>14, <1>15,
       <1>16, <1>18, <1>13, <1>17
    DEF Next, Serve, ClientActs, DequeueTimeout, Quiet

\* A server without clients and rooms satisfies the invariant.
LEMMA InitInv == Init => ServerInv
<1> SUFFICES ASSUME Init PROVE ServerInv
    OBVIOUS
<1> USE ServerAssumption DEF Init
<1>1. ThreadTypes
    BY DEF ThreadTypes, Places
<1>2. SharedTypes
    BY DEF SharedTypes
<1>3. MessageTypes
    BY EmptySeq DEF MessageTypes
<1>4. MapLockHeld /\ RoomLockHeld /\ WalkIsInRoom
    BY DEF MapLockHeld, RoomLockHeld, WalkIsInRoom
<1>5. UsersAllocated /\ MembersReceive /\ RoomAtHand /\ MapMatchesNames
    BY DEF UsersAllocated, MembersReceive, RoomAtHand, MapMatchesNames, UserPlaces
<1>6. BroadcastsRequested /\ MessageInHand /\ BroadcastNumbered
    BY DEF BroadcastsRequested, MessageInHand, BroadcastNumbered
<1>7. GoneIsBroken /\ AnswersInStep
    BY DEF GoneIsBroken, AnswersInStep, Serving
<1> QED
    BY <1>1, <1>2, <1>3, <1>4, <1>5, <1>6, <1>7 DEF ServerInv, TypeOK

\* The inductive invariant of the server holds in every reachable state: locks,
\* pointers and rooms fit together, whatever the clients do and when.
THEOREM ServerInvariant == Spec => []ServerInv
<1>1. ServerInv /\ [Next]_vars => ServerInv'
    BY ThreadTypesStep, SharedTypesStep, MessageTypesStep, MapLockHeldStep, RoomLockHeldStep,
       WalkIsInRoomStep, UsersAllocatedStep, MembersReceiveStep, RoomAtHandStep,
       MapMatchesNamesStep, BroadcastsRequestedStep, MessageInHandStep, BroadcastNumberedStep,
       GoneIsBrokenStep, AnswersInStepStep
    DEF ServerInv, TypeOK
<1> QED
    BY InitInv, <1>1, PTL DEF Spec

\* Every variable keeps its type.
THEOREM TypeCorrectness == Spec => []TypeOK
<1>1. ServerInv => TypeOK
    BY DEF ServerInv
<1> QED
    BY ServerInvariant, <1>1, PTL

\* No broadcast ever enqueues to a User that has been deleted.
THEOREM UsersOutliveBroadcasts == Spec => []NoUseAfterFree
<1>1. ServerInv => NoUseAfterFree
    BY DEF ServerInv, TypeOK, SharedTypes, UsersAllocated, MembersReceive, WalkIsInRoom,
           RoomAtHand, NoUseAfterFree
<1> QED
    BY ServerInvariant, <1>1, PTL

\* Workers that ask for the same name, at whatever moment, get the same Room.
THEOREM RoomsAreUnique == Spec => []OneRoomPerName
<1>1. ServerInv => OneRoomPerName
    BY DEF ServerInv, TypeOK, SharedTypes, MapMatchesNames, RoomAtHand, OneRoomPerName
<1> QED
    BY ServerInvariant, <1>1, PTL

\* The server answers every request exactly once before it reads the next.
THEOREM AnswersMatchRequests == Spec => []OneAnswerPerRequest
<1>1. ServerInv => OneAnswerPerRequest
    BY DEF ServerInv, TypeOK, ThreadTypes, AnswersInStep, Serving, OneAnswerPerRequest
<1> QED
    BY ServerInvariant, <1>1, PTL

\* A room's set of members does not change while a broadcast walks over it.
THEOREM WalksAreStable == Spec => MembersStableDuringBroadcast
<1> DEFINE Stable == \A r \in RoomObjects : lock[r] # NoThread => members'[r] = members[r]
<1>1. ServerInv /\ [Next]_vars => [Stable]_members
  <2> SUFFICES ASSUME ServerInv, [Next]_vars PROVE [Stable]_members
    OBVIOUS
  <2>0. /\ TypeOK /\ RoomAtHand
        /\ members \in [RoomObjects -> SUBSET Clients]
    BY DEF ServerInv, TypeOK, SharedTypes
  <2>1. ASSUME NEW c \in Clients, ClientActs(c) PROVE UNCHANGED members
    BY <2>0, <2>1, ClientSteps DEF ClientFrame, SharedUnchanged
  <2>2. ASSUME NEW c \in Clients, AddMember(c) PROVE Stable
    BY <2>0, <2>2 DEF AddMember, At, RoomAtHand, RoomIsFree
  <2>3. ASSUME NEW c \in Clients, RemoveMember(c) PROVE Stable
    BY <2>0, <2>3 DEF RemoveMember, At, RoomAtHand, RoomIsFree
  <2>4. ASSUME NEW c \in Clients, Serve(c), ~AddMember(c), ~RemoveMember(c)
        PROVE UNCHANGED members
    BY <2>4 DEF Serve, Acknowledge, LockRooms, FindRoom, MissRoom, CreateRoom, DeleteUser, LockRoom,
                EnqueueTo, UnlockRoom, Dequeue, SendDelivery, SendFails, NothingShared,
                FindFrame, LoopFrame, roomVars, MapIsFree, RoomIsFree, ReleaseLock, TakeFromQueue, Send, EndSend
  <2>5. CASE UNCHANGED vars
    BY <2>5 DEF vars
  <2> QED
    BY <2>1, <2>2, <2>3, <2>4, <2>5 DEF Next, DequeueTimeout, Quiet, vars
<1> QED
    BY ServerInvariant, <1>1, PTL DEF Spec, MembersStableDuringBroadcast
--------------------------------------------------------------------------------
(* ChatServer implements RoomBroadcast: taking the room's lock is the instant of *)
(* a broadcast.  And the messages that two receivers both get come to them in    *)
(* one order, whatever rooms they are in.                                        *)

(* Sequences with a message in hand and one pending. *)

\* A broadcast puts its message at the end of an inbox; the enqueue that follows
\* moves it from the pending place into the queue.
LEMMA InboxGrows ==
    ASSUME NEW M, NEW h \in Seq(M), NEW q \in Seq(M), NEW x \in M
    PROVE  /\ Append(h \o q \o <<>>, x) = h \o q \o <<x>>
           /\ h \o Append(q, x) \o <<>> = h \o q \o <<x>>
<1>1. <<x>> \in Seq(M) /\ <<>> \in Seq(M)
    OBVIOUS
<1>2. h \o q \in Seq(M)
    BY ConcatProperties
<1>3. Append(h \o q \o <<>>, x) = h \o q \o <<x>>
    BY <1>1, <1>2, ConcatEmptySeq, AppendIsConcat
<1>4. h \o Append(q, x) \o <<>> = h \o q \o <<x>>
  <2>1. Append(q, x) = q \o <<x>> /\ q \o <<x>> \in Seq(M)
    BY <1>1, AppendIsConcat, ConcatProperties
  <2>2. h \o (q \o <<x>>) \in Seq(M)
    BY <2>1, ConcatProperties
  <2>3. h \o (q \o <<x>>) \o <<>> = h \o (q \o <<x>>)
    BY <2>2, ConcatEmptySeq
  <2>4. h \o (q \o <<x>>) = h \o q \o <<x>>
    BY <1>1, ConcatAssociative
  <2> QED BY <2>1, <2>3, <2>4
<1> QED BY <1>3, <1>4

\* The message in hand stays at the head of the inbox.
LEMMA InboxMoves ==
    ASSUME NEW M, NEW q \in Seq(M), q # <<>>
    PROVE  <<Head(q)>> \o Tail(q) = <<>> \o q
<1> DEFINE s == <<Head(q)>>
             r == Tail(q)
             t == s \o r
<1>1. /\ r \in Seq(M) /\ Len(r) = Len(q) - 1
        /\ \A i \in 1..Len(r) : r[i] = q[i + 1]
    BY HeadTailProperties
<1>2. s \in Seq(M) /\ Len(s) = 1 /\ s[1] = q[1]
    BY HeadTailProperties
<1>3. Len(q) \in Nat /\ Len(q) >= 1
    BY EmptySeq
<1> HIDE DEF s, r
<1>4. /\ t \in Seq(M) /\ Len(t) = Len(s) + Len(r)
        /\ \A i \in 1..Len(s) + Len(r) : t[i] = IF i <= Len(s) THEN s[i] ELSE r[i - Len(s)]
    <2>1. s \in Seq(M) /\ r \in Seq(M)
      BY <1>1, <1>2
    <2> QED BY <2>1, ConcatProperties
<1> HIDE DEF t
<1>5. Len(t) = Len(q) /\ \A i \in 1..Len(t) : t[i] = q[i]
    BY <1>1, <1>2, <1>3, <1>4
<1>6. t = q
    BY <1>4, <1>5, SeqEqual
<1> QED BY <1>6, ConcatEmptySeq DEF t, s, r

\* A send takes the message in hand, which is the inbox's head.
LEMMA InboxShrinks ==
    ASSUME NEW M, NEW q \in Seq(M), NEW p \in Seq(M), NEW x \in M
    PROVE  /\ Head(<<x>> \o q \o p) = x
           /\ Tail(<<x>> \o q \o p) = <<>> \o q \o p
           /\ <<x>> \o q \o p # <<>>
<1>1. <<x>> \in Seq(M) /\ Len(<<x>>) = 1 /\ <<x>>[1] = x
    OBVIOUS
<1> DEFINE s == <<x>>
             r == q \o p
             t == s \o r
<1>2. r \in Seq(M) /\ s \in Seq(M) /\ Len(s) = 1 /\ s[1] = x
    BY <1>1, ConcatProperties
<1>3. <<x>> \o q \o p = t /\ <<>> \o q \o p = r
    BY <1>1, ConcatAssociative, ConcatEmptySeq
<1> HIDE DEF r, s
<1>4. t \in Seq(M) /\ Len(t) = Len(r) + 1 /\ Len(r) \in Nat
        /\ \A i \in 1..Len(r) + 1 : t[i] = IF i <= 1 THEN s[i] ELSE r[i - 1]
    <2>1. /\ t \in Seq(M) /\ Len(t) = Len(s) + Len(r)
          /\ \A i \in 1..Len(s) + Len(r) : t[i] = IF i <= Len(s) THEN s[i] ELSE r[i - Len(s)]
      BY <1>2, ConcatProperties
    <2>2. Len(r) \in Nat
      BY <1>2, LenProperties
    <2> HIDE DEF t
    <2> QED BY <1>2, <2>1, <2>2
<1> HIDE DEF t
<1>5. t # <<>> /\ Head(t) = x
    BY <1>2, <1>4, EmptySeq
<1>6. Tail(t) \in Seq(M) /\ Len(Tail(t)) = Len(r)
        /\ \A i \in 1..Len(Tail(t)) : Tail(t)[i] = t[i + 1]
    BY <1>4, <1>5, HeadTailProperties
<1>7. \A i \in 1..Len(Tail(t)) : Tail(t)[i] = r[i]
    BY <1>4, <1>6
<1>8. Tail(t) = r
    BY <1>2, <1>6, <1>7, SeqEqual
<1> QED BY <1>3, <1>5, <1>8

--------------------------------------------------------------------------------
(* What is pending for a receiver *)

\* A receiver is in the way of at most one broadcast.
PendingFacts ==
    /\ \A u \in Clients, b \in Clients : u \in todo[b] => Pending(u) = <<Delivery(b)>>
    /\ \A u \in Clients : (\A b \in Clients : u \notin todo[b]) => Pending(u) = <<>>
    /\ \A b \in Clients : pc[b] = "enqueueing" => Delivery(b) \in Messages
    /\ \A u \in Clients : Pending(u) \in Seq(Messages)

\* The rooms of two walks are different, since each has its room's lock.
LEMMA PendingIsUnique == ServerInv => PendingFacts
<1> SUFFICES ASSUME ServerInv PROVE PendingFacts
    OBVIOUS
<1>0. /\ ThreadTypes /\ SharedTypes /\ MessageTypes /\ RoomLockHeld /\ WalkIsInRoom
      /\ MembersReceive /\ RoomAtHand /\ MapMatchesNames /\ BroadcastNumbered
    BY DEF ServerInv, TypeOK
<1>1. ASSUME NEW b \in Clients, pc[b] = "enqueueing" PROVE Delivery(b) \in Messages
  <2>1. /\ wanted[b] \in RoomNames /\ room[b] \in RoomObjects /\ room[b] # NoRoom
        /\ m_rooms[wanted[b]] = room[b] /\ broadcasts[b] \in 1..MaxRequests
    BY <1>0, <1>1, ServerAssumption DEF RoomAtHand, BroadcastNumbered, MessageTypes
  <2>2. room_name[room[b]] = wanted[b]
    BY <1>0, <2>1 DEF MapMatchesNames
  <2> QED BY <2>1, <2>2 DEF Delivery, Messages
<1>2. ASSUME NEW u \in Clients, NEW b \in Clients, NEW d \in Clients, u \in todo[b], u \in todo[d]
      PROVE b = d
  <2>1. /\ pc[b] = "enqueueing" /\ u \in members[room[b]]
        /\ pc[d] = "enqueueing" /\ u \in members[room[d]]
    BY <1>0, <1>2 DEF WalkIsInRoom
  <2>2. room[b] \in RoomObjects /\ room[d] \in RoomObjects
    BY <1>0, <2>1 DEF RoomAtHand
  <2>3. room[b] = room[u] /\ room[d] = room[u]
    BY <1>0, <2>1, <2>2 DEF MembersReceive
  <2>4. lock[room[b]] = b /\ lock[room[d]] = d
    BY <1>0, <2>1, <2>2 DEF RoomLockHeld
  <2> QED BY <2>3, <2>4
<1>3. ASSUME NEW u \in Clients, NEW b \in Clients, u \in todo[b]
      PROVE Pending(u) = <<Delivery(b)>>
  <2>1. b = CHOOSE d \in Clients : u \in todo[d]
    BY <1>2, <1>3
  <2> QED BY <1>3, <2>1 DEF Pending
<1>4. ASSUME NEW u \in Clients, \A b \in Clients : u \notin todo[b] PROVE Pending(u) = <<>>
    BY <1>4 DEF Pending
<1>5. ASSUME NEW u \in Clients PROVE Pending(u) \in Seq(Messages)
  <2>1. CASE \E b \in Clients : u \in todo[b]
    <3>1. PICK b \in Clients : u \in todo[b]
      BY <2>1
    <3>2. pc[b] = "enqueueing"
      BY <1>0, <3>1 DEF WalkIsInRoom
    <3>3. Delivery(b) \in Messages
      BY <1>1, <3>2
    <3>4. Pending(u) = <<Delivery(b)>>
      BY <1>3, <3>1
    <3> HIDE DEF Messages
    <3> QED BY <3>3, <3>4
  <2>2. CASE ~ \E b \in Clients : u \in todo[b]
    BY <1>4, <2>2, EmptySeq
  <2> QED BY <2>1, <2>2
<1> QED
    BY <1>1, <1>3, <1>4, <1>5 DEF PendingFacts

\* The same of the state after a step.
LEMMA PendingIsUniqueAfter == ServerInv' => PendingFacts'
BY PendingIsUnique, PTL

\* A step that keeps the broadcasts in progress keeps what is pending.
LEMMA PendingSame ==
    ASSUME ServerInv, ServerInv', NEW u \in Clients,
           \A b \in Clients : u \in todo'[b] <=> u \in todo[b],
           \A b \in Clients : u \in todo[b] => Delivery(b)' = Delivery(b)
    PROVE  Pending(u)' = Pending(u)
<1>1. PendingFacts /\ PendingFacts'
    BY PendingIsUnique, PendingIsUniqueAfter
<1>2. CASE \E b \in Clients : u \in todo[b]
  <2>1. PICK b \in Clients : u \in todo[b]
    BY <1>2
  <2>2. Pending(u) = <<Delivery(b)>>
    BY <1>1, <2>1 DEF PendingFacts
  <2>3. Pending(u)' = <<Delivery(b)'>>
    BY <1>1, <2>1 DEF PendingFacts
  <2> QED BY <2>1, <2>2, <2>3
<1>3. CASE \A b \in Clients : u \notin todo[b]
  <2>1. Pending(u) = <<>>
    BY <1>1, <1>3 DEF PendingFacts
  <2>2. Pending(u)' = <<>>
    BY <1>1, <1>3 DEF PendingFacts
  <2> QED BY <2>1, <2>2
<1> QED BY <1>2, <1>3

\* What is between a receiver's room and its client.
Hand(u) == msg[u] \o mqueue[u] \o Pending(u)

--------------------------------------------------------------------------------
(* Steps that the receivers do not see *)

\* What the abstract state is made of.
Untouched == UNCHANGED <<members, msg, mqueue, todo, delivered>>

\* A step that keeps rooms, queues and broadcasts keeps the abstract state.
LEMMA InboxSame ==
    ASSUME ServerInv, ServerInv', Untouched,
           \A b \in Clients : pc[b] = "enqueueing" => Delivery(b)' = Delivery(b)
    PROVE  Inbox' = Inbox
<1>1. \A b, u \in Clients : u \in todo[b] => pc[b] = "enqueueing"
    BY DEF ServerInv, WalkIsInRoom
<1>2. \A u \in Clients : Pending(u)' = Pending(u)
    BY <1>1, PendingSame DEF Untouched
<1> QED BY <1>2 DEF Inbox, Untouched

\* Clients come and go; the rooms do not notice.
LEMMA ClientMaps ==
    ASSUME ServerInv, ServerInv', NEW c \in Clients, ClientActs(c)
    PROVE  [Promise!Next]_(Promise!vars)
<1>1. ClientFrame(c)
    BY ClientSteps DEF ServerInv
<1>2. Untouched /\ UNCHANGED <<m_rooms, room_name, broadcasts>>
    BY <1>1 DEF ClientFrame, SharedUnchanged, Untouched
<1>3. \A b \in Clients : pc[b] = "enqueueing" => room'[b] = room[b]
    BY <1>1 DEF ClientFrame
<1>4. Inbox' = Inbox
    BY <1>2, <1>3, InboxSame DEF Delivery
<1>5. RoomMembers' = RoomMembers
    BY <1>2 DEF RoomMembers, Untouched
<1>6. peer \in [Clients -> {"up", "closed", "reset"}]
    BY DEF ServerInv, TypeOK, ThreadTypes
<1>7. Connected' \in {Connected, Connected \cup {c}, Connected \ {c}}
  <2>1. CASE Accept(c)
    BY <1>6, <2>1 DEF Accept, Connected
  <2>2. CASE Disconnect(c) \/ Reset(c)
    BY <1>6, <2>2 DEF Disconnect, Reset, Connected
  <2>3. CASE ~Accept(c) /\ ~Disconnect(c) /\ ~Reset(c)
    <3>1. UNCHANGED peer
      BY <2>3 DEF ClientActs, Login, GiveUp, Join, SendAll, Leave, Refuse, Quit, AnswerAndGoto, ServeAt
    <3> QED BY <3>1 DEF Connected
  <2> QED BY <2>1, <2>2, <2>3
<1> QED
    BY <1>2, <1>4, <1>5, <1>7
    DEF Untouched, Promise!Next, Promise!Connect, Promise!Disconnect, Promise!vars

\* Looking a room up, answering, letting the lock go: nothing a receiver sees.
LEMMA QuietSteps ==
    ASSUME ServerInv, ServerInv', NEW c \in Clients,
           Acknowledge(c) \/ LockRooms(c) \/ FindRoom(c) \/ MissRoom(c) \/ UnlockRoom(c)
    PROVE  UNCHANGED Promise!vars
<1>1. /\ UNCHANGED <<members, msg, mqueue, todo, delivered, m_rooms, room_name, broadcasts, peer>>
      /\ room' = room \/ (pc[c] # "enqueueing" /\ \E r : room' = [room EXCEPT ![c] = r])
    BY DEF Acknowledge, LockRooms, FindRoom, MissRoom, UnlockRoom, ReturnRoom, FindFrame, RoomFrame,
           NothingShared, NoAnswer, serverVars, roomVars, userVars, At, MapIsFree, ReleaseLock
<1>2. room \in [Clients -> RoomObjects \cup {NoRoom}]
    BY DEF ServerInv, TypeOK, ThreadTypes
<1>3. \A b \in Clients : pc[b] = "enqueueing" => room'[b] = room[b]
    BY <1>1, <1>2
<1>4. Inbox' = Inbox
    BY <1>1, <1>3, InboxSame DEF Delivery, Untouched
<1> QED
    BY <1>1, <1>4 DEF RoomMembers, Connected, Promise!vars

\* A new room is empty, and no broadcast is in it.
LEMMA CreateMaps ==
    ASSUME ServerInv, ServerInv', NEW c \in Clients, CreateRoom(c)
    PROVE  UNCHANGED Promise!vars
<1>0. /\ ThreadTypes /\ SharedTypes /\ MembersReceive /\ RoomAtHand /\ MapMatchesNames
    BY DEF ServerInv, TypeOK
<1>1. PICK r \in RoomObjects :
        /\ room_name[r] = NoRoom
        /\ room_name' = [room_name EXCEPT ![r] = wanted[c]]
        /\ m_rooms' = [m_rooms EXCEPT ![wanted[c]] = r]
        /\ room' = [room EXCEPT ![c] = r]
    BY DEF CreateRoom, ReturnRoom
<1>2. /\ pc[c] = "create" /\ wanted[c] \in RoomNames /\ m_rooms[wanted[c]] = NoRoom
      /\ UNCHANGED <<members, msg, mqueue, todo, delivered, broadcasts, peer>>
    BY <1>0 DEF CreateRoom, FindFrame, RoomAtHand, At, roomVars, userVars, NoAnswer
<1>3. \A b \in Clients : room[b] # r
    BY <1>0, <1>1, ServerAssumption DEF RoomAtHand, MapMatchesNames
<1>4. members[r] = {}
    BY <1>0, <1>3 DEF MembersReceive, SharedTypes
<1>5. \A b \in Clients : pc[b] = "enqueueing" => Delivery(b)' = Delivery(b)
    BY <1>0, <1>1, <1>2, <1>3 DEF Delivery, ThreadTypes, SharedTypes, RoomAtHand
<1>6. Inbox' = Inbox
    BY <1>2, <1>5, InboxSame DEF Untouched
<1>7. RoomMembers' = RoomMembers
  <2>1. \A n \in RoomNames : m_rooms'[n] = IF n = wanted[c] THEN r ELSE m_rooms[n]
    BY <1>0, <1>1 DEF SharedTypes
  <2> QED BY <1>2, <1>4, <2>1, ServerAssumption DEF RoomMembers
<1> QED
    BY <1>2, <1>6, <1>7 DEF Connected, Promise!vars

--------------------------------------------------------------------------------
(* Receivers come and go *)

\* Who is in the room of some name.
LEMMA RoomMembersOf ==
    ASSUME ServerInv
    PROVE  /\ \A c \in Clients : \A n \in RoomNames :
                  c \in RoomMembers[n] <=> pc[c] \in UserPlaces /\ wanted[c] = n
           /\ \A c \in Clients : (\E r \in RoomObjects : c \in members[r]) <=> pc[c] \in UserPlaces
           /\ \A c \in Clients : pc[c] \in UserPlaces => wanted[c] \in RoomNames
BY ServerAssumption
DEF ServerInv, TypeOK, SharedTypes, MembersReceive, RoomAtHand, MapMatchesNames, RoomMembers

\* The same of the state after a step.
LEMMA RoomMembersOfAfter ==
    ServerInv' =>
           /\ \A c \in Clients : \A n \in RoomNames :
                  c \in RoomMembers'[n] <=> pc'[c] \in UserPlaces /\ wanted'[c] = n
           /\ \A c \in Clients : (\E r \in RoomObjects : c \in members'[r]) <=> pc'[c] \in UserPlaces
           /\ \A c \in Clients : pc'[c] \in UserPlaces => wanted'[c] \in RoomNames
<1> DEFINE P == /\ \A c \in Clients : \A n \in RoomNames :
                       c \in RoomMembers[n] <=> pc[c] \in UserPlaces /\ wanted[c] = n
                /\ \A c \in Clients :
                       (\E r \in RoomObjects : c \in members[r]) <=> pc[c] \in UserPlaces
                /\ \A c \in Clients : pc[c] \in UserPlaces => wanted[c] \in RoomNames
<1>1. ServerInv => P
    BY RoomMembersOf
<1>2. ServerInv' => P'
    BY <1>1, PTL
<1> QED BY <1>2 DEF UserPlaces

\* add_member is the abstract join: nothing is on its way to a new member.
LEMMA AddMaps ==
    ASSUME ServerInv, ServerInv', NEW c \in Clients, AddMember(c)
    PROVE  Promise!Join(c, wanted[c])
<1>0. /\ ThreadTypes /\ SharedTypes /\ MessageTypes /\ RoomAtHand /\ WalkIsInRoom /\ MessageInHand
      /\ MapMatchesNames
    BY DEF ServerInv, TypeOK
<1>1. /\ pc[c] = "adding" /\ pc'[c] = "welcome" /\ \A d \in Clients \ {c} : pc'[d] = pc[d]
      /\ mqueue'[c] = <<>> /\ \A d \in Clients \ {c} : mqueue'[d] = mqueue[d]
      /\ UNCHANGED <<msg, todo, broadcasts, delivered, peer, wanted, room, room_name, m_rooms>>
    BY <1>0 DEF AddMember, At, Goto, RoomFrame, NoAnswer, serverVars, ThreadTypes, MessageTypes, RoomIsFree
<1>2. room[c] \in RoomObjects /\ wanted[c] \in RoomNames
    BY <1>0, <1>1, ServerAssumption DEF RoomAtHand
<1>3. \A s \in RoomNames : c \notin RoomMembers[s]
    BY <1>1, RoomMembersOf DEF UserPlaces
<1>4. RoomMembers' = [RoomMembers EXCEPT ![wanted[c]] = @ \cup {c}]
  <2>1. members' = [members EXCEPT ![room[c]] = @ \cup {c}] /\ m_rooms[wanted[c]] = room[c]
    BY <1>0, <1>1, <1>2, ServerAssumption DEF AddMember, RoomAtHand, RoomIsFree
  <2>2. \A n \in RoomNames : m_rooms[n] = room[c] => n = wanted[c]
    BY <1>0, <1>2, <2>1, ServerAssumption DEF MapMatchesNames
  <2> QED BY <1>0, <1>1, <1>2, <2>1, <2>2, ServerAssumption DEF RoomMembers, SharedTypes
<1>5. \A u \in Clients : Pending(u)' = Pending(u)
    BY <1>1, PendingSame DEF Delivery
<1>6. Pending(c) = <<>>
  <2>1. \A r \in RoomObjects : c \notin members[r]
    BY <1>1, RoomMembersOf DEF UserPlaces
  <2>2. \A b \in Clients : c \notin todo[b]
    BY <1>0, <2>1 DEF WalkIsInRoom, RoomAtHand
  <2> QED BY <2>2, PendingIsUnique DEF PendingFacts
<1>7. msg[c] = <<>>
    BY <1>0, <1>1 DEF MessageInHand
<1>8. Inbox' = Inbox
  <2>1. \A u \in Clients \ {c} : pc'[u] \in UserPlaces <=> pc[u] \in UserPlaces
    BY <1>1
  <2>2. Inbox = [u \in Clients |-> IF pc[u] \in UserPlaces
                                   THEN msg[u] \o mqueue[u] \o Pending(u) ELSE <<>>]
    BY RoomMembersOf DEF Inbox
  <2>3. Inbox' = [u \in Clients |-> IF pc'[u] \in UserPlaces
                                    THEN msg'[u] \o mqueue'[u] \o Pending(u)' ELSE <<>>]
    BY RoomMembersOfAfter DEF Inbox
  <2>4. msg'[c] \o mqueue'[c] \o Pending(c)' = <<>>
    BY <1>1, <1>5, <1>6, <1>7
  <2>5. pc[c] \notin UserPlaces
    BY <1>1 DEF UserPlaces
  <2> QED BY <1>1, <1>5, <2>1, <2>2, <2>3, <2>4, <2>5
<1> QED
    BY <1>1, <1>3, <1>4, <1>8 DEF Promise!Join, Connected

\* remove_member is the abstract removal, of a receiver whose connection broke.
LEMMA RemoveMaps ==
    ASSUME ServerInv, ServerInv', NEW c \in Clients, RemoveMember(c)
    PROVE  Promise!Remove(c, wanted[c])
<1>0. /\ ThreadTypes /\ SharedTypes /\ MessageTypes /\ RoomAtHand /\ WalkIsInRoom /\ GoneIsBroken
      /\ MapMatchesNames
    BY DEF ServerInv, TypeOK
<1>1. /\ pc[c] = "removing" /\ pc'[c] = "deleting" /\ \A d \in Clients \ {c} : pc'[d] = pc[d]
      /\ UNCHANGED <<mqueue, msg, todo, broadcasts, delivered, peer, wanted, room, room_name, m_rooms>>
    BY <1>0 DEF RemoveMember, At, Goto, RoomFrame, NoAnswer, serverVars, ThreadTypes, RoomIsFree
<1>2. room[c] \in RoomObjects /\ wanted[c] \in RoomNames
    BY <1>0, <1>1, ServerAssumption DEF RoomAtHand, UserPlaces
<1>3. c \in RoomMembers[wanted[c]]
    BY <1>1, <1>2, RoomMembersOf DEF UserPlaces
<1>4. c \notin Connected
    BY <1>0, <1>1 DEF GoneIsBroken, Connected
<1>5. RoomMembers' = [RoomMembers EXCEPT ![wanted[c]] = @ \ {c}]
  <2>1. members' = [members EXCEPT ![room[c]] = @ \ {c}] /\ m_rooms[wanted[c]] = room[c]
    BY <1>0, <1>1, <1>2, ServerAssumption DEF RemoveMember, RoomAtHand, RoomIsFree
  <2>2. \A n \in RoomNames : m_rooms[n] = room[c] => n = wanted[c]
    BY <1>0, <1>2, <2>1, ServerAssumption DEF MapMatchesNames
  <2> QED BY <1>0, <1>1, <1>2, <2>1, <2>2, ServerAssumption DEF RoomMembers, SharedTypes
<1>6. \A u \in Clients : Pending(u)' = Pending(u)
    BY <1>1, PendingSame DEF Delivery
<1>7. Inbox' = [Inbox EXCEPT ![c] = <<>>]
  <2>1. Inbox = [u \in Clients |-> IF pc[u] \in UserPlaces
                                   THEN msg[u] \o mqueue[u] \o Pending(u) ELSE <<>>]
    BY RoomMembersOf DEF Inbox
  <2>2. Inbox' = [u \in Clients |-> IF pc'[u] \in UserPlaces
                                    THEN msg'[u] \o mqueue'[u] \o Pending(u)' ELSE <<>>]
    BY RoomMembersOfAfter DEF Inbox
  <2>3. pc'[c] \notin UserPlaces
    BY <1>1 DEF UserPlaces
  <2> QED BY <1>1, <1>6, <2>1, <2>2, <2>3
<1> QED
    BY <1>1, <1>3, <1>4, <1>5, <1>7 DEF Promise!Remove, Connected

\* A deleted receiver is in no room any more.
LEMMA DeleteMaps ==
    ASSUME ServerInv, ServerInv', NEW c \in Clients, DeleteUser(c)
    PROVE  UNCHANGED Promise!vars
<1>0. ThreadTypes /\ MessageTypes
    BY DEF ServerInv, TypeOK
<1>1. /\ pc[c] = "deleting" /\ \A d \in Clients \ {c} : mqueue'[d] = mqueue[d]
      /\ UNCHANGED <<members, msg, todo, broadcasts, delivered, peer, wanted, room, room_name, m_rooms>>
    BY <1>0 DEF DeleteUser, At, Goto, RoomFrame, NoAnswer, serverVars, MessageTypes
<1>2. \A u \in Clients : Pending(u)' = Pending(u)
    BY <1>1, PendingSame DEF Delivery
<1>3. ~ \E r \in RoomObjects : c \in members[r]
    BY <1>1, RoomMembersOf DEF UserPlaces
<1>4. Inbox' = Inbox
    BY <1>1, <1>2, <1>3 DEF Inbox
<1> QED
    BY <1>1, <1>4 DEF RoomMembers, Connected, Promise!vars

--------------------------------------------------------------------------------
(* Broadcast and delivery *)

\* Taking the room's lock puts the message in the way of every member.
LEMMA HandBroadcast ==
    ASSUME ServerInv, ServerInv', NEW c \in Clients, LockRoom(c)
    PROVE  /\ Delivery(c)' \in Messages
           /\ \A u \in Clients :
                 Hand(u)' = IF u \in members[room[c]] THEN Append(Hand(u), Delivery(c)') ELSE Hand(u)
<1>0. /\ ThreadTypes /\ SharedTypes /\ MessageTypes /\ RoomAtHand /\ WalkIsInRoom
      /\ RoomLockHeld /\ MembersReceive
    BY DEF ServerInv, TypeOK
<1>1. /\ pc[c] = "broadcast" /\ pc'[c] = "enqueueing" /\ \A d \in Clients \ {c} : pc'[d] = pc[d]
      /\ lock[room[c]] = NoThread /\ todo'[c] = members[room[c]]
      /\ \A d \in Clients \ {c} : todo'[d] = todo[d] /\ broadcasts'[d] = broadcasts[d]
      /\ UNCHANGED <<members, mqueue, msg, delivered, peer, wanted, room, room_name, m_rooms>>
    BY <1>0 DEF LockRoom, At, Goto, RoomFrame, NoAnswer, serverVars,
                ThreadTypes, SharedTypes, MessageTypes, RoomIsFree
<1>2. room[c] \in RoomObjects
    BY <1>0, <1>1 DEF RoomAtHand
<1> DEFINE m == Delivery(c)'
<1>3. PendingFacts /\ PendingFacts'
    BY PendingIsUnique, PendingIsUniqueAfter
<1>4. m \in Messages
    BY <1>1, <1>3 DEF PendingFacts
\* A member is in no other broadcast, since that would have the lock.
<1>5. ASSUME NEW u \in Clients, u \in members[room[c]]
      PROVE  Pending(u) = <<>> /\ Pending(u)' = <<m>>
  <2>1. ASSUME NEW b \in Clients, u \in todo[b] PROVE FALSE
    <3>1. pc[b] = "enqueueing" /\ u \in members[room[b]]
      BY <1>0, <2>1 DEF WalkIsInRoom
    <3>2. room[b] \in RoomObjects
      BY <1>0, <3>1 DEF RoomAtHand
    <3>3. room[b] = room[c]
      BY <1>0, <1>2, <1>5, <3>1, <3>2 DEF MembersReceive
    <3>4. lock[room[c]] = b
      BY <1>0, <3>1, <3>2, <3>3 DEF RoomLockHeld
    <3> QED BY <1>1, <3>4, ServerAssumption
  <2>2. Pending(u) = <<>>
    BY <1>3, <2>1 DEF PendingFacts
  <2>3. Pending(u)' = <<m>>
    BY <1>1, <1>3, <1>5 DEF PendingFacts
  <2> QED BY <2>2, <2>3
<1>6. ASSUME NEW u \in Clients, u \notin members[room[c]] PROVE Pending(u)' = Pending(u)
  <2>1. u \notin todo[c]
    BY <1>0, <1>1 DEF WalkIsInRoom
  <2>2. \A b \in Clients : u \in todo'[b] <=> u \in todo[b]
    BY <1>1, <1>6, <2>1
  <2>3. \A b \in Clients : u \in todo[b] => Delivery(b)' = Delivery(b)
    BY <1>1, <2>1 DEF Delivery
  <2> QED BY <2>2, <2>3, PendingSame
<1>7. ASSUME NEW u \in Clients, u \in members[room[c]] PROVE Hand(u)' = Append(Hand(u), m)
  <2>1. Hand(u) = msg[u] \o mqueue[u] \o <<>> /\ Hand(u)' = msg[u] \o mqueue[u] \o <<m>>
    BY <1>1, <1>5, <1>7 DEF Hand
  <2>2. msg[u] \in Seq(Messages) /\ mqueue[u] \in Seq(Messages) /\ <<>> \in Seq(Messages)
    BY <1>0 DEF MessageTypes
  <2> DEFINE h == msg[u]
             q == mqueue[u]
  <2>3. h \in Seq(Messages) /\ q \in Seq(Messages) /\ m \in Messages
    BY <1>4, <2>2
  <2> HIDE DEF h, q, m, Messages
  <2>4. Append(h \o q \o <<>>, m) = h \o q \o <<m>>
    BY <2>3, InboxGrows
  <2> QED BY <2>1, <2>4 DEF h, q
<1>8. ASSUME NEW u \in Clients, u \notin members[room[c]] PROVE Hand(u)' = Hand(u)
    BY <1>1, <1>6, <1>8 DEF Hand
<1> QED BY <1>4, <1>7, <1>8

\* It is the abstract broadcast.
LEMMA BroadcastMaps ==
    ASSUME ServerInv, ServerInv', NEW c \in Clients, LockRoom(c)
    PROVE  \E n \in RoomNames, m \in Messages : Promise!Broadcast(n, m)
<1>0. SharedTypes /\ RoomAtHand /\ MembersReceive
    BY DEF ServerInv, TypeOK
<1>1. /\ pc[c] = "broadcast"
      /\ UNCHANGED <<members, delivered, peer, m_rooms>>
    BY DEF LockRoom, At, RoomFrame, NoAnswer, serverVars, RoomIsFree
<1>2. /\ room[c] \in RoomObjects /\ wanted[c] \in RoomNames /\ m_rooms[wanted[c]] = room[c]
      /\ room[c] # NoRoom
    BY <1>0, <1>1, ServerAssumption DEF RoomAtHand
<1> DEFINE m == Delivery(c)'
           n == wanted[c]
<1>3. /\ m \in Messages
      /\ \A u \in Clients : Hand(u)' = IF u \in members[room[c]] THEN Append(Hand(u), m) ELSE Hand(u)
    BY HandBroadcast
<1>4. RoomMembers[n] = members[room[c]] /\ RoomMembers' = RoomMembers
    BY <1>1, <1>2 DEF RoomMembers
<1>5. Inbox' = [u \in Clients |-> IF u \in RoomMembers[n] THEN Append(Inbox[u], m) ELSE Inbox[u]]
    BY <1>1, <1>2, <1>3, <1>4 DEF Inbox, Hand
<1>6. Promise!Broadcast(n, m)
    BY <1>1, <1>4, <1>5 DEF Promise!Broadcast, Connected
<1> QED BY <1>2, <1>3, <1>6

\* An enqueue moves the message from pending into the queue.
LEMMA HandEnqueued ==
    ASSUME ServerInv, ServerInv', NEW c \in Clients, NEW v \in Clients, EnqueueTo(c, v)
    PROVE  \A u \in Clients : Hand(u)' = Hand(u)
<1>0. /\ ThreadTypes /\ SharedTypes /\ MessageTypes
    BY DEF ServerInv, TypeOK
<1>1. /\ pc[c] = "enqueueing" /\ v \in todo[c]
      /\ mqueue'[v] = Append(mqueue[v], Delivery(c))
      /\ \A d \in Clients \ {v} : mqueue'[d] = mqueue[d]
      /\ todo'[c] = todo[c] \ {v} /\ \A d \in Clients \ {c} : todo'[d] = todo[d]
      /\ UNCHANGED <<members, msg, delivered, broadcasts, peer, room, room_name, m_rooms>>
    BY <1>0 DEF EnqueueTo, At, RoomFrame, NoAnswer, serverVars, SharedTypes, MessageTypes
<1>2. PendingFacts /\ PendingFacts'
    BY PendingIsUnique, PendingIsUniqueAfter
<1> DEFINE m == Delivery(c)
<1>3. m \in Messages /\ Pending(v) = <<m>>
    BY <1>1, <1>2 DEF PendingFacts
<1>4. \A b \in Clients : Delivery(b)' = Delivery(b)
    BY <1>1 DEF Delivery
<1>5. Pending(v)' = <<>>
  <2>1. ASSUME NEW b \in Clients, v \in todo'[b] PROVE FALSE
    <3>1. b # c /\ v \in todo[b]
      BY <1>1, <2>1
    <3>2. room[b] \in RoomObjects /\ room[c] \in RoomObjects
          /\ v \in members[room[b]] /\ v \in members[room[c]]
          /\ pc[b] = "enqueueing"
      BY <1>1, <3>1 DEF ServerInv, WalkIsInRoom, RoomAtHand
    <3>3. room[b] = room[c]
      BY <3>2 DEF ServerInv, MembersReceive
    <3>4. lock[room[b]] = b /\ lock[room[b]] = c
      BY <1>1, <3>2, <3>3 DEF ServerInv, RoomLockHeld
    <3> QED BY <3>1, <3>4
  <2> QED BY <1>2, <2>1 DEF PendingFacts
<1>6. ASSUME NEW u \in Clients \ {v} PROVE Pending(u)' = Pending(u)
  <2>1. \A b \in Clients : u \in todo'[b] <=> u \in todo[b]
    BY <1>1
  <2> QED BY <1>4, <2>1, PendingSame
<1>7. msg[v] \o mqueue'[v] \o Pending(v)' = msg[v] \o mqueue[v] \o Pending(v)
  <2>1. msg[v] \in Seq(Messages) /\ mqueue[v] \in Seq(Messages) /\ <<>> \in Seq(Messages)
    BY <1>0 DEF MessageTypes
  <2>2. msg[v] \o Append(mqueue[v], m) \o <<>> = msg[v] \o mqueue[v] \o <<m>>
    <3> DEFINE h == msg[v]
               q == mqueue[v]
    <3>1. h \in Seq(Messages) /\ q \in Seq(Messages) /\ m \in Messages
      BY <1>3, <2>1
    <3> HIDE DEF h, q, m, Messages
    <3>2. h \o Append(q, m) \o <<>> = h \o q \o <<m>>
      BY <3>1, InboxGrows
    <3> QED BY <3>2 DEF h, q
  <2> QED BY <1>1, <1>3, <1>5, <2>2 DEF m
<1> QED BY <1>1, <1>6, <1>7 DEF Hand

\* The receivers see nothing of an enqueue.
LEMMA EnqueueMaps ==
    ASSUME ServerInv, ServerInv', NEW c \in Clients, NEW v \in Clients, EnqueueTo(c, v)
    PROVE  UNCHANGED Promise!vars
<1>1. UNCHANGED <<members, delivered, peer, m_rooms>>
    BY DEF EnqueueTo, RoomFrame, NoAnswer, serverVars
<1>2. Inbox' = Inbox
    BY <1>1, HandEnqueued DEF Inbox, Hand
<1> QED
    BY <1>1, <1>2 DEF RoomMembers, Connected, Promise!vars

\* The head of the queue moves into the hand.
LEMMA HandDequeued ==
    ASSUME ServerInv, ServerInv', NEW c \in Clients, Dequeue(c)
    PROVE  \A u \in Clients : Hand(u)' = Hand(u)
<1>0. /\ ThreadTypes /\ SharedTypes /\ MessageTypes /\ MessageInHand
    BY DEF ServerInv, TypeOK
<1>1. /\ pc[c] = "waiting" /\ mqueue[c] # <<>>
      /\ msg'[c] = <<Head(mqueue[c])>> /\ mqueue'[c] = Tail(mqueue[c])
      /\ \A d \in Clients \ {c} : mqueue'[d] = mqueue[d] /\ msg'[d] = msg[d]
      /\ UNCHANGED <<members, todo, delivered, broadcasts, peer, room, room_name, m_rooms>>
    BY <1>0 DEF Dequeue, At, LoopFrame, serverVars, roomVars, MessageTypes, TakeFromQueue
<1>2. \A u \in Clients : Pending(u)' = Pending(u)
    BY <1>1, PendingSame DEF Delivery
<1>3. msg[c] = <<>>
    BY <1>0, <1>1 DEF MessageInHand
<1>4. msg'[c] \o mqueue'[c] \o Pending(c)' = msg[c] \o mqueue[c] \o Pending(c)
  <2>1. mqueue[c] \in Seq(Messages) /\ Pending(c) \in Seq(Messages) /\ <<>> \in Seq(Messages)
    BY <1>0, PendingIsUnique DEF MessageTypes, PendingFacts
  <2>2. <<Head(mqueue[c])>> \o Tail(mqueue[c]) = <<>> \o mqueue[c]
    BY <1>1, <2>1, InboxMoves
  <2> QED BY <1>1, <1>2, <1>3, <2>2
<1> QED BY <1>1, <1>2, <1>4 DEF Hand

\* Nor of a dequeue.
LEMMA DequeueMaps ==
    ASSUME ServerInv, ServerInv', NEW c \in Clients, Dequeue(c)
    PROVE  UNCHANGED Promise!vars
<1>1. UNCHANGED <<members, delivered, peer, m_rooms>>
    BY DEF Dequeue, TakeFromQueue, LoopFrame, serverVars, roomVars
<1>2. Inbox' = Inbox
    BY <1>1, HandDequeued DEF Inbox, Hand
<1> QED
    BY <1>1, <1>2 DEF RoomMembers, Connected, Promise!vars

\* A send takes the first message on its way; it is delivered to a client that is there.
LEMMA HandSent ==
    ASSUME ServerInv, ServerInv', NEW c \in Clients, SendDelivery(c) \/ SendFails(c)
    PROVE  /\ Hand(c) # <<>> /\ Hand(c)' = Tail(Hand(c))
           /\ \A u \in Clients \ {c} : Hand(u)' = Hand(u)
           /\ delivered' = IF peer[c] = "up" THEN [delivered EXCEPT ![c] = Append(@, Head(Hand(c)))]
                                              ELSE delivered
           /\ pc[c] = "delivering"
           /\ UNCHANGED <<members, broadcasts, peer, m_rooms>>
<1>0. /\ ThreadTypes /\ SharedTypes /\ MessageTypes /\ MessageInHand
    BY DEF ServerInv, TypeOK
<1>1. /\ pc[c] = "delivering" /\ msg'[c] = <<>> /\ \A d \in Clients \ {c} : msg'[d] = msg[d]
      /\ UNCHANGED <<mqueue, members, todo, broadcasts, peer, room, room_name, m_rooms>>
      /\ delivered' = IF peer[c] = "up" THEN [delivered EXCEPT ![c] = @ \o msg[c]] ELSE delivered
    BY <1>0 DEF SendDelivery, SendFails, At, LoopFrame, serverVars, roomVars, MessageTypes, Send, EndSend
<1>2. \A u \in Clients : Pending(u)' = Pending(u)
    BY <1>1, PendingSame DEF Delivery
<1> DEFINE x == Head(msg[c])
<1>3. msg[c] = <<x>> /\ x \in Messages
  <2>1. msg[c] # <<>> /\ msg[c] \in Seq(Messages) /\ Len(msg[c]) <= 1
    BY <1>0, <1>1 DEF MessageInHand, MessageTypes
  <2> DEFINE s == msg[c]
  <2>2. s # <<>> /\ s \in Seq(Messages) /\ Len(s) <= 1
    BY <2>1
  <2> HIDE DEF s, Messages
  <2>3. Len(s) = 1 /\ Head(s) \in Messages /\ Head(s) = s[1]
    <3>1. Len(s) \in Nat \ {0}
      BY <2>2, EmptySeq
    <3>2. Head(s) \in Messages
      BY <2>2, HeadTailProperties
    <3> QED BY <2>2, <3>1, <3>2
  <2>4. s = <<Head(s)>>
    <3>1. <<Head(s)>> \in Seq(Messages) /\ Len(<<Head(s)>>) = 1 /\ <<Head(s)>>[1] = Head(s)
      BY <2>3
    <3> QED BY <2>2, <2>3, <3>1, SeqEqual
  <2> QED BY <2>3, <2>4 DEF s
<1> HIDE DEF x
<1>4. Hand(c) = <<x>> \o mqueue[c] \o Pending(c) /\ Hand(c)' = <<>> \o mqueue[c] \o Pending(c)
    BY <1>1, <1>2, <1>3 DEF Hand
<1>5. mqueue[c] \in Seq(Messages) /\ Pending(c) \in Seq(Messages) /\ <<>> \in Seq(Messages)
      /\ delivered[c] \in Seq(Messages)
    BY <1>0, PendingIsUnique DEF MessageTypes, PendingFacts
<1>6. Hand(c) # <<>> /\ Head(Hand(c)) = x /\ Tail(Hand(c)) = Hand(c)'
  <2> DEFINE q == mqueue[c]
             p == Pending(c)
  <2>1. q \in Seq(Messages) /\ p \in Seq(Messages) /\ x \in Messages
    BY <1>3, <1>5
  <2> HIDE DEF q, p, Messages
  <2>2. /\ Head(<<x>> \o q \o p) = x
        /\ Tail(<<x>> \o q \o p) = <<>> \o q \o p
        /\ <<x>> \o q \o p # <<>>
    BY <2>1, InboxShrinks
  <2> QED BY <1>4, <2>2 DEF q, p
<1>7. delivered[c] \o msg[c] = Append(delivered[c], x)
    BY <1>3, <1>5, AppendIsConcat
<1> QED BY <1>1, <1>2, <1>6, <1>7 DEF Hand

\* A send is an abstract delivery, or a loss if the receiver has gone.
LEMMA SendMaps ==
    ASSUME ServerInv, ServerInv', NEW c \in Clients, SendDelivery(c) \/ SendFails(c)
    PROVE  Promise!Deliver(c) \/ Promise!Lose(c)
<1>1. /\ Hand(c) # <<>> /\ Hand(c)' = Tail(Hand(c))
      /\ \A u \in Clients \ {c} : Hand(u)' = Hand(u)
      /\ delivered' = IF peer[c] = "up" THEN [delivered EXCEPT ![c] = Append(@, Head(Hand(c)))]
                                         ELSE delivered
      /\ pc[c] = "delivering"
      /\ UNCHANGED <<members, broadcasts, peer, m_rooms>>
    BY HandSent
<1>2. \E r \in RoomObjects : c \in members[r]
    BY <1>1, RoomMembersOf DEF UserPlaces
<1>3. Inbox[c] = Hand(c) /\ Inbox'[c] = Hand(c)'
    BY <1>1, <1>2 DEF Inbox, Hand
<1>4. Inbox' = [Inbox EXCEPT ![c] = Tail(@)]
  <2>1. \A u \in Clients \ {c} : Inbox'[u] = Inbox[u]
    BY <1>1 DEF Inbox, Hand
  <2>2. Inbox' = [u \in Clients |-> Inbox'[u]] /\ Inbox = [u \in Clients |-> Inbox[u]]
    BY DEF Inbox
  <2> QED BY <1>1, <1>3, <2>1, <2>2
<1>5. RoomMembers' = RoomMembers /\ Connected' = Connected
    BY <1>1 DEF RoomMembers, Connected
<1>6. CASE peer[c] = "up"
    BY <1>1, <1>3, <1>4, <1>5, <1>6 DEF Promise!Deliver
<1>7. CASE peer[c] # "up"
  <2>1. c \notin Connected
    BY <1>7 DEF Connected
  <2> QED BY <1>1, <1>3, <1>4, <1>5, <1>7, <2>1 DEF Promise!Lose
<1> QED BY <1>6, <1>7

--------------------------------------------------------------------------------
\* The server's first state is the promise's.
LEMMA PromiseInit == Init => Promise!Init
BY DEF Init, Promise!Init, RoomMembers, Inbox, Connected

\* Every step of the server is a step of the promise, or none.
LEMMA PromiseStep == ServerInv /\ ServerInv' /\ [Next]_vars => [Promise!Next]_(Promise!vars)
<1> SUFFICES ASSUME ServerInv, ServerInv', [Next]_vars
             PROVE  [Promise!Next]_(Promise!vars)
    OBVIOUS
<1>0. RoomAtHand
    BY DEF ServerInv
<1>1. ASSUME NEW c \in Clients, ClientActs(c) PROVE [Promise!Next]_(Promise!vars)
    BY <1>1, ClientMaps
<1>2. ASSUME NEW c \in Clients,
             Acknowledge(c) \/ LockRooms(c) \/ FindRoom(c) \/ MissRoom(c) \/ UnlockRoom(c)
      PROVE  UNCHANGED Promise!vars
    BY <1>2, QuietSteps
<1>3. ASSUME NEW c \in Clients, CreateRoom(c) \/ DeleteUser(c) \/ Dequeue(c)
      PROVE  UNCHANGED Promise!vars
    BY <1>3, CreateMaps, DeleteMaps, DequeueMaps
<1>4. ASSUME NEW c \in Clients, NEW u \in Clients, EnqueueTo(c, u) PROVE UNCHANGED Promise!vars
    BY <1>4, EnqueueMaps
<1>5. ASSUME NEW c \in Clients, AddMember(c) PROVE Promise!Next
  <2>1. wanted[c] \in RoomNames
    BY <1>0, <1>5, ServerAssumption DEF AddMember, At, RoomAtHand, RoomIsFree
  <2> QED BY <1>5, <2>1, AddMaps DEF Promise!Next
<1>6. ASSUME NEW c \in Clients, RemoveMember(c) PROVE Promise!Next
  <2>1. wanted[c] \in RoomNames
    BY <1>0, <1>6, ServerAssumption DEF RemoveMember, At, RoomAtHand, UserPlaces, RoomIsFree
  <2> QED BY <1>6, <2>1, RemoveMaps DEF Promise!Next
<1>7. ASSUME NEW c \in Clients, LockRoom(c) PROVE Promise!Next
    BY <1>7, BroadcastMaps DEF Promise!Next
<1>8. ASSUME NEW c \in Clients, SendDelivery(c) \/ SendFails(c) PROVE Promise!Next
    BY <1>8, SendMaps DEF Promise!Next
<1>9. CASE UNCHANGED vars
    BY <1>9 DEF vars, RoomMembers, Inbox, Pending, Delivery, Connected, Promise!vars
<1> QED
    BY <1>1, <1>2, <1>3, <1>4, <1>5, <1>6, <1>7, <1>8, <1>9
    DEF Next, Serve, DequeueTimeout, Quiet

\* The server keeps RoomBroadcast's promise: broadcasts are atomic and in one order
\* for every member of the room, and nothing is lost to a connected receiver, for
\* any number of clients, rooms and messages.
THEOREM ServerImplementsBroadcast == Spec => ImplementsRoomBroadcast
<1> QED
    BY PromiseInit, PromiseStep, ServerInvariant, PTL
    DEF Spec, ImplementsRoomBroadcast, Promise!Spec

--------------------------------------------------------------------------------
(* Sequences in the same order *)

\* Two sequences have the elements that are in both in the same order.
Agree(s, t) ==
    \A i, j \in 1..Len(s) : \A k, l \in 1..Len(t) :
        (s[i] = t[k] /\ s[j] = t[l]) => (i < j <=> k < l)

\* s is t with some elements left out, by the places f of those that are not.
ThinsBy(f, s, t) ==
    /\ f \in [1..Len(s) -> 1..Len(t)]
    /\ \A i, j \in 1..Len(s) : i < j <=> f[i] < f[j]
    /\ \A i \in 1..Len(s) : s[i] = t[f[i]]

Thins(s, t) == \E f : ThinsBy(f, s, t)

\* Leaving elements out of either sequence changes no order.
LEMMA AgreeThinned ==
    ASSUME NEW s, NEW s2, NEW t, NEW t2, Thins(s2, s), Thins(t2, t), Agree(s, t)
    PROVE  Agree(s2, t2)
<1>1. PICK f : ThinsBy(f, s2, s)
    BY DEF Thins
<1>2. PICK g : ThinsBy(g, t2, t)
    BY DEF Thins
<1>3. SUFFICES ASSUME NEW i \in 1..Len(s2), NEW j \in 1..Len(s2),
                      NEW k \in 1..Len(t2), NEW l \in 1..Len(t2),
                      s2[i] = t2[k], s2[j] = t2[l]
               PROVE  i < j <=> k < l
    BY DEF Agree
<1>4. /\ f[i] \in 1..Len(s) /\ f[j] \in 1..Len(s) /\ g[k] \in 1..Len(t) /\ g[l] \in 1..Len(t)
      /\ s[f[i]] = t[g[k]] /\ s[f[j]] = t[g[l]]
    BY <1>1, <1>2, <1>3 DEF ThinsBy
<1>5. f[i] < f[j] <=> g[k] < g[l]
    BY <1>4 DEF Agree
<1> QED
    BY <1>1, <1>2, <1>5 DEF ThinsBy

\* A new element at the end of either sequence, or of both, changes no order.
LEMMA AgreeExtended ==
    ASSUME NEW M, NEW s \in Seq(M), NEW t \in Seq(M), NEW x \in M, NEW s2, NEW t2,
           Agree(s, t),
           \A i \in 1..Len(s) : s[i] # x, \A k \in 1..Len(t) : t[k] # x,
           s2 = s \/ s2 = Append(s, x), t2 = t \/ t2 = Append(t, x)
    PROVE  Agree(s2, t2)
<1>1. Len(s) \in Nat /\ Len(t) \in Nat
    BY LenProperties
<1>2. /\ Len(s2) \in {Len(s), Len(s) + 1}
      /\ \A i \in 1..Len(s2) :
            /\ i <= Len(s) => s2[i] = s[i] /\ s2[i] # x
            /\ ~(i <= Len(s)) => i = Len(s) + 1 /\ s2[i] = x
    BY <1>1
<1>3. /\ Len(t2) \in {Len(t), Len(t) + 1}
      /\ \A k \in 1..Len(t2) :
            /\ k <= Len(t) => t2[k] = t[k] /\ t2[k] # x
            /\ ~(k <= Len(t)) => k = Len(t) + 1 /\ t2[k] = x
    BY <1>1
<1>4. SUFFICES ASSUME NEW i \in 1..Len(s2), NEW j \in 1..Len(s2),
                      NEW k \in 1..Len(t2), NEW l \in 1..Len(t2),
                      s2[i] = t2[k], s2[j] = t2[l]
               PROVE  i < j <=> k < l
    BY DEF Agree
<1>5. /\ i <= Len(s) <=> k <= Len(t)
      /\ j <= Len(s) <=> l <= Len(t)
  <2>1. /\ i <= Len(s) <=> s2[i] # x
        /\ j <= Len(s) <=> s2[j] # x
      BY <1>1, <1>2, <1>4
  <2>2. /\ k <= Len(t) <=> t2[k] # x
        /\ l <= Len(t) <=> t2[l] # x
      BY <1>1, <1>3, <1>4
  <2> QED BY <1>4, <2>1, <2>2
<1>6. CASE i <= Len(s) /\ j <= Len(s)
  <2>1. i \in 1..Len(s) /\ j \in 1..Len(s) /\ k \in 1..Len(t) /\ l \in 1..Len(t)
      BY <1>1, <1>2, <1>3, <1>5, <1>6
  <2>2. s[i] = t[k] /\ s[j] = t[l]
      BY <1>2, <1>3, <1>4, <1>5, <1>6
  <2> QED BY <2>1, <2>2 DEF Agree
<1>7. CASE ~(i <= Len(s) /\ j <= Len(s))
    BY <1>1, <1>2, <1>3, <1>4, <1>5, <1>7
<1> QED BY <1>6, <1>7

\* Nothing need be left out.
LEMMA ThinsSame == ASSUME NEW M, NEW s \in Seq(M) PROVE Thins(s, s)
<1>1. Len(s) \in Nat
    BY LenProperties
<1>2. ThinsBy([i \in 1..Len(s) |-> i], s, s)
    BY <1>1 DEF ThinsBy
<1> QED BY <1>2 DEF Thins

\* What was at the end is left out, or the first after a beginning that stays.
LEMMA ThinsCut ==
    ASSUME NEW M, NEW s \in Seq(M), NEW t \in Seq(M)
    PROVE  /\ Thins(s, s \o t)
           /\ t # <<>> => Thins(s \o Tail(t), s \o t)
<1>1. Len(s) \in Nat /\ Len(t) \in Nat
    BY LenProperties
<1>2. /\ Len(s \o t) = Len(s) + Len(t)
      /\ \A i \in 1..Len(s) + Len(t) : (s \o t)[i] = IF i <= Len(s) THEN s[i] ELSE t[i - Len(s)]
    BY ConcatProperties
<1>3. ThinsBy([i \in 1..Len(s) |-> i], s, s \o t)
    BY <1>1, <1>2 DEF ThinsBy
<1>4. ASSUME t # <<>>
      PROVE  Thins(s \o Tail(t), s \o t)
  <2> DEFINE u == Tail(t)
             w == s \o u
             z == s \o t
             f == [i \in 1..Len(w) |-> IF i <= Len(s) THEN i ELSE i + 1]
  <2>1. u \in Seq(M) /\ Len(u) = Len(t) - 1 /\ \A i \in 1..Len(u) : u[i] = t[i + 1]
      BY <1>4, HeadTailProperties
  <2>2. Len(t) \in Nat \ {0}
      BY <1>4, EmptySeq
  <2> HIDE DEF u
  <2>3. /\ Len(w) = Len(s) + Len(u)
        /\ \A i \in 1..Len(s) + Len(u) : w[i] = IF i <= Len(s) THEN s[i] ELSE u[i - Len(s)]
      BY <2>1, ConcatProperties
  <2>4. /\ Len(z) = Len(s) + Len(t)
        /\ \A i \in 1..Len(s) + Len(t) : z[i] = IF i <= Len(s) THEN s[i] ELSE t[i - Len(s)]
      BY <1>2
  <2> HIDE DEF w, z
  <2>5. f \in [1..Len(w) -> 1..Len(z)]
      BY <1>1, <2>1, <2>2, <2>3, <2>4
  <2>6. \A i, j \in 1..Len(w) : i < j <=> f[i] < f[j]
      BY <1>1, <2>1, <2>2, <2>3
  <2>7. ASSUME NEW i \in 1..Len(w)
        PROVE  w[i] = z[f[i]]
    <3>1. i \in 1..Len(s) + Len(u) /\ Len(u) = Len(t) - 1
        BY <2>1, <2>3
    <3>2. CASE i <= Len(s)
        BY <1>1, <2>2, <2>3, <2>4, <2>7, <3>1, <3>2
    <3>3. CASE i > Len(s)
      <4>1. f[i] = i + 1 /\ i + 1 \in 1..Len(s) + Len(t) /\ ~(i + 1 <= Len(s)) /\ ~(i <= Len(s))
            /\ i - Len(s) \in 1..Len(u) /\ (i - Len(s)) + 1 = (i + 1) - Len(s)
          BY <1>1, <2>2, <2>7, <3>1, <3>3
      <4>2. w[i] = u[i - Len(s)]
          BY <2>3, <3>1, <4>1
      <4>3. u[i - Len(s)] = t[(i - Len(s)) + 1]
          BY <2>1, <4>1
      <4>4. z[i + 1] = t[(i + 1) - Len(s)]
          BY <2>4, <4>1
      <4> QED BY <4>1, <4>2, <4>3, <4>4
    <3> QED BY <1>1, <3>1, <3>2, <3>3
  <2> QED BY <2>5, <2>6, <2>7 DEF ThinsBy, Thins, u, w, z
<1> QED BY <1>3, <1>4 DEF Thins

--------------------------------------------------------------------------------
(* One order for all receivers *)

\* What is sent moves from one part of a flow into the next; what comes, comes last.
LEMMA HeadMoves ==
    ASSUME NEW M, NEW d \in Seq(M), NEW h \in Seq(M), h # <<>>
    PROVE  Append(d, Head(h)) \o Tail(h) = d \o h
<1>1. Head(h) \in M /\ Tail(h) \in Seq(M)
    BY HeadTailProperties
<1>2. <<Head(h)>> \in Seq(M) /\ Append(d, Head(h)) = d \o <<Head(h)>>
    BY <1>1, AppendIsConcat
<1>3. (d \o <<Head(h)>>) \o Tail(h) = d \o (<<Head(h)>> \o Tail(h))
    BY <1>1, <1>2, ConcatAssociative
<1>4. <<Head(h)>> \o Tail(h) = h
    BY InboxMoves, ConcatEmptySeq
<1> QED BY <1>2, <1>3, <1>4

\* Appending to the end of the second part appends to the whole.
LEMMA AppendLast ==
    ASSUME NEW M, NEW d \in Seq(M), NEW h \in Seq(M), NEW x \in M
    PROVE  d \o Append(h, x) = Append(d \o h, x)
<1>1. <<x>> \in Seq(M) /\ d \o h \in Seq(M)
    BY ConcatProperties
<1>2. Append(h, x) = h \o <<x>> /\ Append(d \o h, x) = (d \o h) \o <<x>>
    BY <1>1, AppendIsConcat
<1>3. (d \o h) \o <<x>> = d \o (h \o <<x>>)
    BY <1>1, ConcatAssociative
<1> QED BY <1>2, <1>3

\* A flow is what has been received, and then what is pending.
LEMMA Regrouped ==
    ASSUME NEW M, NEW d \in Seq(M), NEW h \in Seq(M), NEW q \in Seq(M), NEW p \in Seq(M)
    PROVE  d \o (h \o q \o p) = (d \o h \o q) \o p /\ d \o h \o q \in Seq(M)
<1>1. d \o h \in Seq(M) /\ h \o q \in Seq(M) /\ (d \o h) \o q \in Seq(M)
  <2>1. d \o h \in Seq(M)
      BY ConcatProperties
  <2>2. h \o q \in Seq(M)
      BY ConcatProperties
  <2> QED BY <2>1, <2>2, ConcatProperties
<1>2. (d \o h) \o q = d \o (h \o q)
    BY <1>1, ConcatAssociative
<1>3. (d \o (h \o q)) \o p = d \o ((h \o q) \o p)
    BY <1>1, ConcatAssociative
<1> QED BY <1>1, <1>2, <1>3

\* Everything a receiver has got, is about to get or is in the way of.
Flow(c) == delivered[c] \o Hand(c)

\* Messages come to all receivers in one order, and the next one of a sender is new.
FlowsAgree == \A c, d \in Clients : Agree(Flow(c), Flow(d))
FlowsNumbered ==
    \A c \in Clients : \A i \in 1..Len(Flow(c)) :
        Flow(c)[i].number <= broadcasts[Flow(c)[i].from]

OrderInv == FlowsAgree /\ FlowsNumbered

\* What a step may do to the flows: leave messages out, ...
FlowsThin ==
    /\ \A u \in Clients : Thins(Flow(u)', Flow(u))
    /\ UNCHANGED broadcasts

\* ... or put a new one at the end of some.
FlowsGrow(c, m) ==
    /\ m \in Messages /\ m.from = c /\ m.number = broadcasts[c] + 1
    /\ broadcasts' = [broadcasts EXCEPT ![c] = @ + 1]
    /\ \A u \in Clients : Flow(u)' = Flow(u) \/ Flow(u)' = Append(Flow(u), m)

\* The parts of a flow are sequences of messages.
LEMMA FlowTypes ==
    ASSUME ServerInv, NEW u \in Clients
    PROVE  /\ delivered[u] \in Seq(Messages) /\ msg[u] \in Seq(Messages)
           /\ mqueue[u] \in Seq(Messages) /\ Pending(u) \in Seq(Messages)
           /\ Hand(u) \in Seq(Messages) /\ Flow(u) \in Seq(Messages)
<1>1. /\ delivered[u] \in Seq(Messages) /\ msg[u] \in Seq(Messages)
      /\ mqueue[u] \in Seq(Messages) /\ Pending(u) \in Seq(Messages)
  <2>1. MessageTypes /\ PendingFacts
      BY PendingIsUnique DEF ServerInv, TypeOK
  <2> QED BY <2>1 DEF MessageTypes, PendingFacts
<1> HIDE DEF Messages
<1>2. Hand(u) \in Seq(Messages)
  <2>1. msg[u] \o mqueue[u] \in Seq(Messages)
      BY <1>1, ConcatProperties
  <2> QED BY <1>1, <2>1, ConcatProperties DEF Hand
<1>3. Flow(u) \in Seq(Messages)
    BY <1>1, <1>2, ConcatProperties DEF Flow
<1> QED BY <1>1, <1>2, <1>3

\* A flow that stays thins.
LEMMA FlowStays ==
    ASSUME ServerInv, NEW u \in Clients, Flow(u)' = Flow(u)
    PROVE  Thins(Flow(u)', Flow(u))
BY FlowTypes, ThinsSame

\* Most steps neither make nor move a message.
LEMMA FlowsKept ==
    ASSUME ServerInv, ServerInv', NEW c \in Clients,
           \/ ClientActs(c)
           \/ Acknowledge(c) \/ LockRooms(c) \/ FindRoom(c) \/ MissRoom(c) \/ UnlockRoom(c)
           \/ CreateRoom(c) \/ RemoveMember(c)
    PROVE  FlowsThin
<1>0. /\ ThreadTypes /\ SharedTypes /\ RoomAtHand /\ MapMatchesNames /\ WalkIsInRoom
    BY DEF ServerInv, TypeOK
<1>1. UNCHANGED <<msg, mqueue, todo, delivered, broadcasts>>
  <2>1. CASE ClientActs(c)
      BY <2>1, ClientSteps DEF ClientFrame, SharedUnchanged, ServerInv
  <2>2. CASE ~ClientActs(c)
      BY <2>2 DEF Acknowledge, LockRooms, FindRoom, MissRoom, UnlockRoom, CreateRoom, RemoveMember,
                  ReturnRoom, FindFrame, RoomFrame, NothingShared, NoAnswer, serverVars, roomVars,
                  userVars, At, MapIsFree, RoomIsFree, ReleaseLock
  <2> QED BY <2>1, <2>2
<1>2. \A b \in Clients : pc[b] = "enqueueing" => Delivery(b)' = Delivery(b)
  <2>1. CASE ClientActs(c)
    <3>1. UNCHANGED room_name /\ \A b \in Clients : pc[b] = "enqueueing" => room'[b] = room[b]
        BY <2>1, ClientSteps DEF ClientFrame, SharedUnchanged, ServerInv
    <3> QED BY <1>1, <3>1 DEF Delivery
  <2>2. CASE CreateRoom(c)
    <3>1. PICK r \in RoomObjects :
            /\ room_name[r] = NoRoom
            /\ room_name' = [room_name EXCEPT ![r] = wanted[c]]
            /\ room' = [room EXCEPT ![c] = r]
        BY <2>2 DEF CreateRoom, ReturnRoom
    <3>2. pc[c] = "create"
        BY <2>2 DEF CreateRoom, At
    <3>3. \A b \in Clients : room[b] # r
        BY <1>0, <3>1, ServerAssumption DEF RoomAtHand, MapMatchesNames
    <3> QED BY <1>0, <1>1, <3>1, <3>2, <3>3 DEF Delivery, ThreadTypes, SharedTypes, RoomAtHand
  <2>3. CASE ~ClientActs(c) /\ ~CreateRoom(c)
    <3>1. /\ UNCHANGED room_name
          /\ room' = room \/ (pc[c] # "enqueueing" /\ \E r : room' = [room EXCEPT ![c] = r])
        BY <2>3 DEF Acknowledge, LockRooms, FindRoom, MissRoom, UnlockRoom, RemoveMember, ReturnRoom,
                    FindFrame, RoomFrame, NothingShared, serverVars, At, MapIsFree, RoomIsFree
    <3>2. \A b \in Clients : pc[b] = "enqueueing" => room'[b] = room[b]
        BY <1>0, <3>1 DEF ThreadTypes
    <3> QED BY <1>1, <3>1, <3>2 DEF Delivery
  <2> QED BY <2>1, <2>2, <2>3
<1>3. \A b, u \in Clients : u \in todo[b] => pc[b] = "enqueueing"
    BY <1>0 DEF WalkIsInRoom
<1>4. \A u \in Clients : Pending(u)' = Pending(u)
    BY <1>1, <1>2, <1>3, PendingSame
<1> QED BY <1>1, <1>4, FlowStays DEF Flow, Hand, FlowsThin

\* A User is made and deleted with an empty queue: what was in it is left out.
LEMMA FlowsEmptied ==
    ASSUME ServerInv, ServerInv', NEW c \in Clients, AddMember(c) \/ DeleteUser(c)
    PROVE  FlowsThin
<1>0. ThreadTypes /\ MessageTypes /\ WalkIsInRoom /\ MembersReceive /\ RoomAtHand /\ MessageInHand
    BY DEF ServerInv, TypeOK
<1>1. /\ pc[c] \in {"adding", "deleting"}
      /\ mqueue'[c] = <<>> /\ \A d \in Clients \ {c} : mqueue'[d] = mqueue[d]
      /\ UNCHANGED <<msg, todo, broadcasts, delivered, room, room_name>>
    BY <1>0 DEF AddMember, DeleteUser, At, RoomFrame, NoAnswer, serverVars, MessageTypes, RoomIsFree
<1>2. \A u \in Clients : Pending(u)' = Pending(u)
    BY <1>1, PendingSame DEF Delivery
<1>3. Pending(c) = <<>>
  <2>1. \A b \in Clients : c \notin todo[b]
      BY <1>0, <1>1 DEF WalkIsInRoom, RoomAtHand, MembersReceive, UserPlaces
  <2> QED BY <2>1, PendingIsUnique DEF PendingFacts
<1>4. msg[c] = <<>>
    BY <1>0, <1>1 DEF MessageInHand
<1>5. Thins(Flow(c)', Flow(c))
  <2>1. Hand(c)' = <<>>
      BY <1>1, <1>2, <1>3, <1>4 DEF Hand
  <2>2. Flow(c)' = delivered[c]
      BY <1>1, <2>1, FlowTypes, ConcatEmptySeq DEF Flow
  <2>3. Thins(delivered[c], delivered[c] \o Hand(c))
      BY FlowTypes, ThinsCut
  <2> QED BY <2>2, <2>3 DEF Flow
<1>6. ASSUME NEW u \in Clients \ {c} PROVE Flow(u)' = Flow(u)
    BY <1>1, <1>2 DEF Flow, Hand
<1> QED BY <1>1, <1>5, <1>6, FlowStays DEF FlowsThin

\* The messages on their way to a receiver move up.
LEMMA FlowsMove ==
    ASSUME ServerInv, ServerInv', NEW c \in Clients,
           Dequeue(c) \/ \E v \in Clients : EnqueueTo(c, v)
    PROVE  FlowsThin
<1>1. \A u \in Clients : Hand(u)' = Hand(u)
    BY HandDequeued, HandEnqueued
<1>2. UNCHANGED <<delivered, broadcasts>>
    BY DEF Dequeue, TakeFromQueue, LoopFrame, EnqueueTo, RoomFrame, NoAnswer
<1> QED BY <1>1, <1>2, FlowStays DEF Flow, FlowsThin

\* A message that is sent is delivered, or left out if the client has gone.
LEMMA FlowsSent ==
    ASSUME ServerInv, ServerInv', NEW c \in Clients, SendDelivery(c) \/ SendFails(c)
    PROVE  FlowsThin
<1>1. /\ Hand(c) # <<>> /\ Hand(c)' = Tail(Hand(c))
      /\ \A u \in Clients \ {c} : Hand(u)' = Hand(u)
      /\ delivered' = IF peer[c] = "up" THEN [delivered EXCEPT ![c] = Append(@, Head(Hand(c)))]
                                         ELSE delivered
      /\ UNCHANGED broadcasts
    BY HandSent
<1>2. ASSUME NEW u \in Clients \ {c} PROVE Thins(Flow(u)', Flow(u))
  <2>1. delivered'[u] = delivered[u]
      BY <1>1
  <2> QED BY <1>1, <2>1, FlowStays DEF Flow
<1> DEFINE d == delivered[c]
           h == Hand(c)
<1>3. d \in Seq(Messages) /\ h \in Seq(Messages) /\ h # <<>> /\ Flow(c) = d \o h
    BY <1>1, FlowTypes DEF Flow
<1>4. ASSUME peer[c] = "up" PROVE Thins(Flow(c)', Flow(c))
  <2>1. Flow(c)' = Append(d, Head(h)) \o Tail(h)
    <3>1. delivered'[c] = Append(d, Head(h))
        BY <1>1, <1>4 DEF ServerInv, TypeOK, MessageTypes
    <3> QED BY <1>1, <3>1 DEF Flow
  <2> HIDE DEF d, h, Messages
  <2>2. Append(d, Head(h)) \o Tail(h) = d \o h
      BY <1>3, HeadMoves
  <2>3. Flow(c)' = Flow(c)
      BY <1>3, <2>1, <2>2
  <2> QED BY <2>3, FlowStays
<1>5. ASSUME peer[c] # "up" PROVE Thins(Flow(c)', Flow(c))
  <2>1. Flow(c)' = d \o Tail(h)
      BY <1>1, <1>5 DEF Flow
  <2> HIDE DEF d, h, Messages
  <2>2. Thins(d \o Tail(h), d \o h)
      BY <1>3, ThinsCut
  <2> QED BY <1>3, <2>1, <2>2
<1> QED BY <1>1, <1>2, <1>4, <1>5 DEF FlowsThin

\* A broadcast puts its message, which is new, at the end of its receivers' flows.
LEMMA FlowsBroadcast ==
    ASSUME ServerInv, ServerInv', NEW c \in Clients, LockRoom(c)
    PROVE  \E m : FlowsGrow(c, m)
<1> DEFINE m == Delivery(c)'
<1>1. /\ UNCHANGED delivered
      /\ broadcasts' = [broadcasts EXCEPT ![c] = @ + 1]
    BY DEF LockRoom, NoAnswer, RoomIsFree
<1>2. broadcasts'[c] = broadcasts[c] + 1
    BY <1>1 DEF ServerInv, TypeOK, MessageTypes
<1>3. m.from = c /\ m.number = broadcasts[c] + 1
    BY <1>2 DEF Delivery
<1>4. /\ m \in Messages
      /\ \A u \in Clients : Hand(u)' = Hand(u) \/ Hand(u)' = Append(Hand(u), m)
    BY HandBroadcast
<1>5. ASSUME NEW u \in Clients PROVE Flow(u)' = Flow(u) \/ Flow(u)' = Append(Flow(u), m)
  <2>1. CASE Hand(u)' = Hand(u)
      BY <1>1, <2>1 DEF Flow
  <2>2. CASE Hand(u)' = Append(Hand(u), m)
    <3> DEFINE d == delivered[u]
               h == Hand(u)
    <3>1. d \in Seq(Messages) /\ h \in Seq(Messages) /\ m \in Messages /\ Flow(u) = d \o h
        BY <1>4, FlowTypes DEF Flow
    <3>2. Flow(u)' = d \o Append(h, m)
        BY <1>1, <2>2 DEF Flow
    <3> HIDE DEF d, h, m, Messages
    <3>3. d \o Append(h, m) = Append(d \o h, m)
        BY <3>1, AppendLast
    <3> QED BY <3>1, <3>2, <3>3
  <2> QED BY <1>4, <2>1, <2>2
<1> QED BY <1>1, <1>3, <1>4, <1>5 DEF FlowsGrow

\* Every step leaves messages out or puts a new one at the end.
LEMMA FlowsStep ==
    ASSUME ServerInv, ServerInv', [Next]_vars
    PROVE  FlowsThin \/ \E c \in Clients : \E m : FlowsGrow(c, m)
<1>1. ASSUME NEW c \in Clients, ClientActs(c) \/ Serve(c)
      PROVE  FlowsThin \/ \E m : FlowsGrow(c, m)
    BY <1>1, FlowsKept, FlowsEmptied, FlowsMove, FlowsSent, FlowsBroadcast DEF Serve
<1>2. CASE UNCHANGED vars
  <2>1. \A u \in Clients : Flow(u)' = Flow(u)
      BY <1>2 DEF vars, Flow, Hand, Pending, Delivery
  <2> QED BY <1>2, <2>1, FlowStays DEF vars, FlowsThin
<1> QED BY <1>1, <1>2 DEF Next, DequeueTimeout, Quiet

FlowsTyped == \A u \in Clients : Flow(u) \in Seq(Messages)

\* Flows are sequences of messages, before and after a step.
LEMMA FlowsTypedBefore == ServerInv => FlowsTyped
BY FlowTypes DEF FlowsTyped

LEMMA FlowsTypedAfter == ServerInv' => FlowsTyped'
BY FlowsTypedBefore, PTL

\* At first all flows are empty.
LEMMA OrderInit == Init => OrderInv
<1> SUFFICES ASSUME Init PROVE OrderInv
    OBVIOUS
<1>1. \A u \in Clients : Flow(u) = <<>>
    BY DEF Init, Flow, Hand, Pending
<1>2. Len(<<>>) = 0
    OBVIOUS
<1> QED BY <1>1, <1>2 DEF OrderInv, FlowsAgree, FlowsNumbered, Agree

\* No step puts messages into different orders.
LEMMA OrderStep == ServerInv /\ ServerInv' /\ OrderInv /\ [Next]_vars => OrderInv'
<1> SUFFICES ASSUME ServerInv, ServerInv', OrderInv, [Next]_vars PROVE OrderInv'
    OBVIOUS
<1>0. /\ \A u \in Clients : Flow(u) \in Seq(Messages) /\ Flow(u)' \in Seq(Messages)
      /\ broadcasts \in [Clients -> Nat]
  <2>1. FlowsTyped /\ FlowsTyped'
      BY FlowsTypedBefore, FlowsTypedAfter
  <2> QED BY <2>1 DEF FlowsTyped, ServerInv, TypeOK, MessageTypes
<1>1. CASE FlowsThin
  <2>1. FlowsAgree'
      BY <1>1, AgreeThinned DEF FlowsThin, FlowsAgree, OrderInv
  <2>2. FlowsNumbered'
    <3>1. ASSUME NEW u \in Clients, NEW i \in 1..Len(Flow(u)')
          PROVE  Flow(u)'[i].number <= broadcasts'[Flow(u)'[i].from]
      <4>1. PICK f : ThinsBy(f, Flow(u)', Flow(u))
          BY <1>1 DEF FlowsThin, Thins
      <4>2. f[i] \in 1..Len(Flow(u)) /\ Flow(u)'[i] = Flow(u)[f[i]]
          BY <4>1 DEF ThinsBy
      <4> QED BY <1>1, <4>2 DEF FlowsThin, OrderInv, FlowsNumbered
    <3> QED BY <3>1 DEF FlowsNumbered
  <2> QED BY <2>1, <2>2 DEF OrderInv
<1>2. ASSUME NEW c \in Clients, NEW m, FlowsGrow(c, m) PROVE OrderInv'
  <2>1. /\ m \in Messages /\ m.from = c /\ m.number = broadcasts[c] + 1
        /\ broadcasts' = [broadcasts EXCEPT ![c] = @ + 1]
        /\ \A u \in Clients : Flow(u)' = Flow(u) \/ Flow(u)' = Append(Flow(u), m)
      BY <1>2 DEF FlowsGrow
  <2>2. ASSUME NEW u \in Clients, NEW i \in 1..Len(Flow(u)) PROVE Flow(u)[i] # m
      BY <1>0, <2>1 DEF OrderInv, FlowsNumbered
  <2>3. FlowsAgree'
    <3>1. ASSUME NEW a \in Clients, NEW b \in Clients PROVE Agree(Flow(a)', Flow(b)')
      <4> DEFINE s == Flow(a)
                 t == Flow(b)
                 s2 == Flow(a)'
                 t2 == Flow(b)'
      <4>1. /\ s \in Seq(Messages) /\ t \in Seq(Messages) /\ m \in Messages /\ Agree(s, t)
            /\ \A i \in 1..Len(s) : s[i] # m
            /\ \A k \in 1..Len(t) : t[k] # m
            /\ s2 = s \/ s2 = Append(s, m)
            /\ t2 = t \/ t2 = Append(t, m)
          BY <1>0, <2>1, <2>2 DEF OrderInv, FlowsAgree
      <4> HIDE DEF s, t, s2, t2, Messages
      <4>2. Agree(s2, t2)
          BY <4>1, AgreeExtended
      <4> QED BY <4>2 DEF s2, t2
    <3> QED BY <3>1 DEF FlowsAgree
  <2>4. FlowsNumbered'
    <3>1. ASSUME NEW u \in Clients, NEW i \in 1..Len(Flow(u)')
          PROVE  Flow(u)'[i].number <= broadcasts'[Flow(u)'[i].from]
      <4> DEFINE s == Flow(u)
                 s2 == Flow(u)'
      <4>1. s \in Seq(Messages) /\ (s2 = s \/ s2 = Append(s, m)) /\ i \in 1..Len(s2) /\ Len(s) \in Nat
            /\ \A k \in 1..Len(s) : s[k] \in Messages /\ s[k].number <= broadcasts[s[k].from]
          BY <1>0, <2>1, <3>1, LenProperties, ElementOfSeq DEF OrderInv, FlowsNumbered
      <4> HIDE DEF s, s2
      <4>2. s2[i] = m \/ (i \in 1..Len(s) /\ s2[i] = s[i])
          BY <2>1, <4>1
      <4>3. \A d \in Clients : broadcasts[d] <= broadcasts'[d]
          BY <1>0, <2>1
      <4>4. CASE s2[i] = m
          BY <1>0, <2>1, <4>4 DEF s2
      <4>5. CASE i \in 1..Len(s) /\ s2[i] = s[i]
        <5> DEFINE k == s[i]
        <5>1. k \in Messages /\ k.number <= broadcasts[k.from]
            BY <4>1, <4>5
        <5>2. k.from \in Clients /\ k.number \in Nat
            BY <5>1 DEF Messages
        <5> HIDE DEF k
        <5>3. k.number <= broadcasts'[k.from]
            BY <1>0, <2>1, <4>3, <5>1, <5>2
        <5> QED BY <4>5, <5>3 DEF s2, k
      <4> QED BY <4>2, <4>4, <4>5
    <3> QED BY <3>1 DEF FlowsNumbered
  <2> QED BY <2>3, <2>4 DEF OrderInv
<1> QED BY <1>1, <1>2, FlowsStep

\* What a receiver has got is the beginning of its flow.
LEMMA ReceivedFirst ==
    ASSUME ServerInv, NEW u \in Clients
    PROVE  Thins(Received(u), Flow(u))
<1> DEFINE d == delivered[u]
           h == msg[u]
           q == mqueue[u]
           p == Pending(u)
<1>1. /\ d \in Seq(Messages) /\ h \in Seq(Messages) /\ q \in Seq(Messages) /\ p \in Seq(Messages)
      /\ Received(u) = d \o h \o q /\ Flow(u) = d \o (h \o q \o p)
    BY FlowTypes DEF Received, Flow, Hand
<1> HIDE DEF d, h, q, p, Messages
<1>2. d \o (h \o q \o p) = (d \o h \o q) \o p /\ d \o h \o q \in Seq(Messages)
    BY <1>1, Regrouped
<1> QED BY <1>1, <1>2, ThinsCut

\* Any two receivers get the messages they both get in the same order, for any
\* number of senders, receivers, rooms and requests.
THEOREM MessagesInOneOrder == Spec => []TotalOrder
<1>1. ServerInv /\ OrderInv => TotalOrder
  <2> SUFFICES ASSUME ServerInv, OrderInv PROVE TotalOrder
      OBVIOUS
  <2>1. \A c, d \in Clients : Agree(Received(c), Received(d))
      BY ReceivedFirst, AgreeThinned DEF OrderInv, FlowsAgree
  <2> QED BY <2>1 DEF Agree, TotalOrder
<1> QED
    BY OrderInit, OrderStep, ServerInvariant, <1>1, PTL DEF Spec
================================================================================
