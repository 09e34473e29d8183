----------------------------- MODULE RoomBroadcast -----------------------------
(***************************************************************************)
(* What csf_assign05's server promises the receivers of a chat room.  A     *)
(* broadcast reaches every member of the room at one instant, so all        *)
(* members see the room's messages in one order, without gaps, from the     *)
(* moment they join; and a receiver that is still connected gets everything *)
(* that was put into its inbox.                                            *)
(***************************************************************************)
EXTENDS Sequences

CONSTANTS
    Users,      \* receivers
    Rooms,      \* room names
    Messages    \* messages a room may carry

VARIABLES
    member,     \* member[r] = users that are in room r
    inbox,      \* inbox[u] = messages on their way to u
    seen,       \* seen[u] = messages delivered to u
    connected   \* users whose client is still there

vars == <<member, inbox, seen, connected>>

Init ==
    /\ member = [r \in Rooms |-> {}]
    /\ inbox = [u \in Users |-> <<>>]
    /\ seen = [u \in Users |-> <<>>]
    /\ connected = {}

Connect(u) ==
    /\ connected' = connected \cup {u}
    /\ UNCHANGED <<member, inbox, seen>>

Disconnect(u) ==
    /\ connected' = connected \ {u}
    /\ UNCHANGED <<member, inbox, seen>>

Join(u, r) ==
    /\ \A s \in Rooms : u \notin member[s]
    /\ member' = [member EXCEPT ![r] = @ \cup {u}]
    /\ UNCHANGED <<inbox, seen, connected>>

\* Only a receiver that has gone is removed; what it did not get is dropped.
Remove(u, r) ==
    /\ u \in member[r]
    /\ u \notin connected
    /\ member' = [member EXCEPT ![r] = @ \ {u}]
    /\ inbox' = [inbox EXCEPT ![u] = <<>>]
    /\ UNCHANGED <<seen, connected>>

Broadcast(r, m) ==
    /\ inbox' = [u \in Users |-> IF u \in member[r] THEN Append(inbox[u], m) ELSE inbox[u]]
    /\ UNCHANGED <<member, seen, connected>>

Deliver(u) ==
    /\ inbox[u] # <<>>
    /\ seen' = [seen EXCEPT ![u] = Append(@, Head(inbox[u]))]
    /\ inbox' = [inbox EXCEPT ![u] = Tail(@)]
    /\ UNCHANGED <<member, connected>>

\* A message may be lost on the way only to a receiver that has gone.
Lose(u) ==
    /\ u \notin connected
    /\ inbox[u] # <<>>
    /\ inbox' = [inbox EXCEPT ![u] = Tail(@)]
    /\ UNCHANGED <<member, seen, connected>>

Next ==
    \/ \E u \in Users : Connect(u) \/ Disconnect(u) \/ Deliver(u) \/ Lose(u)
    \/ \E u \in Users, r \in Rooms : Join(u, r) \/ Remove(u, r)
    \/ \E r \in Rooms, m \in Messages : Broadcast(r, m)

Spec == Init /\ [][Next]_vars
================================================================================
