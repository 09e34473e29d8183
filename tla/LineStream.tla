------------------------------ MODULE LineStream ------------------------------
(***************************************************************************)
(* What Connection::receive promises of a connection, whatever happens in   *)
(* rio_writen, in the network and in rio_readlineb: it returns the bytes    *)
(* that were sent, in their order and without a gap, one line at a time or, *)
(* of a line that is too long, one piece of the greatest length.  Only what *)
(* a lost or closed connection leaves may be neither.                       *)
(*                                                                         *)
(* A byte is its number in what the client sends.                           *)
(***************************************************************************)
EXTENDS Naturals, Sequences

CONSTANTS
    Clients,
    Newlines,  \* the bytes of each client that are newlines
    MaxPiece   \* the most that receive returns at once

VARIABLES
    got,       \* what receive has returned, ...
    ends,      \* ... and how much it had returned after each call
    unread,    \* bytes sent and not yet returned
    closed     \* nothing more is sent

vars == <<got, ends, unread, closed>>

Init ==
    /\ got = [c \in Clients |-> <<>>]
    /\ ends = [c \in Clients |-> <<>>]
    /\ unread = [c \in Clients |-> <<>>]
    /\ closed = [c \in Clients |-> FALSE]

\* The bytes after the m-th up to the n-th.
Count(m, n) == [k \in 1..n - m |-> m + k]

Put(c) ==
    /\ ~closed[c]
    /\ LET sent == Len(got[c]) + Len(unread[c])
       IN  \E n \in UNION {sent + 1 .. newline : newline \in Newlines[c]} :
              unread' = [unread EXCEPT ![c] = @ \o Count(sent, n)]
    /\ UNCHANGED <<got, ends, closed>>

\* The first k unread bytes end a piece, and none before them does.
EndsPiece(c, k) ==
    /\ unread[c][k] \in Newlines[c] \/ k = MaxPiece
    /\ k <= MaxPiece /\ \A j \in 1..k - 1 : unread[c][j] \notin Newlines[c]

\* All that is unread is less than a piece, and nothing follows.
IsRest(c, k) ==
    /\ closed[c]
    /\ k = Len(unread[c]) /\ \A j \in 1..k : ~EndsPiece(c, j)

Take(c) ==
    /\ \E k \in 1..Len(unread[c]) :
          /\ EndsPiece(c, k) \/ IsRest(c, k)
          /\ got' = [got EXCEPT ![c] = @ \o SubSeq(unread[c], 1, k)]
          /\ unread' = [unread EXCEPT ![c] = SubSeq(@, k + 1, Len(@))]
    /\ ends' = [ends EXCEPT ![c] = Append(@, Len(got'[c]))]
    /\ UNCHANGED closed

\* The connection ends; what is on its way may be lost, from any byte on.
Close(c) ==
    /\ closed' = [closed EXCEPT ![c] = TRUE]
    /\ \E k \in 0..Len(unread[c]) : unread' = [unread EXCEPT ![c] = SubSeq(@, 1, k)]
    /\ UNCHANGED <<got, ends>>

\* Connections end together if the receivers' process does.
CloseAll ==
    /\ \E gone \in SUBSET Clients : closed' = [c \in Clients |-> closed[c] \/ c \in gone]
    /\ UNCHANGED <<got, ends, unread>>

Next == CloseAll \/ \E c \in Clients : Put(c) \/ Take(c) \/ Close(c)

Spec == Init /\ [][Next]_vars
===============================================================================
