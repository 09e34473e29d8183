----------------------------- MODULE MC_ChatServer -----------------------------
(* Instances of ChatServer for TLC: who may log in as what. *)
EXTENDS ChatServer, TLC

CONSTANTS Senders, Receivers

AnyLogin == [c \in Clients |-> {"slogin", "rlogin", "other"}]

FixedLogin == [c \in Clients |-> IF c \in Senders THEN {"slogin"} ELSE {"rlogin"}]

\* Clients that may do the same things may be swapped, and so may addresses.
Alike(S) == Permutations(S \cap Unreliable) \cup Permutations(S \ Unreliable)

Interchangeable == Alike(Senders) \cup Alike(Receivers) \cup Permutations(RoomObjects)
================================================================================
