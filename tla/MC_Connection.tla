----------------------------- MODULE MC_Connection -----------------------------
EXTENDS Connection, TLC

CONSTANTS c1, c2

\* A message that fits the buffer and one that is read in two pieces, the second of
\* which has a colon of its own.
Messages == c1 :> {2, 7} @@ c2 :> {2}
TheirColons == c1 :> {1, 3, 6} @@ c2 :> {1}
================================================================================
