--------------------------- MODULE MC_ChatSession ---------------------------
EXTENDS ChatSession

\* A tag, its colon and the newline; a delivery names room and sender besides.
SmallOverhead == [t \in Tags |-> IF t = "delivery" THEN 5 ELSE 3]
=============================================================================
