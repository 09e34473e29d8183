-------------------------- MODULE ReplacementQueue --------------------------
(***************************************************************************)
(* What the replacement policy of the cache simulator promises: the blocks *)
(* of a set queue up for eviction.  A block joins at the back, the block   *)
(* at the front leaves when a block joins a full set, and under LRU (not   *)
(* under FIFO) a hit sends the block that was hit to the back again.       *)
(* There are no timestamps and no places here: a queue is an order.        *)
(***************************************************************************)
EXTENDS Naturals, FiniteSets

CONSTANT Tags       \* tags of memory blocks

VARIABLES capacity, \* blocks a set can hold
          lru,      \* whether a hit renews the block's turn
          resident, \* resident[s]: the blocks of set s
          before,   \* before[s]: pairs of them, the first to be evicted first
          latest    \* the block used last, so that no use goes unnoticed

vars == <<capacity, lru, resident, before, latest>>

Init == /\ capacity \in Nat
        /\ lru \in BOOLEAN
        /\ resident = [s \in DOMAIN resident |-> {}]
        /\ before = [s \in DOMAIN resident |-> {}]
        /\ latest = <<>>

\* Block t stands behind the others, which keep their order.
Joins(s, others, t) ==
    /\ resident' = [resident EXCEPT ![s] = others \union {t}]
    /\ before' = [before EXCEPT ![s] = (@ \intersect (others \X others))
                                       \union (others \X {t})]

\* A block that is present is read or written.
Hit(s, t) == /\ t \in resident[s]
             /\ IF lru THEN Joins(s, resident[s] \ {t}, t)
                       ELSE UNCHANGED <<resident, before>>
             /\ latest' = <<s, t>>
             /\ UNCHANGED <<capacity, lru>>

\* The block that stands before all others.
First(s) == {t \in resident[s] :
                 \A u \in resident[s] \ {t} : <<t, u>> \in before[s]}

\* Who makes room for another block.
Leaving(s) == IF Cardinality(resident[s]) < capacity THEN {} ELSE First(s)

\* A block that is absent is brought in.
Fetch(s, t) == /\ t \notin resident[s]
               /\ Joins(s, resident[s] \ Leaving(s), t)
               /\ latest' = <<s, t>>
               /\ UNCHANGED <<capacity, lru>>

Next == \E s \in DOMAIN resident, t \in Tags : Hit(s, t) \/ Fetch(s, t)

Spec == Init /\ [][Next]_vars
=============================================================================
