------------------------------ MODULE FifoChannel ------------------------------
(***************************************************************************)
(* What csf_assign05's MessageQueue promises its users: an unbounded FIFO   *)
(* channel with many producers and one consumer.  The consumer's call ends  *)
(* either with the oldest message of the channel or with Null, and it may   *)
(* end with Null only if the channel was empty at some moment of the call.  *)
(***************************************************************************)
EXTENDS Sequences

CONSTANTS
    Messages,   \* what may be put into the channel
    Null        \* the answer of a call that timed out

VARIABLES
    q,          \* messages put and not yet claimed by the consumer
    answer      \* the consumer's call: <<>> undecided, <<x>> decided on x

vars == <<q, answer>>

Init == q = <<>> /\ answer = <<>>

Put(m) ==
    /\ q' = Append(q, m)
    /\ UNCHANGED answer

\* The call claims the oldest message.
Take ==
    /\ answer = <<>>
    /\ q # <<>>
    /\ answer' = <<Head(q)>>
    /\ q' = Tail(q)

\* The call gives up, which it may do only while nothing is there to take.
TimeOut ==
    /\ answer = <<>>
    /\ q = <<>>
    /\ answer' = <<Null>>
    /\ UNCHANGED q

\* The call returns its answer to the consumer.
Return ==
    /\ answer # <<>>
    /\ answer' = <<>>
    /\ UNCHANGED q

Next == (\E m \in Messages : Put(m)) \/ Take \/ TimeOut \/ Return

Spec == Init /\ [][Next]_vars
================================================================================
