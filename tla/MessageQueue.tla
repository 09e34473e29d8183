----------------------------- MODULE MessageQueue ------------------------------
(***************************************************************************)
(* csf_assign05/message_queue.cpp: a deque protected by a mutex, with a     *)
(* semaphore that counts the messages available.  Any thread may call       *)
(* enqueue; only the worker of the receiver that owns the queue calls       *)
(* dequeue, which waits at most one second for the semaphore.               *)
(*                                                                         *)
(* Each action is one call into pthreads or the deque, so that every        *)
(* interleaving of the mutex, the semaphore and the deque is a behaviour.   *)
(***************************************************************************)
EXTENDS Naturals, Sequences

CONSTANTS
    Producers,    \* threads that call enqueue
    Consumer,     \* the one thread that calls dequeue
    Free,         \* the mutex's owner when it is unlocked
    Null,         \* dequeue's nullptr
    MaxEnqueues   \* bound: how many messages each producer enqueues

ASSUME QueueAssumption ==
    /\ Consumer \notin Producers
    /\ Free \notin Producers \cup {Consumer}
    /\ MaxEnqueues \in Nat

\* A message is identified by its producer and its number there.
Messages == Producers \X (1..MaxEnqueues)

ASSUME NullAssumption == Null \notin Messages

VARIABLES
    m_lock,       \* owner of the mutex
    m_avail,      \* value of the semaphore
    m_messages,   \* the deque
    pc,           \* where each thread is
    sent,         \* how many messages each producer has created
    ret           \* what the dequeue in progress will return, <<>> when undecided

vars == <<m_lock, m_avail, m_messages, pc, sent, ret>>

Threads == Producers \cup {Consumer}

Init ==
    /\ m_lock = Free
    /\ m_avail = 0
    /\ m_messages = <<>>
    /\ pc = [t \in Threads |-> IF t = Consumer THEN "wait" ELSE "idle"]
    /\ sent = [p \in Producers |-> 0]
    /\ ret = <<>>

Goto(t, label) == pc' = [pc EXCEPT ![t] = label]

--------------------------------------------------------------------------------
(* enqueue *)

\* Guard's constructor waits for the mutex.  Mutant: there is no Guard.
NoGuard == TRUE
IsFree == m_lock = Free

\* The caller has built its next message; Guard's constructor takes the lock.
EnqueueLock(p) ==
    /\ pc[p] = "idle"
    /\ sent[p] < MaxEnqueues
    /\ IsFree
    /\ m_lock' = p
    /\ sent' = [sent EXCEPT ![p] = @ + 1]
    /\ Goto(p, "push")
    /\ UNCHANGED <<m_avail, m_messages, ret>>

Push(p, messages) ==
    /\ pc[p] = "push"
    /\ m_messages' = messages
    /\ Goto(p, "post")
    /\ UNCHANGED <<m_lock, m_avail, sent, ret>>

\* Mutant: push_front.
PushFront(p) == Push(p, <<<<p, sent[p]>>>> \o m_messages)
PushBack(p) == Push(p, Append(m_messages, <<p, sent[p]>>))

Post(p, tokens) ==
    /\ pc[p] = "post"
    /\ m_avail' = m_avail + tokens
    /\ Goto(p, "unlock")
    /\ UNCHANGED <<m_lock, m_messages, sent, ret>>

\* Mutant: no sem_post.
PostNothing(p) == Post(p, 0)
SemPost(p) == Post(p, 1)

\* Guard's destructor.
EnqueueUnlock(p) ==
    /\ pc[p] = "unlock"
    /\ m_lock' = Free
    /\ Goto(p, "idle")
    /\ UNCHANGED <<m_avail, m_messages, sent, ret>>

Enqueue(p) == EnqueueLock(p) \/ PushBack(p) \/ SemPost(p) \/ EnqueueUnlock(p)

--------------------------------------------------------------------------------
(* dequeue *)

\* sem_timedwait returns.
WaitReturns(tokens, answer, label) ==
    /\ pc[Consumer] = "wait"
    /\ m_avail' = m_avail - tokens
    /\ ret' = answer
    /\ Goto(Consumer, label)
    /\ UNCHANGED <<m_lock, m_messages, sent>>

\* A token is consumed before the deque is looked at.
SemTake == m_avail > 0 /\ WaitReturns(1, <<>>, "lock")

\* Mutant: the timeout is not noticed.
TimeoutIgnored == m_avail = 0 /\ WaitReturns(0, <<>>, "lock")

\* sem_timedwait gives up.  The second ends while the semaphore is zero, but a
\* post may still come in before the call is back, hence a step of its own.
SemTimeout == m_avail = 0 /\ WaitReturns(0, <<Null>>, "return")

DequeueLock ==
    /\ pc[Consumer] = "lock"
    /\ IsFree
    /\ m_lock' = Consumer
    /\ Goto(Consumer, "pop")
    /\ UNCHANGED <<m_avail, m_messages, sent, ret>>

Pop(answer, rest) ==
    /\ pc[Consumer] = "pop"
    /\ ret' = answer
    /\ m_messages' = rest
    /\ Goto(Consumer, "unlock")
    /\ UNCHANGED <<m_lock, m_avail, sent>>

\* Mutant: front() without pop_front().
ReadFront == m_messages # <<>> /\ Pop(<<Head(m_messages)>>, m_messages)

\* The early return on an empty deque, or front() with pop_front().
PopFront ==
    IF m_messages = <<>> THEN Pop(<<Null>>, <<>>)
                         ELSE Pop(<<Head(m_messages)>>, Tail(m_messages))

DequeueUnlock ==
    /\ pc[Consumer] = "unlock"
    /\ m_lock' = Free
    /\ Goto(Consumer, "return")
    /\ UNCHANGED <<m_avail, m_messages, sent, ret>>

\* The caller deals with the answer and calls dequeue again.
Return ==
    /\ pc[Consumer] = "return"
    /\ ret' = <<>>
    /\ Goto(Consumer, "wait")
    /\ UNCHANGED <<m_lock, m_avail, m_messages, sent>>

Dequeue == SemTake \/ SemTimeout \/ DequeueLock \/ PopFront \/ DequeueUnlock \/ Return

--------------------------------------------------------------------------------
Next == (\E p \in Producers : Enqueue(p)) \/ Dequeue

Spec == Init /\ [][Next]_vars

\* A thread inside enqueue or dequeue goes on.  Nobody has to call enqueue, so
\* starting one is not fair; each step after it is.
Fairness ==
    /\ \A p \in Producers : WF_vars(PushBack(p) \/ SemPost(p) \/ EnqueueUnlock(p))
    /\ WF_vars(Dequeue)

FairSpec == Spec /\ Fairness

--------------------------------------------------------------------------------
(* Correctness *)

\* The type of every variable.
TypeOK ==
    /\ m_lock \in Threads \cup {Free}
    /\ m_avail \in Nat
    /\ m_messages \in Seq(Messages)
    /\ pc \in [Threads -> {"idle", "push", "post", "unlock", "wait", "lock", "pop", "return"}]
    /\ sent \in [Producers -> 0..MaxEnqueues]
    /\ Len(ret) <= 1
    /\ ret \in Seq(Messages \cup {Null})

\* The message pushed whose token its producer has not posted yet.
Unposted == IF \E p \in Producers : pc[p] = "post" THEN 1 ELSE 0

\* The token the consumer has taken and not yet used to pop.
Claimed == IF pc[Consumer] \in {"lock", "pop"} THEN 1 ELSE 0

\* Every message in the deque is counted exactly once: by the semaphore, by the
\* token the consumer holds, or by the producer that is about to post.  A post
\* lost or made twice, or a wait whose failure is ignored, breaks the balance.
TokenAccounting == Len(m_messages) = m_avail + Claimed + Unposted

\* dequeue's second "return nullptr", for an empty deque after a successful
\* wait, is never reached: a message is there for whoever holds a token.
NeverPopsEmpty == pc[Consumer] = "pop" => m_messages # <<>>

\* A thread between Guard's constructor and its destructor.
Inside(t) == pc[t] \in {"push", "post", "unlock", "pop"}

\* The deque is touched by one thread at a time: push_back, empty, front and
\* pop_front never overlap, whatever the callers do.
DequeAccessExclusive ==
    \A s, t \in Threads : Inside(s) /\ Inside(t) => s = t

\* The channel this queue implements.  Its queue holds the messages posted and
\* not claimed: without the one a claimed token stands for at the front, and
\* without the one pushed but not posted at the back.
Visible == SubSeq(m_messages, 1 + Claimed, Len(m_messages) - Unposted)

\* A claim settles the answer before the consumer has the mutex.
Answer == IF Claimed = 1 THEN <<Head(m_messages)>> ELSE ret

Channel == INSTANCE FifoChannel WITH q <- Visible, answer <- Answer

\* The queue is a FIFO channel: no message lost, duplicated or overtaken, and
\* dequeue answers nullptr only if nothing was available during the call.
ImplementsChannel == Channel!Spec

\* What makes the properties above inductive: the owner of the mutex is exactly
\* the thread inside, ...
MutexHeldInside == \A t \in Threads : Inside(t) <=> m_lock = t

\* ... each thread runs its own function, ...
ThreadRoles ==
    /\ \A p \in Producers : pc[p] \in {"idle", "push", "post", "unlock"}
    /\ pc[Consumer] \in {"wait", "lock", "pop", "unlock", "return"}
    /\ \A p \in Producers : pc[p] = "push" => sent[p] >= 1

\* ... and dequeue has an answer from the moment it pops or gives up.
AnswerSettled ==
    /\ pc[Consumer] \in {"wait", "lock", "pop"} => ret = <<>>
    /\ pc[Consumer] \in {"unlock", "return"} => \E x \in Messages \cup {Null} : ret = <<x>>

\* The inductive invariant of the queue: types, roles, mutex, answer and tokens.
QueueInv ==
    /\ TypeOK
    /\ ThreadRoles
    /\ MutexHeldInside
    /\ AnswerSettled
    /\ TokenAccounting

\* A message that is posted is taken from the deque: the consumer, which keeps
\* calling dequeue, never sleeps through it.
PostedIsTaken ==
    \A p \in Producers : \A n \in 1..MaxEnqueues :
        (pc[p] = "push" /\ sent[p] = n) ~> (ret = <<<<p, n>>>>)
================================================================================
