-------------------------- MODULE MessageQueue_proofs --------------------------
(***************************************************************************)
(* Proofs about MessageQueue, for any number of producers and messages.     *)
(***************************************************************************)
EXTENDS MessageQueue, SequenceTheorems, TLAPS

USE DEF Threads

\* The queue starts empty, unlocked and with no token: the invariant holds.
LEMMA InvInit == Init => QueueInv
<1> SUFFICES ASSUME Init PROVE QueueInv
    OBVIOUS
<1>1. TypeOK
    BY QueueAssumption, EmptySeq DEF Init, TypeOK
<1>2. ThreadRoles /\ MutexHeldInside /\ AnswerSettled
    BY QueueAssumption DEF Init, ThreadRoles, MutexHeldInside, AnswerSettled, Inside
<1>3. TokenAccounting
    BY QueueAssumption DEF Init, TokenAccounting, Claimed, Unposted
<1> QED
    BY <1>1, <1>2, <1>3 DEF QueueInv

\* Every step of enqueue and dequeue keeps the variables in their types.
LEMMA TypeStep == QueueInv /\ [Next]_vars => TypeOK'
<1> SUFFICES ASSUME QueueInv, [Next]_vars PROVE TypeOK'
    OBVIOUS
<1> USE QueueAssumption DEF QueueInv, TypeOK, Goto
<1>1. ASSUME NEW p \in Producers, EnqueueLock(p) PROVE TypeOK'
    BY <1>1 DEF EnqueueLock, IsFree
<1>2. ASSUME NEW p \in Producers, PushBack(p) PROVE TypeOK'
  <2>1. <<p, sent[p]>> \in Messages
    BY <1>2 DEF PushBack, Messages, MutexHeldInside, ThreadRoles, Push
  <2> QED BY <1>2, <2>1, AppendProperties DEF PushBack, Push
<1>3. ASSUME NEW p \in Producers, SemPost(p) PROVE TypeOK'
    BY <1>3 DEF SemPost, Post
<1>4. ASSUME NEW p \in Producers, EnqueueUnlock(p) PROVE TypeOK'
    BY <1>4 DEF EnqueueUnlock
<1>5. CASE SemTake
    BY <1>5 DEF SemTake, WaitReturns
<1>6. CASE SemTimeout
    BY <1>6 DEF SemTimeout, WaitReturns
<1>7. CASE DequeueLock
    BY <1>7 DEF DequeueLock, IsFree
<1>8. CASE PopFront
  <2>1. m_messages # <<>> => Head(m_messages) \in Messages /\ Tail(m_messages) \in Seq(Messages)
    BY HeadTailProperties
  <2>2. \E x \in Messages \cup {Null} : ret' = <<x>>
    BY <1>8, <2>1 DEF PopFront, Pop
  <2>3. ret' \in Seq(Messages \cup {Null}) /\ Len(ret') <= 1
    BY <2>2
  <2>4. m_messages' \in Seq(Messages)
    BY <1>8, <2>1 DEF PopFront, Pop
  <2> QED BY <1>8, <2>3, <2>4 DEF PopFront, Pop
<1>9. CASE DequeueUnlock
    BY <1>9 DEF DequeueUnlock
<1>10. CASE Return
    BY <1>10 DEF Return
<1>11. CASE UNCHANGED vars
    BY <1>11 DEF vars
<1> QED
    BY <1>1, <1>2, <1>3, <1>4, <1>5, <1>6, <1>7, <1>8, <1>9, <1>10, <1>11
    DEF Next, Enqueue, Dequeue

\* Guard keeps the mutex with the thread inside, and each step moves its own
\* thread along its function, whatever the others do.
LEMMA ControlStep ==
    QueueInv /\ [Next]_vars => (ThreadRoles /\ MutexHeldInside /\ AnswerSettled)'
<1> SUFFICES ASSUME QueueInv, [Next]_vars
             PROVE  (ThreadRoles /\ MutexHeldInside /\ AnswerSettled)'
    OBVIOUS
<1> USE QueueAssumption DEF QueueInv, TypeOK, Goto, ThreadRoles, MutexHeldInside,
                            AnswerSettled, Inside
<1>1. ASSUME NEW p \in Producers, EnqueueLock(p)
      PROVE (ThreadRoles /\ MutexHeldInside /\ AnswerSettled)'
    BY <1>1 DEF EnqueueLock, IsFree
<1>2. ASSUME NEW p \in Producers, PushBack(p)
      PROVE (ThreadRoles /\ MutexHeldInside /\ AnswerSettled)'
    BY <1>2 DEF PushBack, Push
<1>3. ASSUME NEW p \in Producers, SemPost(p)
      PROVE (ThreadRoles /\ MutexHeldInside /\ AnswerSettled)'
    BY <1>3 DEF SemPost, Post
<1>4. ASSUME NEW p \in Producers, EnqueueUnlock(p)
      PROVE (ThreadRoles /\ MutexHeldInside /\ AnswerSettled)'
    BY <1>4 DEF EnqueueUnlock
<1>5. CASE SemTake
    BY <1>5 DEF SemTake, WaitReturns
<1>6. CASE SemTimeout
    BY <1>6 DEF SemTimeout, WaitReturns
<1>7. CASE DequeueLock
    BY <1>7 DEF DequeueLock, IsFree
<1>8. CASE PopFront
  <2>1. m_messages # <<>> => Head(m_messages) \in Messages
    BY HeadTailProperties
  <2>2. \E x \in Messages \cup {Null} : ret' = <<x>>
    BY <1>8, <2>1 DEF PopFront, Pop
  <2> QED BY <1>8, <2>2 DEF PopFront, Pop
<1>9. CASE DequeueUnlock
    BY <1>9 DEF DequeueUnlock
<1>10. CASE Return
    BY <1>10 DEF Return
<1>11. CASE UNCHANGED vars
    BY <1>11 DEF vars
<1> QED
    BY <1>1, <1>2, <1>3, <1>4, <1>5, <1>6, <1>7, <1>8, <1>9, <1>10, <1>11
    DEF Next, Enqueue, Dequeue

\* Under the invariant only the owner of the mutex can be between push and post.
LEMMA UnpostedByOwner ==
    ASSUME MutexHeldInside
    PROVE  \A p \in Producers : pc[p] \in {"push", "post", "unlock"} =>
               Unposted = IF pc[p] = "post" THEN 1 ELSE 0
BY DEF MutexHeldInside, Inside, Unposted

\* Each push is balanced by a post, each taken token by a pop.
LEMMA TokenStep == QueueInv /\ [Next]_vars => TokenAccounting'
<1> SUFFICES ASSUME QueueInv, [Next]_vars PROVE TokenAccounting'
    OBVIOUS
<1>0. MutexHeldInside' /\ TypeOK' /\ ThreadRoles'
    BY ControlStep, TypeStep
<1> USE <1>0, QueueAssumption
    DEF QueueInv, TypeOK, Goto, ThreadRoles, TokenAccounting, Claimed
<1>1. Len(m_messages) \in Nat
    BY LenProperties
<1>2. ASSUME NEW p \in Producers, EnqueueLock(p) PROVE TokenAccounting'
    BY <1>2 DEF EnqueueLock, Unposted, IsFree
<1>3. ASSUME NEW p \in Producers, PushBack(p) PROVE TokenAccounting'
  <2>1. Unposted = 0 /\ Unposted' = 1
    BY <1>3 DEF PushBack, Unposted, MutexHeldInside, Inside, Push
  <2>2. <<p, sent[p]>> \in Messages
    BY <1>3 DEF PushBack, Messages, Push
  <2>3. Len(m_messages') = Len(m_messages) + 1
    BY <1>3, <2>2, AppendProperties DEF PushBack, Push
  <2> QED BY <1>1, <1>3, <2>1, <2>3 DEF PushBack, Push
<1>4. ASSUME NEW p \in Producers, SemPost(p) PROVE TokenAccounting'
  <2>1. Unposted = 1 /\ Unposted' = 0
    BY <1>4 DEF SemPost, Unposted, MutexHeldInside, Inside, Post
  <2> QED BY <1>1, <1>4, <2>1 DEF SemPost, Post
<1>5. ASSUME NEW p \in Producers, EnqueueUnlock(p) PROVE TokenAccounting'
    BY <1>5 DEF EnqueueUnlock, Unposted
<1>6. Dequeue => Unposted' = Unposted
    BY DEF Dequeue, SemTake, SemTimeout, DequeueLock, PopFront, DequeueUnlock, Return, Unposted, WaitReturns, IsFree, Pop
<1>7. Unposted \in Nat
    BY DEF Unposted
<1>8. CASE SemTake
    BY <1>1, <1>6, <1>7, <1>8 DEF SemTake, Dequeue, WaitReturns
<1>9. CASE SemTimeout
    BY <1>6, <1>9 DEF SemTimeout, Dequeue, WaitReturns
<1>10. CASE DequeueLock
    BY <1>6, <1>10 DEF DequeueLock, Dequeue, IsFree
<1>11. CASE PopFront
  <2>1. m_messages # <<>>
    BY <1>1, <1>7, <1>11, EmptySeq DEF PopFront, Pop
  <2>2. Len(m_messages') = Len(m_messages) - 1
    BY <1>11, <2>1, HeadTailProperties DEF PopFront, Pop
  <2> QED BY <1>1, <1>6, <1>7, <1>11, <2>2 DEF PopFront, Dequeue, Pop
<1>12. CASE DequeueUnlock
    BY <1>6, <1>12 DEF DequeueUnlock, Dequeue
<1>13. CASE Return
    BY <1>6, <1>13 DEF Return, Dequeue
<1>14. CASE UNCHANGED vars
    BY <1>14 DEF vars, Unposted
<1> QED
    BY <1>2, <1>3, <1>4, <1>5, <1>8, <1>9, <1>10, <1>11, <1>12, <1>13, <1>14
    DEF Next, Enqueue, Dequeue

\* The queue's inductive invariant holds in every reachable state, for any
\* number of threads in enqueue: mutex, tokens and messages stay in balance.
THEOREM QueueInvariant == Spec => []QueueInv
<1>1. QueueInv /\ [Next]_vars => QueueInv'
    BY TypeStep, ControlStep, TokenStep DEF QueueInv
<1> QED
    BY InvInit, <1>1, PTL DEF Spec

\* The semaphore counts the deque's messages exactly, up to the thread that is
\* between the deque and the semaphore.
THEOREM TokensMatchMessages == Spec => []TokenAccounting
<1>1. QueueInv => TokenAccounting
    BY DEF QueueInv
<1> QED
    BY QueueInvariant, <1>1, PTL

\* The empty-deque return of dequeue is dead code.
THEOREM PopsFindAMessage == Spec => []NeverPopsEmpty
<1>1. QueueInv => NeverPopsEmpty
  <2> SUFFICES ASSUME QueueInv, pc[Consumer] = "pop" PROVE m_messages # <<>>
    BY DEF NeverPopsEmpty
  <2>1. Len(m_messages) = m_avail + 1 + Unposted
    BY DEF QueueInv, TokenAccounting, Claimed
  <2>2. m_avail \in Nat /\ Unposted \in Nat
    BY DEF QueueInv, TypeOK, Unposted
  <2> QED BY <2>1, <2>2, EmptySeq
<1> QED
    BY QueueInvariant, <1>1, PTL

\* No two threads touch the deque at once.
THEOREM DequeRaceFree == Spec => []DequeAccessExclusive
<1>1. QueueInv => DequeAccessExclusive
    BY DEF QueueInv, MutexHeldInside, DequeAccessExclusive
<1> QED
    BY QueueInvariant, <1>1, PTL

--------------------------------------------------------------------------------
(* The queue implements the channel. *)

\* The visible part of the deque, its length and its messages.
VisibleFacts ==
    /\ Visible \in Seq(Messages)
    /\ Len(Visible) = m_avail
    /\ \A i \in 1..m_avail : Visible[i] = m_messages[i + Claimed]
    /\ m_avail \in Nat /\ Claimed \in {0, 1} /\ Unposted \in {0, 1}
    /\ m_messages \in Seq(Messages)
    /\ Len(m_messages) = m_avail + Claimed + Unposted

\* The semaphore's value is the length of the visible part of the deque.
LEMMA VisibleProperties == QueueInv => VisibleFacts
<1> SUFFICES ASSUME QueueInv PROVE VisibleFacts
    OBVIOUS
<1>1. /\ m_avail \in Nat /\ Claimed \in {0, 1} /\ Unposted \in {0, 1}
      /\ m_messages \in Seq(Messages)
      /\ Len(m_messages) = m_avail + Claimed + Unposted
    BY DEF QueueInv, TypeOK, Claimed, Unposted, TokenAccounting
<1> DEFINE first == 1 + Claimed
           last == Len(m_messages) - Unposted
<1>2. first \in Int /\ last \in Int /\ last = m_avail + Claimed
    BY <1>1
<1>3. \A i \in first..last : m_messages[i] \in Messages
    BY <1>1, <1>2, ElementOfSeq
<1>4. Visible = SubSeq(m_messages, first, last)
    BY DEF Visible
<1> HIDE DEF first, last
<1>5. /\ Visible \in Seq(Messages)
      /\ Len(Visible) = IF first <= last THEN last - first + 1 ELSE 0
      /\ \A i \in 1..(last - first + 1) : Visible[i] = m_messages[first + i - 1]
    BY <1>2, <1>3, <1>4, SubSeqProperties
<1> QED BY <1>1, <1>2, <1>5 DEF first, VisibleFacts

\* The same of the state after a step.
LEMMA VisiblePropertiesAfter == QueueInv' => VisibleFacts'
BY VisibleProperties, PTL

\* The queue's first state is the empty channel's.
LEMMA ChannelInit == Init => Channel!Init
<1> SUFFICES ASSUME Init PROVE Channel!Init
    OBVIOUS
<1>1. QueueInv /\ Claimed = 0 /\ m_avail = 0
    BY InvInit, QueueAssumption DEF Init, Claimed
<1>2. Visible = <<>>
    BY <1>1, VisibleProperties, EmptySeq DEF VisibleFacts
<1> QED BY <1>1, <1>2 DEF Channel!Init, Answer, Init

\* Every step of the queue is a step of the channel or none: a post puts, a
\* taken token takes, a timeout gives up on an empty channel.
LEMMA ChannelStep == QueueInv /\ QueueInv' /\ [Next]_vars => [Channel!Next]_(Channel!vars)
<1> SUFFICES ASSUME QueueInv, QueueInv', [Next]_vars
             PROVE  [Channel!Next]_(Channel!vars)
    OBVIOUS
<1>1. MutexHeldInside /\ ThreadRoles /\ MutexHeldInside' /\ ThreadRoles' /\ AnswerSettled
    BY DEF QueueInv
<1>2. pc \in [Threads -> {"idle", "push", "post", "unlock", "wait", "lock", "pop", "return"}]
    BY DEF QueueInv, TypeOK
<1>3. VisibleFacts /\ VisibleFacts'
    BY VisibleProperties, VisiblePropertiesAfter
<1> USE QueueAssumption DEF Goto
\* Steps that touch neither the semaphore nor what the deque shows.
<1>4. ASSUME m_avail' = m_avail, Answer' = Answer,
             \A i \in 1..m_avail : m_messages'[i + Claimed'] = m_messages[i + Claimed]
      PROVE UNCHANGED Channel!vars
  <2>1. Visible' = Visible
    <3>1. Len(Visible') = Len(Visible) /\ Len(Visible) = m_avail
      BY <1>3, <1>4 DEF VisibleFacts
    <3>2. Visible \in Seq(Messages) /\ Visible' \in Seq(Messages)
      BY <1>3 DEF VisibleFacts
    <3>3. \A i \in 1..Len(Visible') : Visible'[i] = Visible[i]
      BY <1>3, <1>4, <3>1 DEF VisibleFacts
    <3> QED BY <3>1, <3>2, <3>3, SeqEqual
  <2> QED BY <1>4, <2>1 DEF Channel!vars
<1>5. ASSUME m_avail' = m_avail, m_messages' = m_messages, ret' = ret, Claimed' = Claimed
      PROVE UNCHANGED Channel!vars
    BY <1>4, <1>5 DEF Answer
<1>6. ASSUME NEW p \in Producers, EnqueueLock(p) \/ EnqueueUnlock(p)
      PROVE UNCHANGED Channel!vars
    BY <1>2, <1>5, <1>6 DEF EnqueueLock, EnqueueUnlock, Claimed, IsFree
<1>7. ASSUME NEW p \in Producers, PushBack(p) PROVE UNCHANGED Channel!vars
  <2>1. <<p, sent[p]>> \in Messages
    BY <1>7 DEF PushBack, QueueInv, TypeOK, ThreadRoles, Messages, Push
  <2>2. Claimed' = Claimed /\ m_avail' = m_avail /\ ret' = ret
    BY <1>2, <1>7 DEF PushBack, Claimed, Push
  <2>3. \A i \in 1..Len(m_messages) : m_messages'[i] = m_messages[i]
    BY <1>3, <1>7, <2>1, AppendProperties DEF PushBack, VisibleFacts, Push
  <2>4. \A i \in 1..m_avail : m_messages'[i + Claimed'] = m_messages[i + Claimed]
    <3>1. \A i \in 1..m_avail : i + Claimed \in 1..Len(m_messages)
      BY <1>3 DEF VisibleFacts
    <3> QED BY <2>2, <2>3, <3>1
  <2>5. Answer' = Answer
    <3>1. Claimed = 1 => Head(m_messages') = Head(m_messages)
      BY <1>3, <1>7, <2>1, <2>3, AppendProperties DEF PushBack, VisibleFacts, Push
    <3> QED BY <2>2, <3>1 DEF Answer
  <2> QED BY <1>4, <2>2, <2>4, <2>5
<1>8. ASSUME NEW p \in Producers, SemPost(p) PROVE \E m \in Messages : Channel!Put(m)
  <2>1. Claimed' = Claimed /\ m_avail' = m_avail + 1 /\ m_messages' = m_messages /\ ret' = ret
    BY <1>2, <1>8 DEF SemPost, Claimed, Post
  <2>2. Unposted = 1
    BY <1>8 DEF SemPost, Unposted, Post
  <2> DEFINE m == m_messages[Len(m_messages)]
             A == Append(Visible, m)
  <2>3. m \in Messages
    BY <1>3, <2>2, ElementOfSeq DEF VisibleFacts
  <2>4. /\ A \in Seq(Messages) /\ Len(A) = m_avail + 1
        /\ \A i \in 1..m_avail : A[i] = Visible[i]
        /\ A[m_avail + 1] = m
    <3> HIDE DEF m
    <3> QED BY <1>3, <2>3, AppendProperties DEF VisibleFacts
  <2>5. m_messages[m_avail + 1 + Claimed] = m
    BY <1>3, <2>2 DEF VisibleFacts
  <2>6. Visible' = A
    <3> HIDE DEF A, m
    <3>1. Visible' \in Seq(Messages) /\ Len(Visible') = Len(A) /\ Len(A) = m_avail + 1
      BY <1>3, <2>1, <2>4 DEF VisibleFacts
    <3>2. \A i \in 1..m_avail + 1 : Visible'[i] = m_messages[i + Claimed]
      BY <1>3, <2>1 DEF VisibleFacts
    <3>3. \A i \in 1..m_avail : Visible'[i] = A[i]
      BY <1>3, <2>4, <3>2 DEF VisibleFacts
    <3>4. Visible'[m_avail + 1] = A[m_avail + 1]
      BY <1>3, <2>4, <2>5, <3>2 DEF VisibleFacts
    <3>5. \A i \in 1..Len(Visible') : Visible'[i] = A[i]
      BY <1>3, <3>1, <3>3, <3>4 DEF VisibleFacts
    <3> QED BY <2>4, <3>1, <3>5, SeqEqual
  <2>7. Answer' = Answer
    BY <2>1 DEF Answer
  <2> QED BY <2>3, <2>6, <2>7 DEF Channel!Put
<1>9. CASE SemTake
  <2>1. /\ Claimed = 0 /\ Claimed' = 1 /\ m_avail > 0 /\ m_avail' = m_avail - 1
        /\ m_messages' = m_messages /\ ret' = ret /\ ret = <<>>
    BY <1>1, <1>2, <1>9 DEF SemTake, Claimed, AnswerSettled, WaitReturns
  <2>2. Visible # <<>> /\ Visible \in Seq(Messages) /\ Len(Visible) = m_avail
    BY <1>3, <2>1, EmptySeq DEF VisibleFacts
  <2>3. Head(Visible) = Head(m_messages)
    BY <1>3, <2>1, <2>2 DEF VisibleFacts
  <2>4. Visible' = Tail(Visible)
    <3> DEFINE T == Tail(Visible)
    <3>1. /\ T \in Seq(Messages) /\ Len(T) = m_avail - 1
          /\ \A i \in 1..Len(T) : T[i] = Visible[i + 1]
      BY <2>2, HeadTailProperties
    <3> HIDE DEF T
    <3>2. /\ Visible' \in Seq(Messages) /\ Len(Visible') = Len(T)
          /\ \A i \in 1..Len(T) : Visible'[i] = m_messages[i + 1]
      BY <1>3, <2>1, <3>1 DEF VisibleFacts
    <3>3. \A i \in 1..Len(T) : T[i] = m_messages[i + 1]
      BY <1>3, <2>1, <3>1 DEF VisibleFacts
    <3>4. \A i \in 1..Len(Visible') : Visible'[i] = T[i]
      BY <3>2, <3>3
    <3>5. Visible' = T
      BY <3>1, <3>2, <3>4, SeqEqual
    <3> QED BY <3>5 DEF T
  <2>5. Answer = <<>> /\ Answer' = <<Head(Visible)>>
    BY <2>1, <2>3 DEF Answer
  <2>6. Channel!Take
    BY <2>2, <2>4, <2>5 DEF Channel!Take
  <2> QED BY <2>6 DEF Channel!Next
<1>10. CASE SemTimeout
  <2>1. /\ Claimed = 0 /\ Claimed' = 0 /\ m_avail = 0 /\ m_avail' = m_avail
        /\ m_messages' = m_messages /\ ret' = <<Null>> /\ ret = <<>>
    BY <1>1, <1>2, <1>10 DEF SemTimeout, Claimed, AnswerSettled, WaitReturns
  <2>2. Visible = <<>> /\ Visible' = <<>>
    BY <1>3, <2>1, EmptySeq DEF VisibleFacts
  <2>3. Channel!TimeOut
    BY <2>1, <2>2 DEF Channel!TimeOut, Answer
  <2> QED BY <2>3 DEF Channel!Next
<1>11. CASE DequeueLock
    BY <1>2, <1>5, <1>11 DEF DequeueLock, Claimed, IsFree
<1>12. CASE PopFront
  <2>1. Claimed = 1 /\ Claimed' = 0 /\ m_avail' = m_avail
    BY <1>2, <1>12 DEF PopFront, Claimed, Pop
  <2>2. m_messages # <<>>
    BY <1>3, <2>1, EmptySeq DEF VisibleFacts
  <2>3. ret' = <<Head(m_messages)>> /\ m_messages' = Tail(m_messages)
    BY <1>12, <2>2 DEF PopFront, Pop
  <2>4. \A i \in 1..m_avail : m_messages'[i + Claimed'] = m_messages[i + Claimed]
    BY <1>3, <2>1, <2>2, <2>3, HeadTailProperties DEF VisibleFacts
  <2>5. Answer' = Answer
    BY <2>1, <2>3 DEF Answer
  <2> QED BY <1>4, <2>1, <2>4, <2>5
<1>13. CASE DequeueUnlock
    BY <1>2, <1>5, <1>13 DEF DequeueUnlock, Claimed
<1>14. CASE Return
  <2>1. /\ Claimed = 0 /\ Claimed' = 0 /\ m_avail' = m_avail
        /\ m_messages' = m_messages /\ ret' = <<>> /\ ret # <<>>
    BY <1>1, <1>2, <1>14 DEF Return, Claimed, AnswerSettled
  <2>2. Visible' = Visible
    <3>1. Visible' \in Seq(Messages) /\ Visible \in Seq(Messages) /\ Len(Visible') = Len(Visible)
      BY <1>3, <2>1 DEF VisibleFacts
    <3>2. \A i \in 1..Len(Visible') : Visible'[i] = Visible[i]
      BY <1>3, <2>1 DEF VisibleFacts
    <3> QED BY <3>1, <3>2, SeqEqual
  <2>3. Channel!Return
    BY <2>1, <2>2 DEF Channel!Return, Answer
  <2> QED BY <2>3 DEF Channel!Next
<1>15. CASE UNCHANGED vars
    BY <1>5, <1>15 DEF vars, Claimed
<1> QED
    BY <1>6, <1>7, <1>8, <1>9, <1>10, <1>11, <1>12, <1>13, <1>14, <1>15
    DEF Next, Enqueue, Dequeue, Channel!Next

\* The message queue is a FIFO channel, for every number of producers and every
\* interleaving of the mutex, the semaphore and the timeout.
THEOREM QueueImplementsChannel == Spec => ImplementsChannel
<1> QED
    BY ChannelInit, ChannelStep, QueueInvariant, PTL DEF Spec, ImplementsChannel, Channel!Spec
================================================================================
