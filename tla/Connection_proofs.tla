---------------------------- MODULE Connection_proofs ----------------------------
(***************************************************************************)
(* The server's descriptors, and the walk over addresses, for any number of *)
(* clients, addresses and descriptors and any faults: proofs of             *)
(* DescriptorsMatch and ConnectFindsServer.                                 *)
(***************************************************************************)
EXTENDS Connection, SequenceTheorems, WellFoundedInduction, TLAPS

\* Whose a descriptor may be.
LEMMA Owners ==
    /\ Nobody \notin Clients \union {Listener, Parent} /\ Nobody \notin Descriptors
    /\ Listener \notin Clients /\ Parent \notin Clients /\ Listener # Parent
BY ConnectionAssumption DEF Listener, Parent

\* A flag is set.
LEMMA FlagSet ==
    ASSUME NEW f \in [Clients -> BOOLEAN], NEW c \in Clients, NEW b \in BOOLEAN
    PROVE  [f EXCEPT ![c] = b] \in [Clients -> BOOLEAN]
OBVIOUS

LEMMA InitInv == Init => DescriptorInv
<1> SUFFICES ASSUME Init PROVE DescriptorInv
    OBVIOUS
<1> USE DEF Init, RioInit
<1>1. PICK inherited \in Inherited :
          fds = [d \in Descriptors |-> IF d \in inherited THEN Parent ELSE Nobody]
    OBVIOUS
<1>2. TypeOK
    BY <1>1 DEF TypeOK, Opening, Connecting
<1>3. DescriptorsMatch
    BY <1>1, Owners DEF DescriptorsMatch, Created
<1>4. ListenerIsOpen /\ HandIsOwn /\ BacklogIsUnaccepted /\ ConnectsOnce
    BY DEF ListenerIsOpen, HandIsOwn, BacklogIsUnaccepted, ConnectsOnce, Unaccepted, Serving
<1> QED BY <1>2, <1>3, <1>4 DEF DescriptorInv

\* Where a step moves nothing but the place of the main thread.
LEMMA OpeningSteps ==
    ASSUME DescriptorInv, ServerResolve \/ NoAddressLeft
    PROVE  DescriptorInv'
<1> USE DEF ServerResolve, NoAddressLeft, OpenFrame, clientVars, rioVars
<1>1. TypeOK'
    BY DEF DescriptorInv, TypeOK, Opening, Serving, Ended
<1>2. DescriptorsMatch'
    BY DEF DescriptorInv, DescriptorsMatch, Created
<1>3. ListenerIsOpen' /\ HandIsOwn'
    BY DEF DescriptorInv, ListenerIsOpen, HandIsOwn, Serving
<1>4. BacklogIsUnaccepted' /\ ConnectsOnce'
    BY DEF DescriptorInv, BacklogIsUnaccepted, ConnectsOnce, Unaccepted
<1> QED BY <1>1, <1>2, <1>3, <1>4 DEF DescriptorInv

LEMMA ServerSocketStep ==
    ASSUME DescriptorInv, ServerSocket
    PROVE  DescriptorInv'
<1> USE DEF OpenFrame, clientVars, rioVars
<1>1. /\ server = "socket" /\ m_ssock = Nobody
      /\ UNCHANGED <<backlog, client_fd, worker, m_fd, client, clientp, found>>
    BY DEF DescriptorInv, ListenerIsOpen, ServerSocket
<1>2. BacklogIsUnaccepted' /\ ConnectsOnce'
    BY <1>1 DEF DescriptorInv, BacklogIsUnaccepted, ConnectsOnce, Unaccepted
<1>3. CASE p \in Unsupported \/ NoneFree
  <2>1. p' = p + 1 /\ UNCHANGED <<server, m_ssock, fds>>
    BY <1>3 DEF ServerSocket
  <2>2. TypeOK'
    BY <1>1, <2>1 DEF DescriptorInv, TypeOK
  <2>3. DescriptorsMatch' /\ ListenerIsOpen' /\ HandIsOwn'
    BY <1>1, <2>1 DEF DescriptorInv, DescriptorsMatch, Created, ListenerIsOpen, HandIsOwn
  <2> QED BY <1>2, <2>2, <2>3 DEF DescriptorInv
<1>4. CASE ~(p \in Unsupported \/ NoneFree)
  <2>1. PICK d \in Descriptors :
            /\ IsLowestFree(d) /\ m_ssock' = d /\ fds' = [fds EXCEPT ![d] = Listener]
    BY <1>4 DEF ServerSocket
  <2>2. server' = "bind" /\ UNCHANGED p /\ fds[d] = Nobody
    BY <1>4, <2>1 DEF ServerSocket, IsLowestFree
  <2>3. TypeOK'
    BY <1>1, <2>1, <2>2 DEF DescriptorInv, TypeOK, Opening
  <2>4. DescriptorsMatch'
    BY <1>1, <2>1, <2>2, Owners DEF DescriptorInv, TypeOK, DescriptorsMatch, Created
  <2>5. ListenerIsOpen' /\ HandIsOwn'
    BY <2>1, <2>2, Owners DEF ListenerIsOpen, HandIsOwn
  <2> QED BY <1>2, <2>3, <2>4, <2>5 DEF DescriptorInv
<1> QED BY <1>3, <1>4

\* What closing the listening socket does, which bind and listen do when they fail.
LEMMA CloseListenerStep ==
    ASSUME DescriptorInv, CloseListener, server \in {"bind", "listen"},
           server' \in {"socket", "could not listen"}, p' \in Nat,
           UNCHANGED <<backlog, client_fd, worker, m_fd, client, clientp, found>>
    PROVE  DescriptorInv'
<1>1. m_ssock \in Descriptors /\ m_ssock' = Nobody /\ fds' = [fds EXCEPT ![m_ssock] = Nobody]
    BY DEF DescriptorInv, TypeOK, ListenerIsOpen, CloseListener
<1>2. TypeOK'
    BY <1>1 DEF DescriptorInv, TypeOK, Opening, Ended
<1>3. DescriptorsMatch'
  <2>1. \A d \in Descriptors : fds'[d] = IF d = m_ssock THEN Nobody ELSE fds[d]
    BY <1>1 DEF DescriptorInv, TypeOK
  <2>2. fds[m_ssock] = Listener
    BY <1>1 DEF DescriptorInv, DescriptorsMatch
  <2>3. ASSUME NEW d \in Descriptors
        PROVE  /\ fds'[d] = Listener <=> m_ssock' = d
               /\ \A c \in Clients : fds'[d] = c <=> m_fd'[c] = d
    <3>1. /\ fds[d] = Listener <=> m_ssock = d
          /\ \A c \in Clients : fds[d] = c <=> m_fd[c] = d
      BY DEF DescriptorInv, DescriptorsMatch
    <3>2. CASE d = m_ssock
      BY <1>1, <2>1, <2>2, <3>1, <3>2, Owners
    <3>3. CASE d # m_ssock
      BY <1>1, <2>1, <3>1, <3>3, Owners
    <3> QED BY <3>2, <3>3
  <2>5. \A c \in Clients : m_fd'[c] # Nobody <=> worker'[c] = "running" \/ Created(c)'
    BY DEF DescriptorInv, DescriptorsMatch, Created
  <2> QED BY <2>3, <2>5 DEF DescriptorInv, DescriptorsMatch, Ended
<1>4. ListenerIsOpen' /\ HandIsOwn'
    BY <1>1 DEF ListenerIsOpen, HandIsOwn, Serving
<1>5. BacklogIsUnaccepted' /\ ConnectsOnce'
    BY DEF DescriptorInv, BacklogIsUnaccepted, ConnectsOnce, Unaccepted
<1> QED BY <1>2, <1>3, <1>4, <1>5 DEF DescriptorInv

LEMMA BindListenStep ==
    ASSUME DescriptorInv, Bind \/ Listen
    PROVE  DescriptorInv'
<1> USE DEF OpenFrame, clientVars, rioVars
<1>1. /\ server \in {"bind", "listen"} /\ p \in Nat
      /\ UNCHANGED <<backlog, client_fd, worker, m_fd, client, clientp, found>>
    BY DEF DescriptorInv, TypeOK, Bind, Listen
<1>2. CASE /\ <<server, server'>> \in {<<"bind", "listen">>, <<"listen", "accept">>}
           /\ UNCHANGED <<p, m_ssock, fds>>
  <2>1. TypeOK'
    BY <1>1, <1>2 DEF DescriptorInv, TypeOK, Opening, Serving
  <2>2. DescriptorsMatch' /\ ListenerIsOpen' /\ HandIsOwn'
    BY <1>1, <1>2 DEF DescriptorInv, DescriptorsMatch, Created, ListenerIsOpen, HandIsOwn, Serving
  <2>3. BacklogIsUnaccepted' /\ ConnectsOnce'
    BY <1>1 DEF DescriptorInv, BacklogIsUnaccepted, ConnectsOnce, Unaccepted
  <2> QED BY <2>1, <2>2, <2>3 DEF DescriptorInv
<1>3. CASE CloseListener /\ server' \in {"socket", "could not listen"} /\ p' \in Nat
    BY <1>1, <1>3, CloseListenerStep
<1>4. CASE Bind
  <2>1. CASE server' = "listen" /\ UNCHANGED <<p, m_ssock, fds>>
    <3>1. server = "bind"
      BY <1>4 DEF Bind
    <3> QED BY <1>2, <2>1, <3>1
  <2>2. CASE TryNextAddress
    <3>1. server' = "socket" /\ p' \in Nat /\ CloseListener
      BY <1>1, <2>2 DEF TryNextAddress
    <3> QED BY <1>3, <3>1
  <2> QED BY <1>4, <2>1, <2>2 DEF Bind
<1>5. CASE Listen
    BY <1>1, <1>2, <1>3, <1>5 DEF Listen
<1> QED BY <1>4, <1>5

\* accept: the new descriptor is nobody's, and the connection is at none yet.
LEMMA AcceptStep ==
    ASSUME DescriptorInv, Accept
    PROVE  DescriptorInv'
<1> DEFINE c == Head(backlog)
<1>1. /\ backlog \in Seq(Clients) /\ backlog # <<>> /\ server = "accept"
      /\ server' = "create" /\ backlog' = Tail(backlog)
      /\ UNCHANGED <<p, m_ssock, worker, client, clientp, found>>
    BY DEF DescriptorInv, TypeOK, Accept, AcceptFrame, clientVars
<1>2. PICK d \in Descriptors :
          /\ fds[d] = Nobody
          /\ fds' = [fds EXCEPT ![d] = c]
          /\ client_fd' = d /\ m_fd' = [m_fd EXCEPT ![c] = d]
    BY DEF Accept, IsLowestFree
<1>3. /\ c \in Clients /\ c = backlog[1] /\ Len(backlog) \in Nat /\ Len(backlog) >= 1
      /\ Tail(backlog) \in Seq(Clients) /\ Len(Tail(backlog)) = Len(backlog) - 1
      /\ \A i \in 1..Len(Tail(backlog)) : Tail(backlog)[i] = backlog[i + 1]
    BY <1>1, HeadTailProperties, LenProperties, EmptySeq
<1>4. m_fd[c] = Nobody /\ worker[c] = "none"
    BY <1>3 DEF DescriptorInv, BacklogIsUnaccepted, Unaccepted
<1>5. \A i \in 1..Len(backlog') :
          /\ backlog'[i] \in Clients /\ backlog'[i] # c
          /\ Unaccepted(backlog'[i])
          /\ \A j \in 1..Len(backlog') : backlog'[i] = backlog'[j] => i = j
  <2> SUFFICES ASSUME NEW i \in 1..Len(backlog')
               PROVE  /\ backlog'[i] \in Clients /\ backlog'[i] # c
                      /\ Unaccepted(backlog'[i])
                      /\ \A j \in 1..Len(backlog') : backlog'[i] = backlog'[j] => i = j
    OBVIOUS
  <2>1. i + 1 \in 1..Len(backlog) /\ i + 1 # 1 /\ 1 \in 1..Len(backlog)
    BY <1>1, <1>3
  <2>2. backlog'[i] = backlog[i + 1] /\ backlog[i + 1] \in Clients
    BY <1>1, <1>3, <2>1
  <2>3. backlog[i + 1] # c /\ Unaccepted(backlog[i + 1])
    BY <1>3, <2>1 DEF DescriptorInv, BacklogIsUnaccepted
  <2>4. ASSUME NEW j \in 1..Len(backlog'), backlog'[i] = backlog'[j]
        PROVE  i = j
    <3>1. j + 1 \in 1..Len(backlog) /\ backlog'[j] = backlog[j + 1]
      BY <1>1, <1>3
    <3>2. i + 1 = j + 1
      BY <2>1, <2>2, <2>4, <3>1 DEF DescriptorInv, BacklogIsUnaccepted
    <3> QED BY <3>2
  <2> QED BY <2>2, <2>3, <2>4
<1> HIDE DEF c
<1>6. /\ \A e \in Descriptors : fds'[e] = IF e = d THEN c ELSE fds[e]
      /\ \A b \in Clients : m_fd'[b] = IF b = c THEN d ELSE m_fd[b]
    BY <1>2, <1>3 DEF DescriptorInv, TypeOK
<1>7. TypeOK'
  <2>1. /\ fds' \in [Descriptors -> Clients \union {Listener, Parent, Nobody}]
        /\ m_fd' \in [Clients -> Descriptors \union {Nobody}]
    BY <1>2, <1>3 DEF DescriptorInv, TypeOK
  <2> QED BY <1>1, <1>2, <1>3, <2>1 DEF DescriptorInv, TypeOK, Serving
<1>8. DescriptorsMatch'
  <2>1. ASSUME NEW e \in Descriptors
        PROVE  /\ fds'[e] = Listener <=> m_ssock' = e
               /\ \A b \in Clients : fds'[e] = b <=> m_fd'[b] = e
    <3>1. /\ fds[e] = Listener <=> m_ssock = e
          /\ \A b \in Clients : fds[e] = b <=> m_fd[b] = e
      BY DEF DescriptorInv, DescriptorsMatch
    <3>2. CASE e = d
      BY <1>1, <1>2, <1>3, <1>6, <3>1, <3>2, Owners
    <3>3. CASE e # d
      BY <1>1, <1>4, <1>6, <3>1, <3>3, Owners
    <3> QED BY <3>2, <3>3
  <2>2. ASSUME NEW b \in Clients
        PROVE  m_fd'[b] # Nobody <=> worker'[b] = "running" \/ Created(b)'
    <3>1. m_fd[b] # Nobody <=> worker[b] = "running"
      BY <1>1 DEF DescriptorInv, DescriptorsMatch, Created
    <3>2. Created(b)' <=> m_fd'[b] = d
      BY <1>1, <1>2 DEF Created
    <3>3. m_fd[b] # d
      BY <1>2, Owners DEF DescriptorInv, DescriptorsMatch
    <3>4. CASE b = c
      BY <1>6, <3>2, <3>4, Owners
    <3>5. CASE b # c
      BY <1>1, <1>6, <3>1, <3>2, <3>3, <3>5
    <3> QED BY <3>4, <3>5
  <2> QED BY <1>1, <2>1, <2>2 DEF DescriptorsMatch
<1>9. ListenerIsOpen' /\ HandIsOwn'
    BY <1>1, <1>2, <1>3, <1>4, <1>6 DEF DescriptorInv, ListenerIsOpen, HandIsOwn, Serving
<1>10. \A b \in Clients : b # c => (Unaccepted(b)' <=> Unaccepted(b))
    BY <1>1, <1>6 DEF Unaccepted
<1>11. BacklogIsUnaccepted'
    BY <1>5, <1>10 DEF BacklogIsUnaccepted, Unaccepted
<1>12. ConnectsOnce'
  <2> SUFFICES ASSUME NEW b \in Clients, client'[b] \in Connecting
               PROVE  Unaccepted(b)' /\ \A i \in 1..Len(backlog') : backlog'[i] # b
    BY DEF ConnectsOnce
  <2>1. Unaccepted(b) /\ \A i \in 1..Len(backlog) : backlog[i] # b
    BY <1>1 DEF DescriptorInv, ConnectsOnce
  <2>2. b # c
    BY <1>3, <2>1
  <2>3. \A i \in 1..Len(backlog') : backlog'[i] # b
    BY <1>1, <1>3, <2>1
  <2> QED BY <1>10, <2>1, <2>2, <2>3
<1> QED BY <1>7, <1>8, <1>9, <1>11, <1>12 DEF DescriptorInv

LEMMA AcceptFailsStep ==
    ASSUME DescriptorInv, AcceptFails
    PROVE  DescriptorInv'
<1>1. /\ server = "accept" /\ server' = "accept error"
      /\ UNCHANGED <<p, m_ssock, fds, backlog, client_fd, worker, m_fd,
                     client, clientp, found>>
    BY DEF AcceptFails, Exit, AcceptFrame, clientVars
<1>2. TypeOK'
    BY <1>1 DEF DescriptorInv, TypeOK, Ended
<1>3. DescriptorsMatch' /\ ListenerIsOpen' /\ HandIsOwn'
    BY <1>1 DEF DescriptorInv, DescriptorsMatch, Created, ListenerIsOpen, HandIsOwn, Serving
<1>4. BacklogIsUnaccepted' /\ ConnectsOnce'
    BY <1>1 DEF DescriptorInv, BacklogIsUnaccepted, ConnectsOnce, Unaccepted
<1> QED BY <1>2, <1>3, <1>4 DEF DescriptorInv

-----------------------------------------------------------------------------
\* A connection's descriptor is closed: its own, and nobody else's.
LEMMA CloseConnection ==
    ASSUME DescriptorInv, NEW c \in Clients, m_fd[c] # Nobody, Closed(m_fd[c]),
           m_fd' = [m_fd EXCEPT ![c] = Nobody]
    PROVE  /\ m_fd[c] \in Descriptors /\ fds[m_fd[c]] = c
           /\ fds' \in [Descriptors -> Clients \union {Listener, Parent, Nobody}]
           /\ m_fd' \in [Clients -> Descriptors \union {Nobody}]
           /\ \A b \in Clients : m_fd'[b] = IF b = c THEN Nobody ELSE m_fd[b]
           /\ fds' = [fds EXCEPT ![m_fd[c]] = Nobody]
           /\ \A d \in Descriptors : /\ fds'[d] = Listener <=> m_ssock = d
                                     /\ \A b \in Clients : fds'[d] = b <=> m_fd'[b] = d
<1>1. m_fd[c] \in Descriptors /\ fds[m_fd[c]] = c
  <2>1. m_fd[c] \in Descriptors
    BY DEF DescriptorInv, TypeOK
  <2> QED BY <2>1 DEF DescriptorInv, DescriptorsMatch
<1>2. fds' = [fds EXCEPT ![m_fd[c]] = Nobody]
    BY DEF Closed
<1>3. /\ fds' \in [Descriptors -> Clients \union {Listener, Parent, Nobody}]
      /\ \A d \in Descriptors : fds'[d] = IF d = m_fd[c] THEN Nobody ELSE fds[d]
    BY <1>1, <1>2 DEF DescriptorInv, TypeOK
<1>4. /\ m_fd' \in [Clients -> Descriptors \union {Nobody}]
      /\ \A b \in Clients : m_fd'[b] = IF b = c THEN Nobody ELSE m_fd[b]
    BY DEF DescriptorInv, TypeOK
<1>5. ASSUME NEW d \in Descriptors
      PROVE  /\ fds'[d] = Listener <=> m_ssock = d
             /\ \A b \in Clients : fds'[d] = b <=> m_fd'[b] = d
  <2>1. /\ fds[d] = Listener <=> m_ssock = d
        /\ \A b \in Clients : fds[d] = b <=> m_fd[b] = d
    BY DEF DescriptorInv, DescriptorsMatch
  <2>2. CASE d = m_fd[c]
    BY <1>1, <1>3, <1>4, <2>1, <2>2, Owners
  <2>3. CASE d # m_fd[c]
    BY <1>1, <1>3, <1>4, <2>1, <2>3, Owners
  <2> QED BY <2>2, <2>3
<1> QED BY <1>1, <1>2, <1>3, <1>4, <1>5

\* pthread_create: the worker takes the descriptor over, or the Connection is deleted.
LEMMA StartWorkerStep ==
    ASSUME DescriptorInv, StartWorker
    PROVE  DescriptorInv'
<1>1. PICK c \in Clients :
          /\ Created(c)
          /\ \/ Start(c)
             \/ Delete(c, "close again") /\ UNCHANGED <<worker, client_fd>>
    BY DEF StartWorker
<1>2. /\ server = "create" /\ m_fd[c] = client_fd /\ m_fd[c] # Nobody
      /\ UNCHANGED <<p, m_ssock, backlog, client, clientp, found>>
    BY <1>1 DEF DescriptorInv, DescriptorsMatch, StartWorker, AcceptFrame, clientVars, Created
<1>3. m_fd[c] \in Descriptors /\ fds[m_fd[c]] = c
    BY <1>2 DEF DescriptorInv, TypeOK, DescriptorsMatch
<1>4. worker[c] = "none" /\ \A b \in Clients : Created(b) => b = c
  <2>1. \A b \in Clients : m_fd[b] = client_fd => b = c
    BY <1>2, <1>3 DEF DescriptorInv, DescriptorsMatch
  <2> QED BY <1>2, <2>1 DEF DescriptorInv, HandIsOwn, Created
<1>5. \A i \in 1..Len(backlog) : backlog[i] # c
    BY <1>2 DEF DescriptorInv, BacklogIsUnaccepted, Unaccepted
<1>6. client[c] \notin Connecting
    BY <1>2 DEF DescriptorInv, ConnectsOnce, Unaccepted
<1>7. \A i \in 1..Len(backlog) : backlog[i] \in Clients
    BY LenProperties DEF DescriptorInv, TypeOK
<1>8. CASE Start(c)
  <2>1. /\ worker' = [worker EXCEPT ![c] = "running"]
        /\ server' = "accept" /\ client_fd' = Nobody /\ UNCHANGED <<fds, m_fd>>
    BY <1>8 DEF Start
  <2>2. \A b \in Clients : worker'[b] = IF b = c THEN "running" ELSE worker[b]
    BY <2>1 DEF DescriptorInv, TypeOK
  <2>3. TypeOK'
    BY <1>2, <2>1 DEF DescriptorInv, TypeOK, Serving
  <2>4. DescriptorsMatch'
    <3>1. ASSUME NEW b \in Clients
          PROVE  m_fd'[b] # Nobody <=> worker'[b] = "running" \/ Created(b)'
      <4>1. m_fd[b] # Nobody <=> worker[b] = "running" \/ Created(b)
        BY DEF DescriptorInv, DescriptorsMatch
      <4>2. ~Created(b)'
        BY <2>1 DEF Created
      <4> QED BY <1>2, <1>4, <2>1, <2>2, <4>1, <4>2
    <3>2. /\ server' # "close error"
          /\ \A d \in Descriptors : /\ fds'[d] = Listener <=> m_ssock' = d
                                    /\ \A b \in Clients : fds'[d] = b <=> m_fd'[b] = d
      BY <1>2, <2>1 DEF DescriptorInv, DescriptorsMatch
    <3> QED BY <3>1, <3>2 DEF DescriptorsMatch
  <2>5. ListenerIsOpen' /\ HandIsOwn'
    BY <1>2, <2>1 DEF DescriptorInv, ListenerIsOpen, HandIsOwn, Serving
  <2>6. \A b \in Clients : b # c => (Unaccepted(b)' <=> Unaccepted(b))
    BY <2>1, <2>2 DEF Unaccepted
  <2>7. BacklogIsUnaccepted'
    BY <1>2, <1>5, <1>7, <2>6 DEF DescriptorInv, BacklogIsUnaccepted, Unaccepted
  <2>8. ConnectsOnce'
    BY <1>2, <1>6, <2>6 DEF DescriptorInv, ConnectsOnce
  <2> QED BY <2>3, <2>4, <2>5, <2>7, <2>8 DEF DescriptorInv
<1>9. CASE Delete(c, "close again") /\ UNCHANGED <<worker, client_fd>>
  <2>1. /\ server' = "close again" /\ Closed(m_fd[c])
        /\ m_fd' = [m_fd EXCEPT ![c] = Nobody]
    BY <1>3, <1>9, Owners DEF Delete
  <2>2. /\ fds' \in [Descriptors -> Clients \union {Listener, Parent, Nobody}]
        /\ m_fd' \in [Clients -> Descriptors \union {Nobody}]
        /\ \A b \in Clients : m_fd'[b] = IF b = c THEN Nobody ELSE m_fd[b]
        /\ fds' = [fds EXCEPT ![m_fd[c]] = Nobody]
        /\ \A d \in Descriptors : /\ fds'[d] = Listener <=> m_ssock = d
                                  /\ \A b \in Clients : fds'[d] = b <=> m_fd'[b] = d
    BY <1>2, <2>1, CloseConnection
  <2>3. TypeOK'
    BY <1>2, <1>9, <2>1, <2>2 DEF DescriptorInv, TypeOK, Serving
  <2>4. DescriptorsMatch'
    <3>1. ASSUME NEW b \in Clients
          PROVE  m_fd'[b] # Nobody <=> worker'[b] = "running" \/ Created(b)'
      <4>1. m_fd[b] # Nobody <=> worker[b] = "running" \/ Created(b)
        BY DEF DescriptorInv, DescriptorsMatch
      <4>2. ~Created(b)'
        BY <2>1 DEF Created
      <4> QED BY <1>4, <1>9, <2>2, <4>1, <4>2
    <3> QED BY <1>2, <2>1, <2>2, <3>1 DEF DescriptorsMatch
  <2>5. fds'[client_fd] = Nobody /\ client_fd' = client_fd /\ client_fd # Nobody
    BY <1>2, <1>3, <1>9, <2>2 DEF DescriptorInv, TypeOK
  <2>6. ListenerIsOpen' /\ HandIsOwn'
    BY <1>2, <2>1, <2>5 DEF DescriptorInv, ListenerIsOpen, HandIsOwn, Serving
  <2>7. \A b \in Clients : b # c => (Unaccepted(b)' <=> Unaccepted(b))
    BY <1>9, <2>2 DEF Unaccepted
  <2>8. BacklogIsUnaccepted'
    BY <1>2, <1>5, <1>7, <2>7 DEF DescriptorInv, BacklogIsUnaccepted, Unaccepted
  <2>9. ConnectsOnce'
    BY <1>2, <1>6, <2>7 DEF DescriptorInv, ConnectsOnce
  <2> QED BY <2>3, <2>4, <2>6, <2>8, <2>9 DEF DescriptorInv
<1> QED BY <1>1, <1>8, <1>9

\* The second close finds nothing to close: the number has not been given out again.
LEMMA CloseAgainStep ==
    ASSUME DescriptorInv, CloseAgain
    PROVE  DescriptorInv' /\ fds' = fds
<1>1. /\ server = "close again" /\ fds[client_fd] = Nobody /\ client_fd # Nobody
      /\ server' = "accept" /\ client_fd' = Nobody
      /\ UNCHANGED <<p, m_ssock, fds, backlog, worker, m_fd, client, clientp, found>>
    BY DEF DescriptorInv, HandIsOwn, CloseAgain, AcceptFrame, clientVars
<1>2. TypeOK'
    BY <1>1 DEF DescriptorInv, TypeOK, Serving
<1>3. DescriptorsMatch' /\ ListenerIsOpen' /\ HandIsOwn'
    BY <1>1 DEF DescriptorInv, DescriptorsMatch, Created, ListenerIsOpen, HandIsOwn, Serving
<1>4. BacklogIsUnaccepted' /\ ConnectsOnce'
    BY <1>1 DEF DescriptorInv, BacklogIsUnaccepted, ConnectsOnce, Unaccepted
<1> QED BY <1>1, <1>2, <1>3, <1>4 DEF DescriptorInv

-----------------------------------------------------------------------------
\* A worker that ends closes its descriptor, whatever the main thread is doing.
LEMMA FinishStep ==
    ASSUME DescriptorInv, NEW c \in Clients, worker[c] = "running", Finish(c),
           UNCHANGED clientVars
    PROVE  DescriptorInv'
<1>1. /\ m_fd[c] # Nobody /\ worker' = [worker EXCEPT ![c] = "ended"]
      /\ UNCHANGED <<p, m_ssock, backlog, client_fd, client, clientp, found>>
    BY DEF DescriptorInv, DescriptorsMatch, Finish, clientVars
<1>2. m_fd[c] \in Descriptors /\ fds[m_fd[c]] = c
  <2>1. m_fd[c] \in Descriptors
    BY <1>1 DEF DescriptorInv, TypeOK
  <2> QED BY <2>1 DEF DescriptorInv, DescriptorsMatch
<1>3. server' = server /\ Closed(m_fd[c]) /\ m_fd' = [m_fd EXCEPT ![c] = Nobody]
    BY <1>2, Owners DEF Finish, Delete
<1>4. /\ fds' \in [Descriptors -> Clients \union {Listener, Parent, Nobody}]
      /\ m_fd' \in [Clients -> Descriptors \union {Nobody}]
      /\ \A b \in Clients : m_fd'[b] = IF b = c THEN Nobody ELSE m_fd[b]
      /\ fds' = [fds EXCEPT ![m_fd[c]] = Nobody]
      /\ \A d \in Descriptors : /\ fds'[d] = Listener <=> m_ssock = d
                                /\ \A b \in Clients : fds'[d] = b <=> m_fd'[b] = d
    BY <1>1, <1>3, CloseConnection
<1>5. \A b \in Clients : worker'[b] = IF b = c THEN "ended" ELSE worker[b]
    BY <1>1 DEF DescriptorInv, TypeOK
<1>6. ~Created(c)
  <2> SUFFICES ASSUME Created(c)
               PROVE  FALSE
    OBVIOUS
  <2>1. PICK b \in Clients : m_fd[b] = client_fd /\ worker[b] = "none"
    BY DEF DescriptorInv, HandIsOwn, Created
  <2>2. m_fd[b] = m_fd[c]
    BY <2>1 DEF Created
  <2>3. \A d \in Descriptors : m_fd[b] = d => fds[d] = b
    BY DEF DescriptorInv, DescriptorsMatch
  <2>4. b = c
    BY <1>2, <2>2, <2>3
  <2> QED BY <2>1, <2>4
<1>7. TypeOK'
    BY <1>1, <1>3, <1>4 DEF DescriptorInv, TypeOK
<1>8. DescriptorsMatch'
  <2>1. ASSUME NEW b \in Clients
        PROVE  m_fd'[b] # Nobody <=> worker'[b] = "running" \/ Created(b)'
    <3>1. m_fd[b] # Nobody <=> worker[b] = "running" \/ Created(b)
      BY DEF DescriptorInv, DescriptorsMatch
    <3>2. CASE b = c
      <4>1. ~Created(c)'
        <5>1. server = "create" => client_fd # Nobody
          <6>1. ASSUME server = "create"
                PROVE  client_fd # Nobody
            <7>1. PICK a \in Clients : m_fd[a] = client_fd
              BY <6>1 DEF DescriptorInv, HandIsOwn
            <7>2. Created(a)
              BY <6>1, <7>1 DEF Created
            <7> QED BY <7>1, <7>2 DEF DescriptorInv, DescriptorsMatch
          <6> QED BY <6>1
        <5> QED BY <1>1, <1>3, <1>4, <5>1 DEF Created
      <4> QED BY <1>4, <1>5, <3>2, <4>1
    <3>3. CASE b # c
      <4>1. Created(b)' <=> Created(b)
        BY <1>1, <1>3, <1>4, <3>3 DEF Created
      <4> QED BY <1>4, <1>5, <3>1, <3>3, <4>1
    <3> QED BY <3>2, <3>3
  <2>2. server' # "close error"
    BY <1>3 DEF DescriptorInv, DescriptorsMatch
  <2> QED BY <1>1, <1>4, <2>1, <2>2 DEF DescriptorsMatch
<1>9. ListenerIsOpen'
    BY <1>1, <1>3 DEF DescriptorInv, ListenerIsOpen
<1>10. HandIsOwn'
  <2>1. ASSUME server' = "create"
        PROVE  \E b \in Clients : m_fd'[b] = client_fd' /\ worker'[b] = "none"
    <3>1. PICK b \in Clients : m_fd[b] = client_fd /\ worker[b] = "none"
      BY <1>3, <2>1 DEF DescriptorInv, HandIsOwn
    <3> QED BY <1>1, <1>4, <1>5, <3>1
  <2>2. ASSUME server' = "close again"
        PROVE  client_fd' # Nobody /\ fds'[client_fd'] = Nobody
    <3>1. client_fd \in Descriptors /\ fds[client_fd] = Nobody /\ client_fd # Nobody
      BY <1>3, <2>2 DEF DescriptorInv, HandIsOwn, TypeOK
    <3> QED BY <1>1, <1>4, <3>1 DEF DescriptorInv, TypeOK
  <2> QED BY <2>1, <2>2 DEF HandIsOwn
<1>11. \A b \in Clients : b # c => (Unaccepted(b)' <=> Unaccepted(b))
    BY <1>4, <1>5 DEF Unaccepted
<1>12. BacklogIsUnaccepted'
  <2>1. \A i \in 1..Len(backlog) : backlog[i] \in Clients /\ backlog[i] # c
    BY <1>1, LenProperties DEF DescriptorInv, TypeOK, BacklogIsUnaccepted, Unaccepted
  <2> QED BY <1>1, <1>11, <2>1 DEF DescriptorInv, BacklogIsUnaccepted, Unaccepted
<1>13. ConnectsOnce'
  <2>1. client[c] \notin Connecting
    BY <1>1 DEF DescriptorInv, ConnectsOnce, Unaccepted
  <2> QED BY <1>1, <1>11, <2>1 DEF DescriptorInv, ConnectsOnce
<1> QED BY <1>7, <1>8, <1>9, <1>10, <1>12, <1>13 DEF DescriptorInv

\* What a worker reads, and what a client does once it is connected or before, moves
\* no descriptor.
LEMMA ClientSteps ==
    ASSUME DescriptorInv, UNCHANGED serverVars,
           clientp' \in [Clients -> Nat], found' \in [Clients -> BOOLEAN],
           client' \in [Clients -> Connecting \union {"connected", "writing", "ended"}],
           \A c \in Clients : client'[c] \in Connecting => client[c] \in Connecting
    PROVE  DescriptorInv'
<1>0. UNCHANGED <<server, p, m_ssock, fds, backlog, client_fd, worker, m_fd>>
    BY DEF serverVars
<1>1. TypeOK'
    BY <1>0 DEF DescriptorInv, TypeOK
<1>2. DescriptorsMatch'
  <2>1. \A d \in Descriptors : /\ fds'[d] = Listener <=> m_ssock' = d
                              /\ \A c \in Clients : fds'[d] = c <=> m_fd'[c] = d
    BY <1>0 DEF DescriptorInv, DescriptorsMatch
  <2>2. \A c \in Clients : m_fd'[c] # Nobody <=> worker'[c] = "running" \/ Created(c)'
    BY <1>0 DEF DescriptorInv, DescriptorsMatch, Created
  <2>3. server' # "close error"
    BY <1>0 DEF DescriptorInv, DescriptorsMatch
  <2> QED BY <2>1, <2>2, <2>3 DEF DescriptorsMatch
<1>3. ListenerIsOpen' /\ HandIsOwn'
    BY <1>0 DEF DescriptorInv, ListenerIsOpen, HandIsOwn
<1>4. BacklogIsUnaccepted' /\ ConnectsOnce'
    BY <1>0 DEF DescriptorInv, BacklogIsUnaccepted, ConnectsOnce, Unaccepted
<1> QED BY <1>1, <1>2, <1>3, <1>4 DEF DescriptorInv

\* connect: the client's connection waits for the first time, and only once.
LEMMA ConnectStep ==
    ASSUME DescriptorInv, NEW c \in Clients, client[c] \in Connecting,
           backlog' = Append(backlog, c), client' = [client EXCEPT ![c] = "connected"],
           UNCHANGED <<server, p, m_ssock, fds, client_fd, worker, m_fd, clientp, found>>
    PROVE  DescriptorInv'
<1>1. /\ backlog \in Seq(Clients) /\ backlog' \in Seq(Clients) /\ Len(backlog) \in Nat
      /\ Len(backlog') = Len(backlog) + 1 /\ backlog'[Len(backlog) + 1] = c
      /\ \A i \in 1..Len(backlog) : backlog'[i] = backlog[i]
    BY AppendProperties, LenProperties DEF DescriptorInv, TypeOK
<1>2. Unaccepted(c) /\ \A i \in 1..Len(backlog) : backlog[i] # c
    BY DEF DescriptorInv, ConnectsOnce
<1>3. \A b \in Clients : client'[b] = IF b = c THEN "connected" ELSE client[b]
    BY DEF DescriptorInv, TypeOK
<1>4. TypeOK'
    BY <1>1 DEF DescriptorInv, TypeOK
<1>5. DescriptorsMatch'
    BY DEF DescriptorInv, DescriptorsMatch, Created
<1>6. ListenerIsOpen' /\ HandIsOwn'
    BY DEF DescriptorInv, ListenerIsOpen, HandIsOwn
<1>7. \A i \in 1..Len(backlog') :
          \/ i \in 1..Len(backlog) /\ backlog'[i] = backlog[i]
          \/ i = Len(backlog) + 1 /\ backlog'[i] = c
    BY <1>1
<1>8. BacklogIsUnaccepted'
  <2>1. \A i \in 1..Len(backlog') : m_fd[backlog'[i]] = Nobody /\ worker[backlog'[i]] = "none"
    BY <1>2, <1>7 DEF DescriptorInv, BacklogIsUnaccepted, Unaccepted
  <2>2. \A i, j \in 1..Len(backlog') : backlog'[i] = backlog'[j] => i = j
    BY <1>2, <1>7 DEF DescriptorInv, BacklogIsUnaccepted
  <2> QED BY <2>1, <2>2 DEF BacklogIsUnaccepted, Unaccepted
<1>9. ConnectsOnce'
  <2> SUFFICES ASSUME NEW b \in Clients, client'[b] \in Connecting
               PROVE  Unaccepted(b)' /\ \A i \in 1..Len(backlog') : backlog'[i] # b
    BY DEF ConnectsOnce
  <2>1. b # c
    <3>1. client'[c] = "connected"
      BY <1>3
    <3>2. "connected" \notin Connecting
      BY DEF Connecting
    <3> QED BY <3>1, <3>2
  <2>2. client[b] \in Connecting
    BY <1>3, <2>1
  <2>3. Unaccepted(b) /\ \A i \in 1..Len(backlog) : backlog[i] # b
    BY <2>2 DEF DescriptorInv, ConnectsOnce
  <2>4. \A i \in 1..Len(backlog') : backlog'[i] # b
    BY <1>7, <2>1, <2>3
  <2> QED BY <2>3, <2>4 DEF Unaccepted
<1> QED BY <1>4, <1>5, <1>6, <1>8, <1>9 DEF DescriptorInv

LEMMA WorkStep ==
    ASSUME DescriptorInv, NEW c \in Clients, Work(c)
    PROVE  DescriptorInv'
<1>1. CASE UNCHANGED serverVars
  <2>1. UNCHANGED <<client, clientp, found>>
    BY DEF Work, clientVars
  <2> QED BY <1>1, <2>1, ClientSteps DEF DescriptorInv, TypeOK
<1>2. CASE Finish(c)
    BY <1>2, FinishStep DEF Work
<1> QED BY <1>1, <1>2 DEF Work, Receive

LEMMA ActStep ==
    ASSUME DescriptorInv, NEW c \in Clients, Act(c)
    PROVE  DescriptorInv'
<1>1. /\ client \in [Clients -> Connecting \union {"connected", "writing", "ended"}]
      /\ clientp \in [Clients -> Nat] /\ found \in [Clients -> BOOLEAN]
    BY DEF DescriptorInv, TypeOK
<1> DEFINE Onwards == \E label \in Connecting \union {"connected", "writing", "ended"} :
                          /\ client' = [client EXCEPT ![c] = label]
                          /\ label \in Connecting => client[c] \in Connecting
<1>2. ASSUME Onwards
      PROVE  /\ client' \in [Clients -> Connecting \union {"connected", "writing", "ended"}]
             /\ \A b \in Clients : client'[b] \in Connecting => client[b] \in Connecting
    BY <1>1, <1>2
<1> HIDE DEF Onwards
<1>3. CASE ClientResolve(c)
  <2>1. Onwards
    BY <1>3 DEF Onwards, ClientResolve, Goto, Connecting
  <2>2. clientp' = clientp /\ UNCHANGED serverVars
    BY <1>3 DEF ClientResolve, ConnectFrame, serverVars
  <2>3. found' \in [Clients -> BOOLEAN]
    <3>1. found' = [found EXCEPT ![c] = server \in Serving]
      BY <1>3 DEF ClientResolve
    <3>2. (server \in Serving) \in BOOLEAN
      OBVIOUS
    <3> QED BY <1>1, <3>1, <3>2, FlagSet
  <2> QED BY <1>1, <1>2, <2>1, <2>2, <2>3, ClientSteps
<1>4. CASE ClientSocket(c) \/ AllConnectsFailed(c)
  <2>1. Onwards
    BY <1>4 DEF Onwards, ClientSocket, AllConnectsFailed, NextAddress, Goto, Connecting
  <2>2. clientp' \in [Clients -> Nat]
    <3>1. clientp' = clientp \/ clientp' = [clientp EXCEPT ![c] = @ + 1]
      BY <1>4 DEF ClientSocket, AllConnectsFailed, NextAddress
    <3>2. [clientp EXCEPT ![c] = @ + 1] \in [Clients -> Nat]
      BY <1>1
    <3> QED BY <1>1, <3>1, <3>2
  <2>3. found' = found /\ UNCHANGED serverVars
    BY <1>4 DEF ClientSocket, AllConnectsFailed, ConnectFrame, serverVars
  <2> QED BY <1>1, <1>2, <2>1, <2>2, <2>3, ClientSteps
<1>5. CASE Connect(c)
  <2>1. client[c] = "connect" /\ UNCHANGED <<server, p, m_ssock, fds, client_fd, worker,
                                            m_fd, found>>
    BY <1>5 DEF Connect, ConnectFrame
  <2>2. CASE backlog' = Append(backlog, c) /\ Goto(c, "connected") /\ UNCHANGED clientp
    BY <2>1, <2>2, ConnectStep DEF Goto, Connecting
  <2>3. CASE NextAddress(c) /\ UNCHANGED backlog
    <3>1. Onwards
      BY <2>1, <2>3 DEF Onwards, NextAddress, Goto, Connecting
    <3>2. clientp' \in [Clients -> Nat]
      BY <1>1, <2>3 DEF NextAddress
    <3>3. UNCHANGED serverVars
      BY <2>1, <2>3 DEF serverVars
    <3> QED BY <1>1, <1>2, <2>1, <3>1, <3>2, <3>3, ClientSteps
  <2> QED BY <1>5, <2>2, <2>3 DEF Connect
<1>6. CASE Send(c) \/ WriteSome(c) \/ WriteFails(c) \/ End(c) \/ Break(c)
  <2>1. UNCHANGED <<serverVars, clientp, found>>
    BY <1>6 DEF Send, WriteSome, WriteFails, End, Break, SendFrame
  <2>2. client' = client \/ Onwards
    BY <1>6 DEF Onwards, Send, WriteSome, WriteFails, End, Break, Goto, Connecting
  <2> QED BY <1>1, <1>2, <2>1, <2>2, ClientSteps
<1> QED BY <1>3, <1>4, <1>5, <1>6 DEF Act

LEMMA DescriptorStep == DescriptorInv /\ [Next]_vars => DescriptorInv'
<1> SUFFICES ASSUME DescriptorInv, [Next]_vars
             PROVE  DescriptorInv'
    OBVIOUS
<1>1. CASE UNCHANGED vars
  <2>1. UNCHANGED <<serverVars, client, clientp, found>>
    BY <1>1 DEF vars, clientVars
  <2> QED BY <2>1, ClientSteps DEF DescriptorInv, TypeOK
<1>2. CASE Main
    BY <1>2, OpeningSteps, ServerSocketStep, BindListenStep, AcceptStep, AcceptFailsStep,
       StartWorkerStep, CloseAgainStep DEF Main
<1>3. ASSUME NEW c \in Clients, Work(c) \/ Act(c)
      PROVE  DescriptorInv'
    BY <1>3, WorkStep, ActStep
<1> QED BY <1>1, <1>2, <1>3 DEF Next, Quiet

\* The inductive invariant, for any number of clients and descriptors and any faults.
THEOREM DescriptorInvariant == Spec => []DescriptorInv
BY InitInv, DescriptorStep, PTL DEF Spec

\* No descriptor is leaked, shared or closed under another owner, the second close of a
\* connection whose thread could not be created included, and Close never fails.
THEOREM DescriptorsAreOwned == Spec => []DescriptorsMatch
<1>1. DescriptorInv => DescriptorsMatch
    BY DEF DescriptorInv
<1> QED BY <1>1, DescriptorInvariant, PTL

-----------------------------------------------------------------------------
(* Finding the server *)

LEMMA WalkInit == Init => WalkInv
BY ConnectionAssumption DEF Init, WalkInv, AddressIsGood, ServerIsAhead, Serving

\* The server's walk: it listens where it could make a socket, and stays there.
LEMMA ServerWalks ==
    ASSUME TypeOK, WalkInv, UNCHANGED clientVars,
           \/ Main
           \/ UNCHANGED <<server, p>>
           \/ server' \in Ended /\ UNCHANGED p
    PROVE  WalkInv'
<1>1. /\ p \in Nat /\ p >= 1 /\ UNCHANGED <<client, clientp, found>>
    BY DEF TypeOK, WalkInv, clientVars
<1>2. \/ UNCHANGED <<server, p>>
      \/ server' \in Ended /\ p' = p
      \/ server = "start" /\ server' = "socket" /\ p' = p
      \/ server = "socket" /\ server' = "socket" /\ p' = p + 1
      \/ server = "socket" /\ p <= Addresses /\ p \notin Unsupported /\ server' = "bind" /\ p' = p
      \/ server = "bind" /\ server' = "listen" /\ p' = p
      \/ server = "bind" /\ server' = "socket" /\ p' = p + 1
      \/ server = "listen" /\ server' = "accept" /\ p' = p
      \/ server \in Serving /\ server' \in Serving /\ p' = p
  <2>1. CASE ServerResolve
    BY <2>1 DEF ServerResolve, Ended
  <2>2. CASE ServerSocket
    BY <2>2 DEF ServerSocket
  <2>3. CASE NoAddressLeft
    BY <2>3 DEF NoAddressLeft, Ended
  <2>4. CASE Bind
    BY <2>4 DEF Bind, TryNextAddress
  <2>5. CASE Listen
    BY <2>5 DEF Listen, Ended
  <2>6. CASE Accept
    BY <2>6 DEF Accept, AcceptFrame, Serving
  <2>7. CASE AcceptFails
    BY <2>7 DEF AcceptFails, Exit, AcceptFrame, Ended
  <2>8. CASE StartWorker
    <3>1. server = "create" /\ p' = p
      BY <2>8 DEF StartWorker, Created, AcceptFrame
    <3>2. server' \in {"accept", "close again", "close error"}
      BY <2>8 DEF StartWorker, Start, Delete, Exit
    <3> QED BY <3>1, <3>2 DEF Serving, Ended
  <2>9. CASE CloseAgain
    BY <2>9 DEF CloseAgain, AcceptFrame, Serving
  <2> QED BY <2>1, <2>2, <2>3, <2>4, <2>5, <2>6, <2>7, <2>8, <2>9 DEF Main
<1>3. p' \in Nat /\ p' >= 1
    BY <1>1, <1>2
<1>4. AddressIsGood'
  <2> SUFFICES ASSUME server' \in {"bind", "listen"} \union Serving
               PROVE  p' \in (1..Addresses) \ Unsupported
    BY DEF AddressIsGood
  <2>1. /\ p' = p
        /\ \/ server \in {"bind", "listen"} \union Serving
           \/ p <= Addresses /\ p \notin Unsupported
    BY <1>2 DEF Serving, Ended
  <2>2. CASE server \in {"bind", "listen"} \union Serving
    BY <2>1, <2>2 DEF WalkInv, AddressIsGood
  <2>3. CASE p <= Addresses /\ p \notin Unsupported
    BY <1>1, <2>1, <2>3, ConnectionAssumption
  <2> QED BY <2>1, <2>2, <2>3
<1>5. /\ server \in Serving \union Ended => server' \in Serving \union Ended
      /\ server' \in Serving =>
            \/ server \in Serving /\ p' = p
            \/ server = "listen"
    BY <1>2 DEF Serving, Ended
<1>6. ServerIsAhead'
  <2> SUFFICES ASSUME NEW c \in Clients
               PROVE  /\ client[c] = "start" => clientp[c] = 1 /\ ~found[c]
                      /\ found[c] => server' \in Serving \union Ended
                      /\ c \notin Unreliable /\ found[c] /\ server' \in Serving =>
                            /\ client[c] # "could not connect"
                            /\ client[c] \in {"socket", "connect"} => clientp[c] <= p'
    BY <1>1 DEF ServerIsAhead
  <2>1. /\ client[c] = "start" => clientp[c] = 1 /\ ~found[c]
        /\ found[c] => server \in Serving \union Ended
        /\ c \notin Unreliable /\ found[c] /\ server \in Serving =>
              /\ client[c] # "could not connect"
              /\ client[c] \in {"socket", "connect"} => clientp[c] <= p
    BY DEF WalkInv, ServerIsAhead
  <2>2. server = "listen" => ~found[c]
    BY <2>1 DEF Serving, Ended
  <2> QED BY <1>5, <2>1, <2>2
<1> QED BY <1>3, <1>4, <1>6 DEF WalkInv

\* A client's walk: it does not pass the address of a server that listens.
LEMMA ClientWalks ==
    ASSUME TypeOK, WalkInv, NEW c \in Clients, Act(c)
    PROVE  WalkInv'
<1>1. /\ p \in Nat /\ clientp \in [Clients -> Nat] /\ found \in [Clients -> BOOLEAN]
      /\ client \in [Clients -> Connecting \union {"connected", "writing", "ended"}]
    BY DEF TypeOK
<1>2. UNCHANGED <<server, p>>
    BY DEF Act, ClientResolve, ClientSocket, AllConnectsFailed, Connect, ConnectFrame,
           Send, WriteSome, WriteFails, End, Break, SendFrame, serverVars
<1>3. \A b \in Clients : b # c => /\ client'[b] = client[b] /\ clientp'[b] = clientp[b]
                                 /\ found'[b] = found[b]
  <2> DEFINE Moves == \E label \in Connecting \union {"connected", "writing", "ended"} :
                          client' = [client EXCEPT ![c] = label]
  <2>1. client' = client \/ Moves
    <3>1. CASE ClientResolve(c) \/ ClientSocket(c) \/ AllConnectsFailed(c)
      BY <3>1 DEF ClientResolve, ClientSocket, AllConnectsFailed, NextAddress, Goto, Connecting
    <3>2. CASE Connect(c)
      BY <3>2 DEF Connect, NextAddress, Goto, Connecting
    <3>3. CASE Send(c) \/ WriteSome(c) \/ WriteFails(c) \/ End(c) \/ Break(c)
      BY <3>3 DEF Send, WriteSome, WriteFails, End, Break, Goto
    <3> QED BY <3>1, <3>2, <3>3 DEF Act
  <2>2. clientp' = clientp \/ clientp' = [clientp EXCEPT ![c] = @ + 1]
    BY DEF Act, ClientResolve, ClientSocket, AllConnectsFailed, Connect, NextAddress,
           Send, WriteSome, WriteFails, End, Break, SendFrame
  <2>3. found' = found \/ found' = [found EXCEPT ![c] = server \in Serving]
    BY DEF Act, ClientResolve, ClientSocket, AllConnectsFailed, Connect,
           Send, WriteSome, WriteFails, End, Break, SendFrame
  <2>4. \A b \in Clients : b # c => client'[b] = client[b]
    BY <1>1, <2>1
  <2>5. \A b \in Clients : b # c => clientp'[b] = clientp[b]
    BY <1>1, <2>2
  <2>6. \A b \in Clients : b # c => found'[b] = found[b]
    BY <1>1, <2>3
  <2> QED BY <2>4, <2>5, <2>6
<1> DEFINE Ahead == /\ client[c] = "start" => clientp[c] = 1 /\ ~found[c]
                    /\ found[c] => server \in Serving \union Ended
                    /\ c \notin Unreliable /\ found[c] /\ server \in Serving =>
                          /\ client[c] # "could not connect"
                          /\ client[c] \in {"socket", "connect"} => clientp[c] <= p
<1>4. Ahead
    BY DEF WalkInv, ServerIsAhead
<1>5. Ahead'
  <2>1. CASE ClientResolve(c)
    <3>1. /\ client[c] = "start" /\ clientp' = clientp
          /\ \/ client'[c] = "socket"
             \/ c \in Unreliable /\ client'[c] = "could not connect"
      BY <1>1, <2>1 DEF ClientResolve, Goto, MayFail
    <3>2. found'[c] <=> server \in Serving
      BY <1>1, <2>1, Zenon DEF ClientResolve
    <3> QED BY <1>1, <1>2, <1>4, <3>1, <3>2 DEF WalkInv
  <2>2. CASE NextAddress(c) /\ UNCHANGED found /\ client[c] \in {"socket", "connect"}
             /\ (c \notin Unreliable /\ server \in Serving => clientp[c] # p)
    <3>1. client'[c] = "socket" /\ clientp'[c] = clientp[c] + 1
      BY <1>1, <2>2 DEF NextAddress, Goto
    <3>2. c \notin Unreliable /\ found[c] /\ server \in Serving => clientp[c] + 1 <= p
      <4> SUFFICES ASSUME c \notin Unreliable, found[c], server \in Serving
                   PROVE  clientp[c] + 1 <= p
        OBVIOUS
      <4>1. clientp[c] <= p /\ clientp[c] # p
        BY <1>4, <2>2
      <4>2. clientp[c] \in Nat
        BY <1>1
      <4> QED BY <1>1, <4>1, <4>2
    <3>3. found'[c] = found[c] /\ server' = server /\ p' = p
      BY <1>2, <2>2
    <3>4. ~(client'[c] = "start") /\ client'[c] # "could not connect"
      BY <3>1
    <3> QED BY <1>4, <3>1, <3>2, <3>3, <3>4
  <2>3. CASE ClientSocket(c) \/ AllConnectsFailed(c)
    <3>1. server \in Serving => p \notin Unsupported /\ p <= Addresses
      BY <1>1, ConnectionAssumption DEF WalkInv, AddressIsGood
    <3>2. client[c] = "socket" /\ found' = found
      BY <2>3 DEF ClientSocket, AllConnectsFailed
    <3>3. CASE client'[c] = "connect" /\ clientp' = clientp
      BY <1>1, <1>2, <1>4, <3>2, <3>3
    <3>4. CASE clientp[c] > Addresses /\ client'[c] = "could not connect" /\ clientp' = clientp
      <4>1. ~(c \notin Unreliable /\ found[c] /\ server \in Serving)
        <5> SUFFICES ASSUME c \notin Unreliable, found[c], server \in Serving
                     PROVE  FALSE
          OBVIOUS
        <5>1. clientp[c] <= p
          BY <1>4, <3>2
        <5>2. p <= Addresses /\ clientp[c] > Addresses /\ clientp[c] \in Nat
          BY <1>1, <3>1, <3>4
        <5> QED BY <1>1, <5>1, <5>2, ConnectionAssumption
      <4> QED BY <1>1, <1>2, <1>4, <3>2, <3>4, <4>1
    <3> QED BY <1>1, <2>2, <2>3, <3>1, <3>2, <3>3, <3>4
            DEF ClientSocket, AllConnectsFailed, Goto
  <2>4. CASE Connect(c)
    <3>1. client[c] = "connect" /\ found' = found
      BY <2>4 DEF Connect
    <3>2. CASE client'[c] = "connected" /\ clientp' = clientp
      BY <1>1, <1>2, <1>4, <3>1, <3>2
    <3> QED BY <1>1, <2>2, <2>4, <3>1, <3>2 DEF Connect, Goto, MayFail
  <2>5. CASE Send(c) \/ WriteSome(c) \/ WriteFails(c) \/ End(c) \/ Break(c)
    <3>1. UNCHANGED <<clientp, found>>
      BY <2>5 DEF Send, WriteSome, WriteFails, End, Break, SendFrame
    <3>2. client'[c] = client[c] \/ client'[c] \in {"connected", "writing", "ended"}
      BY <1>1, <2>5 DEF Send, WriteSome, WriteFails, End, Break, Goto
    <3> QED BY <1>1, <1>2, <1>4, <3>1, <3>2
  <2> QED BY <2>1, <2>3, <2>4, <2>5 DEF Act
<1>6. ServerIsAhead'
    BY <1>2, <1>3, <1>5 DEF WalkInv, ServerIsAhead
<1> QED BY <1>2, <1>6 DEF WalkInv, AddressIsGood

LEMMA WalkStep == TypeOK /\ WalkInv /\ [Next]_vars => WalkInv'
<1> SUFFICES ASSUME TypeOK, WalkInv, [Next]_vars
             PROVE  WalkInv'
    OBVIOUS
<1>1. CASE UNCHANGED vars
    BY <1>1, ServerWalks DEF vars, serverVars
<1>2. CASE Main
  <2>1. CASE ServerResolve \/ ServerSocket \/ NoAddressLeft \/ Bind \/ Listen
    <3>1. OpenFrame
      BY <2>1 DEF ServerResolve, ServerSocket, NoAddressLeft, Bind, Listen
    <3>2. UNCHANGED clientVars
      BY <3>1 DEF OpenFrame
    <3> QED BY <1>2, <3>2, ServerWalks
  <2>2. CASE Accept \/ AcceptFails \/ StartWorker \/ CloseAgain
    BY <1>2, <2>2, ServerWalks DEF Accept, AcceptFails, StartWorker, CloseAgain, AcceptFrame
  <2> QED BY <1>2, <2>1, <2>2 DEF Main
<1>3. ASSUME NEW c \in Clients, Work(c)
      PROVE  WalkInv'
  <2>1. UNCHANGED <<clientVars, p>>
    BY <1>3 DEF Work, Receive, Finish, serverVars
  <2>2. server' = server \/ server' \in Ended
    BY <1>3 DEF Work, Receive, Finish, Delete, Exit, serverVars, Ended
  <2> QED BY <2>1, <2>2, ServerWalks
<1>4. ASSUME NEW c \in Clients, Act(c)
      PROVE  WalkInv'
    BY <1>4, ClientWalks
<1> QED BY <1>1, <1>2, <1>3, <1>4 DEF Next, Quiet

\* A client that is started while the server listens is connected, for any number of
\* addresses of which any cannot be used.
THEOREM ServerIsFound == Spec => []ConnectFindsServer
<1>1. TypeOK /\ WalkInv => ConnectFindsServer
    BY DEF TypeOK, WalkInv, ServerIsAhead, ConnectFindsServer
<1>2. DescriptorInv => TypeOK
    BY DEF DescriptorInv
<1> QED BY <1>1, <1>2, WalkInit, WalkStep, DescriptorInvariant, PTL DEF Spec
-----------------------------------------------------------------------------
(***************************************************************************)
(* What a worker reads is what its client wrote: every step of the server,  *)
(* of its clients and of the network is a step of LineStream, or none of    *)
(* its.  Proof of ImplementsLineStream for any messages, any sizes of the   *)
(* two buffers, any number of connections and any faults.                   *)
(***************************************************************************)

(* What has to be known of the bytes of a connection *)

Links == {"none", "up", "fin", "broken", "shut"}

BytesOK ==
    /\ link \in [Clients -> Links] /\ written \in [Clients -> Nat]
    /\ stream \in [Clients -> Seq(Nat)] /\ rio_buf \in [Clients -> Seq(Nat)]
    /\ buf \in [Clients -> Seq(Nat)] /\ rc \in [Clients -> {"pending", "line", "eof", "error"}]
    /\ got \in [Clients -> Seq(Nat)] /\ ends \in [Clients -> Seq(Nat)]

\* What rio_readlineb has copied so far is no line yet, nor as much as fits.
Unfinished(c) ==
    /\ Len(buf[c]) < MaxLen - 1
    /\ \A j \in 1..Len(buf[c]) : buf[c][j] \notin Newlines[c]

\* As long as the connection is up, all that was written has been returned or is on its way.
NothingIsMissing(c) ==
    link[c] \in {"none", "up"} => written[c] = Len(got[c]) + Len(Unread[c])

\* Nothing is connected or read before its time, and a message under way has an end.
InTime(c) ==
    /\ client[c] \in Connecting => link[c] = "none"
    /\ worker[c] = "none" => rio_buf[c] = <<>>
    /\ client[c] = "writing" => \E n \in Newlines[c] : n > written[c]

StreamInv == BytesOK /\ \A c \in Clients : Unfinished(c) /\ NothingIsMissing(c) /\ InTime(c)
-----------------------------------------------------------------------------
(* Sequences that are taken apart *)

LEMMA Reassociate ==
    \A x, y, z \in Seq(Nat) : (x \o y) \o z = x \o (y \o z)
    BY ConcatAssociative, SMTT(60)

LEMMA Taken ==
    ASSUME NEW s \in Seq(Nat), NEW k \in 0..Len(s)
    PROVE  /\ SubSeq(s, 1, k) \in Seq(Nat) /\ SubSeq(s, k + 1, Len(s)) \in Seq(Nat)
           /\ Len(SubSeq(s, 1, k)) = k /\ Len(SubSeq(s, k + 1, Len(s))) = Len(s) - k
           /\ SubSeq(s, 1, k) \o SubSeq(s, k + 1, Len(s)) = s
           /\ \A j \in 1..k : SubSeq(s, 1, k)[j] = s[j]
<1>1. Len(s) \in Nat /\ k \in Nat
    BY LenProperties
<1>2. \A i \in 1..Len(s) : s[i] \in Nat
    BY ElementOfSeq
<1>3. /\ SubSeq(s, 1, k) \in Seq(Nat) /\ Len(SubSeq(s, 1, k)) = k
      /\ \A j \in 1..k : SubSeq(s, 1, k)[j] = s[j]
  <2>1. \A i \in 1..k : s[i] \in Nat
      BY <1>1, <1>2
  <2>2. /\ SubSeq(s, 1, k) \in Seq(Nat)
        /\ Len(SubSeq(s, 1, k)) = IF 1 <= k THEN k - 1 + 1 ELSE 0
        /\ \A i \in 1..k - 1 + 1 : SubSeq(s, 1, k)[i] = s[1 + i - 1]
      BY <1>1, <2>1, SubSeqProperties
  <2> QED BY <1>1, <2>2
<1>4. SubSeq(s, k + 1, Len(s)) \in Seq(Nat) /\ Len(SubSeq(s, k + 1, Len(s))) = Len(s) - k
  <2>1. \A i \in k + 1..Len(s) : s[i] \in Nat
      BY <1>1, <1>2
  <2>2. /\ SubSeq(s, k + 1, Len(s)) \in Seq(Nat)
        /\ Len(SubSeq(s, k + 1, Len(s))) =
               IF k + 1 <= Len(s) THEN Len(s) - (k + 1) + 1 ELSE 0
      BY <1>1, <2>1, SubSeqProperties
  <2> QED BY <1>1, <2>2
<1>5. SubSeq(s, 1, k) \o SubSeq(s, k + 1, Len(s)) = SubSeq(s, 1, Len(s))
  <2>1. 1 \in 1..Len(s) + 1 /\ k \in 1 - 1..Len(s) /\ Len(s) \in k..Len(s)
      BY <1>1
  <2>2. \A m \in 1..Len(s) + 1 : \A j \in m - 1..Len(s) : \A n \in j..Len(s) :
            SubSeq(s, m, j) \o SubSeq(s, j + 1, n) = SubSeq(s, m, n)
      BY ConcatAdjacentSubSeq
  <2> QED BY <2>1, <2>2
<1>6. SubSeq(s, 1, Len(s)) = s
    BY SubSeqFull
<1> QED
    BY <1>3, <1>4, <1>5, <1>6

\* Of two parts, all of the first and some of the second.
LEMMA Cut ==
    ASSUME NEW s \in Seq(Nat), NEW t \in Seq(Nat), NEW k \in 0..Len(t)
    PROVE  /\ SubSeq(s \o t, 1, Len(s) + k) = s \o SubSeq(t, 1, k)
           /\ SubSeq(s \o t, Len(s) + k + 1, Len(s \o t)) = SubSeq(t, k + 1, Len(t))
<1>1. /\ Len(s) \in Nat /\ Len(t) \in Nat /\ k \in Nat
      /\ s \o t \in Seq(Nat) /\ Len(s \o t) = Len(s) + Len(t)
    BY LenProperties, ConcatProperties
<1> DEFINE a == SubSeq(s \o t, 1, Len(s) + k)
           b == SubSeq(s \o t, Len(s) + k + 1, Len(s \o t))
           a1 == SubSeq(t, 1, k)
           b1 == SubSeq(t, k + 1, Len(t))
<1>2. /\ a \in Seq(Nat) /\ b \in Seq(Nat) /\ a \o b = s \o t
      /\ Len(a) = Len(s) + k
  <2>1. Len(s) + k \in 0..Len(s \o t)
      BY <1>1
  <2> QED BY <1>1, <2>1, Taken
<1>3. /\ a1 \in Seq(Nat) /\ b1 \in Seq(Nat) /\ a1 \o b1 = t /\ Len(a1) = k
    BY Taken
<1> HIDE DEF a, b, a1, b1
<1>4. (s \o a1) \o b1 = a \o b
  <2>1. (s \o a1) \o b1 = s \o (a1 \o b1)
    <3>1. a1 \in Seq(Nat) /\ b1 \in Seq(Nat)
        BY <1>3
    <3> QED BY <3>1, Reassociate, Zenon
  <2> QED BY <1>2, <1>3, <2>1
<1>5. s \o a1 \in Seq(Nat) /\ Len(s \o a1) = Len(s) + k
    BY <1>3, ConcatProperties
<1>6. a = s \o a1
  <2>1. ASSUME NEW i \in 1..Len(a)
        PROVE  a[i] = (s \o a1)[i]
    <3>1. i \in 1..Len(a) + Len(b) /\ i \in 1..Len(s \o a1) + Len(b1) /\ i <= Len(a)
        BY <1>2, <1>3, <1>5, LenProperties
    <3>2. (a \o b)[i] = a[i]
        BY <1>2, <3>1, ConcatProperties
    <3>3. ((s \o a1) \o b1)[i] = (s \o a1)[i]
        BY <1>2, <1>3, <1>5, <3>1, ConcatProperties
    <3> QED BY <1>4, <3>2, <3>3
  <2> QED BY <1>2, <1>5, <2>1, SeqEqual
<1>7. b = b1
  <2>1. a \o b = a \o b1
      BY <1>4, <1>6
  <2>2. \A S : \A x, y, z \in Seq(S) : x \o y = x \o z => y = z
      BY ConcatSimplifications
  <2> QED BY <1>2, <1>3, <2>1, <2>2
<1> QED
    BY <1>6, <1>7 DEF a, b, a1, b1

\* Of two parts, some of the first.
LEMMA CutFirst ==
    ASSUME NEW s \in Seq(Nat), NEW t \in Seq(Nat), NEW k \in 0..Len(s)
    PROVE  /\ SubSeq(s \o t, 1, k) = SubSeq(s, 1, k)
           /\ SubSeq(s \o t, k + 1, Len(s \o t)) = SubSeq(s, k + 1, Len(s)) \o t
<1> DEFINE a == SubSeq(s, 1, k)
           b == SubSeq(s, k + 1, Len(s))
<1>1. a \in Seq(Nat) /\ b \in Seq(Nat) /\ a \o b = s /\ Len(a) = k /\ k \in Nat
  <2>1. k \in Nat
      BY LenProperties
  <2> QED BY <2>1, Taken
<1> HIDE DEF a, b
<1>2. a \in Seq(Nat) /\ b \in Seq(Nat) /\ b \o t \in Seq(Nat)
    BY <1>1, ConcatProperties
<1>3. (a \o b) \o t = a \o (b \o t)
  <2>1. a \in Seq(Nat) /\ b \in Seq(Nat)
      BY <1>2
  <2> QED BY <2>1, Reassociate, Zenon
<1> DEFINE u == b \o t
<1>4. u \in Seq(Nat) /\ s \o t = a \o u /\ Len(u) \in Nat
    BY <1>1, <1>2, <1>3, LenProperties
<1> HIDE DEF u
<1>5. /\ SubSeq(a \o u, 1, Len(a) + 0) = a \o SubSeq(u, 1, 0)
      /\ SubSeq(a \o u, Len(a) + 0 + 1, Len(a \o u)) = SubSeq(u, 0 + 1, Len(u))
  <2>1. 0 \in 0..Len(u)
      BY <1>4
  <2> QED BY <1>2, <1>4, <2>1, Cut
<1>6. SubSeq(u, 1, 0) = <<>> /\ a \o <<>> = a /\ SubSeq(u, 1, Len(u)) = u
    BY <1>2, <1>4, SubSeqEmpty, SubSeqFull, ConcatEmptySeq
<1>7. Len(a) + 0 = k /\ Len(a) + 0 + 1 = k + 1 /\ 0 + 1 = 1
    BY <1>1
<1>8. SubSeq(s \o t, 1, k) = a /\ SubSeq(s \o t, k + 1, Len(s \o t)) = u
    BY <1>4, <1>5, <1>6, <1>7
<1> QED
    BY <1>8 DEF a, b, u

\* The bytes that rio_readlineb copies, among all that are unread.
LEMMA Copied ==
    ASSUME NEW s \in Seq(Nat), NEW t \in Seq(Nat), NEW r \in Seq(Nat), NEW k \in 0..Len(t)
    PROVE  /\ Len(s) + k \in 0..Len(s \o (t \o r))
           /\ SubSeq(s \o (t \o r), 1, Len(s) + k) = s \o SubSeq(t, 1, k)
           /\ SubSeq(s \o (t \o r), Len(s) + k + 1, Len(s \o (t \o r)))
                  = SubSeq(t, k + 1, Len(t)) \o r
           /\ \A j \in 1..Len(s) : (s \o (t \o r))[j] = s[j]
           /\ \A j \in 1..k : (s \o (t \o r))[Len(s) + j] = t[j]
<1> DEFINE u == t \o r
<1>1. /\ u \in Seq(Nat) /\ Len(u) = Len(t) + Len(r)
      /\ \A j \in 1..Len(t) : u[j] = t[j]
  <2>1. Len(t) \in Nat /\ Len(r) \in Nat
      BY LenProperties
  <2> QED BY <2>1, ConcatProperties
<1>2. SubSeq(u, 1, k) = SubSeq(t, 1, k) /\ SubSeq(u, k + 1, Len(u)) = SubSeq(t, k + 1, Len(t)) \o r
    BY CutFirst
<1>3. Len(s) \in Nat /\ Len(t) \in Nat /\ Len(r) \in Nat /\ k \in Nat /\ k <= Len(t)
    BY LenProperties
<1> HIDE DEF u
<1>4. /\ SubSeq(s \o u, 1, Len(s) + k) = s \o SubSeq(u, 1, k)
      /\ SubSeq(s \o u, Len(s) + k + 1, Len(s \o u)) = SubSeq(u, k + 1, Len(u))
  <2>1. k \in 0..Len(u)
      BY <1>1, <1>3
  <2> QED BY <1>1, <2>1, Cut
<1>5. /\ Len(s \o u) = Len(s) + Len(u)
      /\ \A j \in 1..Len(s) + Len(u) : (s \o u)[j] = IF j <= Len(s) THEN s[j] ELSE u[j - Len(s)]
  <2>1. u \in Seq(Nat)
      BY <1>1
  <2> QED BY <2>1, ConcatProperties
<1>6. \A j \in 1..Len(s) : (s \o u)[j] = s[j]
    BY <1>1, <1>3, <1>5
<1>7. ASSUME NEW j \in 1..k
      PROVE  (s \o u)[Len(s) + j] = t[j]
  <2>1. Len(s) + j \in 1..Len(s) + Len(u) /\ ~(Len(s) + j <= Len(s)) /\ j \in 1..Len(t)
        /\ Len(s) + j - Len(s) = j
      BY <1>1, <1>3
  <2>2. (s \o u)[Len(s) + j] = u[Len(s) + j - Len(s)]
      BY <1>5, <2>1
  <2> QED BY <1>1, <2>1, <2>2
<1>8. Len(s) + k \in 0..Len(s \o u)
    BY <1>1, <1>3, <1>5
<1> QED
    BY <1>2, <1>4, <1>6, <1>7, <1>8 DEF u
-----------------------------------------------------------------------------
(* What is unread *)

\* The parts of a connection's bytes, in either order of joining them.
UnreadParts(c) ==
    /\ Unread[c] = (buf[c] \o rio_buf[c]) \o stream[c]
    /\ Unread[c] = buf[c] \o (rio_buf[c] \o stream[c])
    /\ Unread[c] \in Seq(Nat)
    /\ Len(Unread[c]) = Len(buf[c]) + Len(rio_buf[c]) + Len(stream[c])

LEMMA UnreadIs == BytesOK => \A c \in Clients : UnreadParts(c)
<1> SUFFICES ASSUME BytesOK, NEW c \in Clients
             PROVE  UnreadParts(c)
    OBVIOUS
<1>1. buf[c] \in Seq(Nat) /\ rio_buf[c] \in Seq(Nat) /\ stream[c] \in Seq(Nat)
    BY DEF BytesOK
<1>2. Unread[c] = (buf[c] \o rio_buf[c]) \o stream[c]
    BY DEF Unread
<1> DEFINE x == buf[c]
           y == rio_buf[c]
           z == stream[c]
<1> HIDE DEF x, y, z
<1>3. x \in Seq(Nat) /\ y \in Seq(Nat) /\ z \in Seq(Nat) /\ Unread[c] = (x \o y) \o z
    BY <1>1, <1>2 DEF x, y, z
<1>4. (x \o y) \o z = x \o (y \o z)
  <2>1. x \in Seq(Nat) /\ y \in Seq(Nat) /\ z \in Seq(Nat)
      BY <1>3
  <2> QED BY <2>1, Reassociate, Zenon
<1>5. /\ Len(x) \in Nat /\ Len(y) \in Nat /\ Len(z) \in Nat
      /\ x \o y \in Seq(Nat) /\ Len(x \o y) = Len(x) + Len(y)
    BY <1>3, LenProperties, ConcatProperties
<1>6. (x \o y) \o z \in Seq(Nat) /\ Len((x \o y) \o z) = Len(x) + Len(y) + Len(z)
    BY <1>3, <1>5, ConcatProperties
<1> QED
    BY <1>3, <1>4, <1>6 DEF x, y, z, UnreadParts

LEMMA UnreadIsNext == BytesOK' => (\A c \in Clients : UnreadParts(c))'
BY UnreadIs, PTL

\* All but one connection stay what they are.
Untouched(b) == UNCHANGED <<link[b], written[b], stream[b], rio_buf[b], buf[b], got[b],
                            ends[b], worker[b], client[b]>>

LEMMA OneClient ==
    ASSUME StreamInv, NEW c \in Clients, BytesOK',
           Unfinished(c)', NothingIsMissing(c)', InTime(c)',
           \A b \in Clients \ {c} : Untouched(b)
    PROVE  /\ StreamInv'
           /\ Unread' = [Unread EXCEPT ![c] = Unread[c]']
<1>1. \A b \in Clients \ {c} : Unread[b]' = Unread[b]
    BY DEF Untouched, Unread
<1>2. ASSUME NEW b \in Clients \ {c}
      PROVE  Unfinished(b)' /\ NothingIsMissing(b)' /\ InTime(b)'
  <2>1. Unfinished(b) /\ NothingIsMissing(b) /\ InTime(b) /\ Untouched(b)
      BY DEF StreamInv
  <2> QED BY <1>1, <2>1 DEF Untouched, Unfinished, NothingIsMissing, InTime
<1>3. Unread' = [Unread EXCEPT ![c] = Unread[c]']
    BY <1>1 DEF Unread
<1> QED
    BY <1>2, <1>3 DEF StreamInv

\* read fills rio_buf: the bytes have only come nearer.
LEMMA RefillStep ==
    ASSUME StreamInv, NEW c \in Clients, Refill(c), worker[c] # "none",
           UNCHANGED <<worker, client>>
    PROVE  StreamInv' /\ UNCHANGED Promise!vars
<1>1. PICK n \in 1..Len(stream[c]) :
          /\ rio_buf' = [rio_buf EXCEPT ![c] = SubSeq(stream[c], 1, n)]
          /\ stream' = [stream EXCEPT ![c] = SubSeq(@, n + 1, Len(@))]
    BY DEF Refill
<1>2. /\ rio_buf[c] = <<>> /\ stream[c] \in Seq(Nat) /\ buf[c] \in Seq(Nat)
      /\ UNCHANGED <<link, written, buf, rc, got, ends>>
      /\ BytesOK /\ Unfinished(c) /\ NothingIsMissing(c) /\ InTime(c)
    BY DEF Refill, StreamInv, BytesOK, writerVars
<1>3. /\ SubSeq(stream[c], 1, n) \in Seq(Nat)
      /\ SubSeq(stream[c], n + 1, Len(stream[c])) \in Seq(Nat)
      /\ SubSeq(stream[c], 1, n) \o SubSeq(stream[c], n + 1, Len(stream[c])) = stream[c]
  <2>1. n \in 0..Len(stream[c])
      BY <1>2, LenProperties
  <2> QED BY <1>2, <2>1, Taken
<1>4. /\ rio_buf'[c] = SubSeq(stream[c], 1, n)
      /\ stream'[c] = SubSeq(stream[c], n + 1, Len(stream[c]))
      /\ \A b \in Clients \ {c} : rio_buf'[b] = rio_buf[b] /\ stream'[b] = stream[b]
    BY <1>1, <1>2 DEF BytesOK
<1>5. BytesOK'
    BY <1>1, <1>2, <1>3 DEF BytesOK
<1>6. Unread[c]' = Unread[c]
  <2>1. Unread[c]' = buf[c] \o stream[c]
      BY <1>2, <1>3, <1>4, <1>5, UnreadIsNext DEF UnreadParts
  <2>2. Unread[c] = buf[c] \o (<<>> \o stream[c])
      BY <1>2, UnreadIs DEF UnreadParts
  <2>3. <<>> \o stream[c] = stream[c]
      BY <1>2, ConcatEmptySeq
  <2> QED BY <2>1, <2>2, <2>3
<1>7. Unfinished(c)' /\ NothingIsMissing(c)' /\ InTime(c)'
    BY <1>2, <1>6 DEF Unfinished, NothingIsMissing, InTime
<1>8. StreamInv' /\ Unread' = [Unread EXCEPT ![c] = Unread[c]']
    BY <1>2, <1>4, <1>5, <1>7, OneClient DEF Untouched
<1>9. Unread' = Unread
    BY <1>6, <1>8 DEF Unread
<1> QED
    BY <1>2, <1>8, <1>9 DEF Promise!vars

\* What returning from rio_readlineb does to the reader.
LEMMA Returned ==
    ASSUME BytesOK, NEW c \in Clients, NEW bytes \in Seq(Nat),
           NEW how \in {"line", "eof", "error"}, Return(c, bytes, how)
    PROVE  /\ rc' \in [Clients -> {"pending", "line", "eof", "error"}]
           /\ buf' \in [Clients -> Seq(Nat)] /\ buf'[c] = <<>>
           /\ got' \in [Clients -> Seq(Nat)] /\ got'[c] = got[c] \o bytes
           /\ Len(got'[c]) = Len(got[c]) + Len(bytes)
           /\ ends' \in [Clients -> Seq(Nat)]
           /\ \A b \in Clients \ {c} : UNCHANGED <<buf[b], got[b], ends[b]>>
<1>1. /\ rc' = [rc EXCEPT ![c] = how] /\ buf' = [buf EXCEPT ![c] = <<>>]
      /\ got' = [got EXCEPT ![c] = @ \o bytes]
      /\ \/ ends' = [ends EXCEPT ![c] = Append(@, Len(got[c]) + Len(bytes))]
         \/ ends' = ends
    BY DEF Return
<1>2. /\ rc \in [Clients -> {"pending", "line", "eof", "error"}]
      /\ buf \in [Clients -> Seq(Nat)] /\ got \in [Clients -> Seq(Nat)]
      /\ ends \in [Clients -> Seq(Nat)]
      /\ got[c] \in Seq(Nat) /\ ends[c] \in Seq(Nat)
    BY DEF BytesOK
<1>3. /\ got[c] \o bytes \in Seq(Nat)
      /\ Len(got[c] \o bytes) = Len(got[c]) + Len(bytes)
      /\ Len(got[c]) \in Nat /\ Len(bytes) \in Nat
    BY <1>2, ConcatProperties, LenProperties
<1>4. Append(ends[c], Len(got[c]) + Len(bytes)) \in Seq(Nat)
    BY <1>2, <1>3, AppendProperties
<1>5. <<>> \in Seq(Nat)
    BY EmptySeq
<1> QED
    BY <1>1, <1>2, <1>3, <1>4, <1>5

\* The bytes up to the end of a line or of a buffer are copied: a line is taken, or
\* nothing is.
LEMMA CopyBytesStep ==
    ASSUME StreamInv, NEW c \in Clients, CopyBytes(c), worker[c] # "none",
           UNCHANGED <<worker, client>>
    PROVE  StreamInv' /\ [Promise!Next]_(Promise!vars)
<1> DEFINE s == buf[c]
           t == rio_buf[c]
           r == stream[c]
<1>1. PICK k \in 1..Len(t) :
          /\ EndsLine(c, k) \/ k = Len(t)
          /\ \A j \in 1..k - 1 : ~EndsLine(c, j)
          /\ rio_buf' = [rio_buf EXCEPT ![c] = SubSeq(@, k + 1, Len(@))]
          /\ IF EndsLine(c, k)
             THEN Return(c, s \o SubSeq(t, 1, k), "line")
             ELSE buf' = [buf EXCEPT ![c] = s \o SubSeq(t, 1, k)] /\ UNCHANGED <<rc, got, ends>>
    BY DEF CopyBytes
<1>2. /\ s \in Seq(Nat) /\ t \in Seq(Nat) /\ r \in Seq(Nat)
      /\ UNCHANGED <<link, written, stream>>
      /\ BytesOK /\ Unfinished(c) /\ NothingIsMissing(c) /\ InTime(c)
    BY DEF CopyBytes, StreamInv, BytesOK, writerVars
<1>3. /\ Len(s) \in Nat /\ Len(t) \in Nat /\ Len(r) \in Nat
      /\ k \in 0..Len(t) /\ k \in Nat /\ k \in 1..k /\ k >= 1
      /\ Len(s) < MaxLen - 1 /\ MaxLen \in Nat
    BY <1>2, LenProperties, RioAssumption DEF Unfinished
<1>4. Unread[c] = s \o (t \o r) /\ Unread[c] \in Seq(Nat)
    BY <1>2, UnreadIs DEF UnreadParts
<1>5. /\ Len(s) + k \in 0..Len(Unread[c])
      /\ SubSeq(Unread[c], 1, Len(s) + k) = s \o SubSeq(t, 1, k)
      /\ SubSeq(Unread[c], Len(s) + k + 1, Len(Unread[c])) = SubSeq(t, k + 1, Len(t)) \o r
      /\ \A j \in 1..Len(s) : Unread[c][j] = s[j]
      /\ \A j \in 1..k : Unread[c][Len(s) + j] = t[j]
  <2>1. /\ s \in Seq(Nat) /\ t \in Seq(Nat) /\ r \in Seq(Nat) /\ k \in 0..Len(t)
      BY <1>2, <1>3
  <2>2. /\ Len(s) + k \in 0..Len(s \o (t \o r))
        /\ SubSeq(s \o (t \o r), 1, Len(s) + k) = s \o SubSeq(t, 1, k)
        /\ SubSeq(s \o (t \o r), Len(s) + k + 1, Len(s \o (t \o r)))
               = SubSeq(t, k + 1, Len(t)) \o r
        /\ \A j \in 1..Len(s) : (s \o (t \o r))[j] = s[j]
        /\ \A j \in 1..k : (s \o (t \o r))[Len(s) + j] = t[j]
    <3> HIDE DEF s, t, r
    <3> QED BY <2>1, Copied
  <2> QED BY <1>4, <2>2
<1>6. /\ SubSeq(t, 1, k) \in Seq(Nat) /\ SubSeq(t, k + 1, Len(t)) \in Seq(Nat)
      /\ Len(SubSeq(t, 1, k)) = k
      /\ s \o SubSeq(t, 1, k) \in Seq(Nat) /\ Len(s \o SubSeq(t, 1, k)) = Len(s) + k
  <2>1. /\ SubSeq(t, 1, k) \in Seq(Nat) /\ SubSeq(t, k + 1, Len(t)) \in Seq(Nat)
        /\ Len(SubSeq(t, 1, k)) = k
      BY <1>2, <1>3, Taken
  <2> QED BY <1>2, <2>1, ConcatProperties
<1>7. rio_buf' \in [Clients -> Seq(Nat)] /\ rio_buf'[c] = SubSeq(t, k + 1, Len(t))
      /\ \A b \in Clients \ {c} : rio_buf'[b] = rio_buf[b]
    BY <1>1, <1>2, <1>6 DEF BytesOK
\* No byte before the last is a newline, and they are no more than fit.
<1>8. /\ Len(s) + k <= MaxLen - 1
      /\ \A j \in 1..Len(s) + k - 1 : Unread[c][j] \notin Newlines[c]
  <2>1. \A j \in 1..k - 1 : t[j] \notin Newlines[c] /\ Len(s) + j # MaxLen - 1
      BY <1>1 DEF EndsLine
  <2>2. Len(s) + k <= MaxLen - 1
    <3> SUFFICES ASSUME Len(s) + k > MaxLen - 1 PROVE FALSE
        BY <1>3
    <3>1. MaxLen - 1 - Len(s) \in 1..k - 1 /\ Len(s) + (MaxLen - 1 - Len(s)) = MaxLen - 1
        BY <1>3
    <3> QED BY <2>1, <3>1
  <2>3. ASSUME NEW j \in 1..Len(s) + k - 1
        PROVE  Unread[c][j] \notin Newlines[c]
    <3>1. CASE j <= Len(s)
        BY <1>2, <1>3, <1>5, <3>1 DEF Unfinished
    <3>2. CASE j > Len(s)
      <4>1. j - Len(s) \in 1..k - 1 /\ j - Len(s) \in 1..k /\ Len(s) + (j - Len(s)) = j
          BY <1>3, <3>2
      <4> QED BY <1>5, <2>1, <4>1
    <3> QED BY <1>3, <3>1, <3>2
  <2> QED BY <2>2, <2>3
<1>9. CASE EndsLine(c, k)
  <2> DEFINE bytes == s \o SubSeq(t, 1, k)
  <2>1. Return(c, bytes, "line")
      BY <1>1, <1>9
  <2>2. /\ rc' \in [Clients -> {"pending", "line", "eof", "error"}]
        /\ buf' \in [Clients -> Seq(Nat)] /\ buf'[c] = <<>>
        /\ got' \in [Clients -> Seq(Nat)] /\ got'[c] = got[c] \o bytes
        /\ Len(got'[c]) = Len(got[c]) + Len(bytes)
        /\ ends' \in [Clients -> Seq(Nat)]
        /\ \A b \in Clients \ {c} : UNCHANGED <<buf[b], got[b], ends[b]>>
      BY <1>2, <1>6, <2>1, Returned
  <2>3. BytesOK'
      BY <1>2, <1>7, <2>2 DEF BytesOK
  <2>4. Unread[c]' = SubSeq(t, k + 1, Len(t)) \o r
    <3>1. Unread[c]' = (<<>> \o SubSeq(t, k + 1, Len(t))) \o r
        BY <1>2, <1>7, <2>2 DEF Unread
    <3>2. <<>> \o SubSeq(t, k + 1, Len(t)) = SubSeq(t, k + 1, Len(t))
        BY <1>6, ConcatEmptySeq
    <3> QED BY <3>1, <3>2
  <2>5. Unread[c]' = SubSeq(Unread[c], Len(s) + k + 1, Len(Unread[c]))
      BY <1>5, <2>4
  <2>6. Len(Unread[c]') = Len(Unread[c]) - (Len(s) + k)
    <3> DEFINE u == Unread[c]
               m == Len(s) + k
    <3>1. u \in Seq(Nat) /\ m \in 0..Len(u) /\ Unread[c]' = SubSeq(u, m + 1, Len(u))
        BY <1>4, <1>5, <2>5
    <3> HIDE DEF u, m
    <3>2. Len(Unread[c]') = Len(u) - m
        BY <3>1, Taken
    <3> QED BY <3>2 DEF u, m
  <2>7. NothingIsMissing(c)'
    <3>1. Len(got[c]) \in Nat /\ Len(Unread[c]) \in Nat
        BY <1>2, <1>4, LenProperties DEF BytesOK
    <3>2. Len(got'[c]) + Len(Unread[c]') = Len(got[c]) + Len(Unread[c])
      <4>1. Len(got'[c]) = Len(got[c]) + (Len(s) + k)
          BY <1>6, <2>2
      <4> DEFINE g == Len(got[c])
                 u == Len(Unread[c])
                 g1 == Len(got'[c])
                 u1 == Len(Unread[c]')
                 m == Len(s) + k
      <4>2. g \in Nat /\ u \in Nat /\ m \in Nat /\ g1 = g + m /\ u1 = u - m
          BY <1>3, <2>6, <3>1, <4>1
      <4> HIDE DEF g, u, g1, u1, m
      <4>3. g1 + u1 = g + u
          BY <4>2
      <4> QED BY <4>3 DEF g, u, g1, u1
    <3> QED BY <1>2, <3>2 DEF NothingIsMissing
  <2>8. Unfinished(c)' /\ InTime(c)'
    <3>1. Len(<<>>) = 0
        BY EmptySeq
    <3> QED BY <1>2, <1>3, <2>2, <3>1 DEF Unfinished, InTime
  <2>9. StreamInv' /\ Unread' = [Unread EXCEPT ![c] = Unread[c]']
      BY <1>2, <1>7, <2>2, <2>3, <2>7, <2>8, OneClient DEF Untouched
  <2>10. Promise!Take(c)
    <3>1. Len(s) + k \in 1..Len(Unread[c])
        BY <1>3, <1>5
    <3>2. Promise!EndsPiece(c, Len(s) + k)
      <4>1. Unread[c][Len(s) + k] = t[k]
          BY <1>3, <1>5
      <4>2. t[k] \in Newlines[c] \/ Len(s) + k = MaxLen - 1
          BY <1>9 DEF EndsLine
      <4> QED BY <1>8, <4>1, <4>2 DEF Promise!EndsPiece
    <3>3. got' = [got EXCEPT ![c] = @ \o SubSeq(Unread[c], 1, Len(s) + k)]
        BY <1>5, <2>1 DEF Return
    <3>4. Unread' = [Unread EXCEPT ![c] = SubSeq(@, Len(s) + k + 1, Len(@))]
        BY <2>5, <2>9 DEF Unread
    <3>5. ends' = [ends EXCEPT ![c] = Append(@, Len(got'[c]))]
        BY <2>1, <2>2 DEF Return
    <3> QED BY <1>2, <3>1, <3>2, <3>3, <3>4, <3>5 DEF Promise!Take
  <2> QED BY <2>9, <2>10 DEF Promise!Next
<1>10. CASE ~EndsLine(c, k)
  <2>1. /\ buf' = [buf EXCEPT ![c] = s \o SubSeq(t, 1, k)] /\ UNCHANGED <<rc, got, ends>>
        /\ k = Len(t)
      BY <1>1, <1>10
  <2>2. SubSeq(t, 1, k) = t /\ SubSeq(t, k + 1, Len(t)) = <<>>
      BY <1>2, <1>3, <2>1, SubSeqFull, SubSeqEmpty
  <2>3. /\ buf' \in [Clients -> Seq(Nat)] /\ buf'[c] = s \o t
        /\ \A b \in Clients \ {c} : buf'[b] = buf[b]
      BY <1>2, <1>6, <2>1, <2>2 DEF BytesOK
  <2>4. BytesOK'
      BY <1>2, <1>7, <2>1, <2>3 DEF BytesOK
  <2>5. Unread[c]' = Unread[c]
    <3>1. Unread[c]' = ((s \o t) \o <<>>) \o r
        BY <1>2, <1>7, <2>2, <2>3 DEF Unread
    <3>2. (s \o t) \o <<>> = s \o t
        BY <1>6, <2>2, ConcatEmptySeq
    <3>3. Unread[c] = (s \o t) \o r
        BY <1>2, UnreadIs DEF UnreadParts
    <3> QED BY <3>1, <3>2, <3>3
  <2>6. Unfinished(c)'
    <3>1. Len(s) + k < MaxLen - 1 /\ t[k] \notin Newlines[c]
      <4>1. t[k] \notin Newlines[c] /\ Len(s) + k # MaxLen - 1
          BY <1>10 DEF EndsLine
      <4>2. Len(s) + k <= MaxLen - 1
          BY <1>8
      <4> QED BY <1>3, <4>1, <4>2
    <3>2. \A j \in 1..Len(s) + k : (s \o t)[j] = Unread[c][j]
      <4>1. s \o t = SubSeq(Unread[c], 1, Len(s) + k)
          BY <1>5, <2>2
      <4> QED BY <1>4, <1>5, <4>1, Taken
    <3>3. Unread[c][Len(s) + k] = t[k]
        BY <1>3, <1>5
    <3>4. \A j \in 1..Len(s) + k : (s \o t)[j] \notin Newlines[c]
      <4>1. ASSUME NEW j \in 1..Len(s) + k
            PROVE  j = Len(s) + k \/ j \in 1..Len(s) + k - 1
          BY <1>3
      <4>2. \A j \in 1..Len(s) + k : Unread[c][j] \notin Newlines[c]
          BY <1>8, <3>1, <3>3, <4>1
      <4> QED BY <3>2, <4>2
    <3>5. Len(s \o t) = Len(s) + k
        BY <1>6, <2>2
    <3> QED BY <2>3, <3>1, <3>4, <3>5 DEF Unfinished
  <2>7. NothingIsMissing(c)' /\ InTime(c)'
      BY <1>2, <2>1, <2>5 DEF NothingIsMissing, InTime
  <2>8. StreamInv' /\ Unread' = [Unread EXCEPT ![c] = Unread[c]']
      BY <1>2, <1>7, <2>1, <2>3, <2>4, <2>6, <2>7, OneClient DEF Untouched
  <2>9. Unread' = Unread
      BY <2>5, <2>8 DEF Unread
  <2> QED BY <1>2, <2>1, <2>8, <2>9 DEF Promise!vars
<1> QED
    BY <1>9, <1>10

\* The end of the connection: what there is of a line is taken, as the rest.
LEMMA ReadEndStep ==
    ASSUME StreamInv, NEW c \in Clients, ReadEnd(c), worker[c] # "none",
           UNCHANGED <<worker, client>>
    PROVE  StreamInv' /\ [Promise!Next]_(Promise!vars)
<1> DEFINE s == buf[c]
<1>1. /\ rio_buf[c] = <<>> /\ stream[c] = <<>> /\ link[c] = "fin"
      /\ UNCHANGED <<link, written, stream, rio_buf>>
      /\ Return(c, s, IF s = <<>> THEN "eof" ELSE "line")
    BY DEF ReadEnd, writerVars
<1>2. BytesOK /\ Unfinished(c) /\ InTime(c) /\ s \in Seq(Nat) /\ link \in [Clients -> Links]
    BY DEF StreamInv, BytesOK
<1>3. /\ rc' \in [Clients -> {"pending", "line", "eof", "error"}]
      /\ buf' \in [Clients -> Seq(Nat)] /\ buf'[c] = <<>>
      /\ got' \in [Clients -> Seq(Nat)] /\ got'[c] = got[c] \o s
      /\ Len(got'[c]) = Len(got[c]) + Len(s)
      /\ ends' \in [Clients -> Seq(Nat)]
      /\ \A b \in Clients \ {c} : UNCHANGED <<buf[b], got[b], ends[b]>>
    BY <1>1, <1>2, Returned
<1>4. BytesOK'
    BY <1>1, <1>2, <1>3 DEF BytesOK
<1>5. Unread[c] = s /\ Unread[c]' = <<>>
  <2>1. s \o <<>> = s /\ <<>> \o <<>> = <<>>
      BY <1>2, ConcatEmptySeq, EmptySeq
  <2> QED BY <1>1, <1>3, <2>1 DEF Unread
<1>6. Unfinished(c)' /\ NothingIsMissing(c)' /\ InTime(c)'
  <2>1. Len(<<>>) = 0 /\ MaxLen \in Nat /\ MaxLen > 1
      BY EmptySeq, RioAssumption
  <2>2. Len(buf'[c]) < MaxLen - 1 /\ \A j \in 1..Len(buf'[c]) : FALSE
      BY <1>3, <2>1
  <2> QED BY <1>1, <1>2, <2>2 DEF Unfinished, NothingIsMissing, InTime
<1>7. StreamInv' /\ Unread' = [Unread EXCEPT ![c] = <<>>]
    BY <1>1, <1>3, <1>4, <1>5, <1>6, OneClient DEF Untouched
<1>8. CASE s = <<>>
  <2>1. got' = got
    <3>1. got' = [got EXCEPT ![c] = @ \o <<>>] /\ got \in [Clients -> Seq(Nat)]
        BY <1>1, <1>2, <1>8 DEF Return, BytesOK
    <3>2. got[c] \o <<>> = got[c]
        BY <3>1, ConcatEmptySeq
    <3> QED BY <3>1, <3>2
  <2>2. ends' = ends
      BY <1>1, <1>8 DEF Return
  <2>3. Unread' = Unread
      BY <1>5, <1>7, <1>8 DEF Unread
  <2> QED BY <1>1, <1>7, <2>1, <2>2, <2>3 DEF Promise!vars
<1>9. CASE s # <<>>
  <2>1. Return(c, s, "line")
      BY <1>1, <1>9
  <2>2. Len(s) \in 1..Len(Unread[c])
      BY <1>2, <1>5, <1>9, EmptySeq
  <2>3. Promise!IsRest(c, Len(s))
    <3>1. \A j \in 1..Len(s) : ~Promise!EndsPiece(c, j)
      <4>1. Len(s) < MaxLen - 1 /\ \A j \in 1..Len(s) : s[j] \notin Newlines[c]
          BY <1>2 DEF Unfinished
      <4>2. Len(s) \in Nat /\ MaxLen \in Nat
          BY <1>2, LenProperties, RioAssumption
      <4> HIDE DEF s
      <4>3. \A j \in 1..Len(s) : j # MaxLen - 1
          BY <4>1, <4>2
      <4> QED BY <1>5, <4>1, <4>3 DEF Promise!EndsPiece
    <3>2. link[c] \notin {"none", "up"}
        BY <1>1
    <3> QED BY <1>5, <3>1, <3>2 DEF Promise!IsRest
  <2>4. got' = [got EXCEPT ![c] = @ \o SubSeq(Unread[c], 1, Len(s))]
    <3>1. SubSeq(s, 1, Len(s)) = s
        BY <1>2, SubSeqFull
    <3> QED BY <1>5, <2>1, <3>1 DEF Return
  <2>5. Unread' = [Unread EXCEPT ![c] = SubSeq(@, Len(s) + 1, Len(@))]
    <3>1. SubSeq(s, Len(s) + 1, Len(s)) = <<>>
        BY <1>2, LenProperties, SubSeqEmpty
    <3> QED BY <1>5, <1>7, <3>1 DEF Unread
  <2>6. ends' = [ends EXCEPT ![c] = Append(@, Len(got'[c]))]
      BY <1>3, <2>1 DEF Return
  <2>7. Promise!Take(c)
      BY <1>1, <2>2, <2>3, <2>4, <2>5, <2>6 DEF Promise!Take
  <2> QED BY <1>7, <2>7 DEF Promise!Next
<1> QED
    BY <1>8, <1>9

\* A broken connection: what there is of a line is lost.
LEMMA ReadFailsStep ==
    ASSUME StreamInv, NEW c \in Clients, ReadFails(c), worker[c] # "none",
           UNCHANGED <<worker, client>>
    PROVE  StreamInv' /\ Promise!Close(c)
<1>1. /\ rio_buf[c] = <<>> /\ stream[c] = <<>> /\ link[c] = "broken"
      /\ UNCHANGED <<link, written, stream, rio_buf>>
      /\ Return(c, <<>>, "error")
    BY DEF ReadFails, writerVars
<1>2. BytesOK /\ Unfinished(c) /\ InTime(c) /\ <<>> \in Seq(Nat)
    BY EmptySeq DEF StreamInv
<1>3. /\ rc' \in [Clients -> {"pending", "line", "eof", "error"}]
      /\ buf' \in [Clients -> Seq(Nat)] /\ buf'[c] = <<>>
      /\ got' \in [Clients -> Seq(Nat)]
      /\ ends' \in [Clients -> Seq(Nat)]
      /\ \A b \in Clients \ {c} : UNCHANGED <<buf[b], got[b], ends[b]>>
    BY <1>1, <1>2, Returned
<1>4. BytesOK'
    BY <1>1, <1>2, <1>3 DEF BytesOK
<1>5. Unread[c]' = <<>> /\ Unread[c] \in Seq(Nat)
  <2>1. <<>> \o <<>> = <<>>
      BY <1>2, ConcatEmptySeq
  <2> QED BY <1>1, <1>2, <1>3, <2>1, UnreadIs DEF Unread, UnreadParts
<1>6. Unfinished(c)' /\ NothingIsMissing(c)' /\ InTime(c)'
  <2>1. Len(<<>>) = 0 /\ MaxLen \in Nat /\ MaxLen > 1
      BY EmptySeq, RioAssumption
  <2>2. Len(buf'[c]) < MaxLen - 1 /\ \A j \in 1..Len(buf'[c]) : FALSE
      BY <1>3, <2>1
  <2> QED BY <1>1, <1>2, <2>2 DEF Unfinished, NothingIsMissing, InTime
<1>7. StreamInv' /\ Unread' = [Unread EXCEPT ![c] = <<>>]
    BY <1>1, <1>3, <1>4, <1>5, <1>6, OneClient DEF Untouched
<1>8. got' = got /\ ends' = ends
  <2>1. /\ got' = [got EXCEPT ![c] = @ \o <<>>] /\ got \in [Clients -> Seq(Nat)]
        /\ ends' = ends
      BY <1>1, <1>2 DEF Return, BytesOK
  <2>2. got[c] \o <<>> = got[c]
      BY <2>1, ConcatEmptySeq
  <2> QED BY <2>1, <2>2
<1>9. \E k \in 0..Len(Unread[c]) : Unread' = [Unread EXCEPT ![c] = SubSeq(@, 1, k)]
  <2>1. 0 \in 0..Len(Unread[c]) /\ SubSeq(Unread[c], 1, 0) = <<>>
      BY <1>5, LenProperties, SubSeqEmpty
  <2>2. Unread' = [Unread EXCEPT ![c] = SubSeq(@, 1, 0)]
      BY <1>7, <2>1
  <2> QED BY <2>1, <2>2
<1> QED
    BY <1>1, <1>7, <1>8, <1>9 DEF Promise!Close
-----------------------------------------------------------------------------
(* What the rest of the server and the client do to the bytes *)

\* Steps that leave the bytes where they are.
LEMMA BytesStay ==
    ASSUME StreamInv, UNCHANGED <<link, written, stream, rio_buf, buf, got, ends>>,
           rc' \in [Clients -> {"pending", "line", "eof", "error"}],
           \A c \in Clients :
              /\ client'[c] \in Connecting => client[c] \in Connecting
              /\ worker'[c] = "none" => worker[c] = "none"
              /\ client'[c] = "writing" =>
                     client[c] = "writing" \/ \E n \in Newlines[c] : n > written[c]
    PROVE  StreamInv' /\ UNCHANGED Promise!vars
<1>1. BytesOK'
    BY DEF StreamInv, BytesOK
<1>2. Unread' = Unread
    BY DEF Unread
<1>3. ASSUME NEW c \in Clients
      PROVE  Unfinished(c)' /\ NothingIsMissing(c)' /\ InTime(c)'
  <2>1. Unfinished(c) /\ NothingIsMissing(c) /\ InTime(c)
      BY DEF StreamInv
  <2>2. InTime(c)'
      BY <2>1 DEF InTime
  <2> QED BY <1>2, <2>1, <2>2 DEF Unfinished, NothingIsMissing
<1> QED
    BY <1>1, <1>2, <1>3 DEF StreamInv, Promise!vars

\* Steps that end a connection, in which some of what is in the kernel may be lost.
LEMMA CloseStep ==
    ASSUME StreamInv, NEW c \in Clients, NEW how \in {"fin", "broken", "shut"},
           NEW m \in 0..Len(stream[c]),
           link' = [link EXCEPT ![c] = how],
           stream' = [stream EXCEPT ![c] = SubSeq(@, 1, m)],
           UNCHANGED <<written, rio_buf, buf, rc, got, ends>>,
           client'[c] \notin Connecting, client'[c] # "writing" \/ client'[c] = client[c],
           worker'[c] = "none" => worker[c] = "none",
           \A b \in Clients \ {c} : UNCHANGED <<worker[b], client[b]>>
    PROVE  StreamInv' /\ Promise!Close(c)
<1> DEFINE s == buf[c] \o rio_buf[c]
           r == stream[c]
<1>1. /\ BytesOK /\ Unfinished(c) /\ InTime(c)
      /\ buf[c] \in Seq(Nat) /\ rio_buf[c] \in Seq(Nat) /\ r \in Seq(Nat)
    BY DEF StreamInv, BytesOK
<1>2. s \in Seq(Nat) /\ Len(s) \in Nat /\ Len(r) \in Nat /\ m \in Nat
  <2>1. s \in Seq(Nat)
      BY <1>1, ConcatProperties
  <2>2. Len(s) \in Nat
      BY <2>1, LenProperties
  <2>3. Len(r) \in Nat
      BY <1>1, LenProperties
  <2>4. m \in Nat
      BY <2>3
  <2> QED BY <2>1, <2>2, <2>3, <2>4
<1>3. SubSeq(r, 1, m) \in Seq(Nat)
    BY <1>1, Taken
<1>4. BytesOK'
    BY <1>1, <1>3 DEF BytesOK, Links
<1>5. /\ link'[c] = how /\ stream'[c] = SubSeq(r, 1, m)
      /\ \A b \in Clients \ {c} : link'[b] = link[b] /\ stream'[b] = stream[b]
    BY <1>1 DEF BytesOK
<1>6. Unfinished(c)' /\ NothingIsMissing(c)' /\ InTime(c)'
    BY <1>1, <1>5 DEF Unfinished, NothingIsMissing, InTime
<1>7. StreamInv' /\ Unread' = [Unread EXCEPT ![c] = Unread[c]']
    BY <1>4, <1>5, <1>6, OneClient DEF Untouched
<1>8. Unread[c] = s \o r /\ Unread[c]' = s \o SubSeq(r, 1, m)
    BY <1>5 DEF Unread
<1>9. Len(s) + m \in 0..Len(Unread[c]) /\ Unread[c]' = SubSeq(Unread[c], 1, Len(s) + m)
  <2> HIDE DEF s, r
  <2>1. SubSeq(s \o r, 1, Len(s) + m) = s \o SubSeq(r, 1, m)
    <3>1. s \in Seq(Nat) /\ r \in Seq(Nat) /\ m \in 0..Len(r)
        BY <1>1, <1>2 DEF r
    <3> QED BY <3>1, Cut
  <2>2. Len(s \o r) = Len(s) + Len(r)
      BY <1>1, <1>2, ConcatProperties
  <2>3. m <= Len(r)
      BY DEF r
  <2> QED BY <1>2, <1>8, <2>1, <2>2, <2>3
<1>10. Unread' = [Unread EXCEPT ![c] = SubSeq(@, 1, Len(s) + m)]
    BY <1>7, <1>9
<1>11. [b \in Clients |-> link'[b] \notin {"none", "up"}]
         = [[b \in Clients |-> link[b] \notin {"none", "up"}] EXCEPT ![c] = TRUE]
  <2>1. link'[c] \notin {"none", "up"}
      BY <1>5
  <2> QED BY <1>5, <2>1
<1> QED
    BY <1>7, <1>9, <1>10, <1>11 DEF Promise!Close

\* The end of the process ends every connection.
LEMMA ExitStep ==
    ASSUME StreamInv, NEW how, Exit(how),
           UNCHANGED <<written, stream, rio_buf, buf, rc, got, ends, worker, client>>
    PROVE  StreamInv' /\ Promise!CloseAll
<1>1. link \in [Clients -> Links] /\ BytesOK
    BY DEF StreamInv, BytesOK
<1>2. /\ link' = [c \in Clients |-> IF link[c] \in {"up", "fin"} THEN "shut" ELSE link[c]]
      /\ link' \in [Clients -> Links]
    BY <1>1 DEF Exit, Links
<1>3. BytesOK' /\ Unread' = Unread
    BY <1>1, <1>2 DEF BytesOK, Unread
<1>4. ASSUME NEW c \in Clients
      PROVE  Unfinished(c)' /\ NothingIsMissing(c)' /\ InTime(c)'
  <2>1. Unfinished(c) /\ NothingIsMissing(c) /\ InTime(c)
      BY DEF StreamInv
  <2>2. link'[c] = IF link[c] \in {"up", "fin"} THEN "shut" ELSE link[c]
      BY <1>2
  <2> QED BY <1>3, <2>1, <2>2 DEF Unfinished, NothingIsMissing, InTime
<1>5. \E gone \in SUBSET Clients :
          [c \in Clients |-> link'[c] \notin {"none", "up"}]
            = [c \in Clients |-> [b \in Clients |-> link[b] \notin {"none", "up"}][c] \/ c \in gone]
  <2> DEFINE gone == {c \in Clients : link[c] = "up"}
  <2>1. \A c \in Clients : (link'[c] \notin {"none", "up"})
                               = (link[c] \notin {"none", "up"} \/ c \in gone)
      BY <1>1, <1>2 DEF Links
  <2>2. gone \in SUBSET Clients
      OBVIOUS
  <2> HIDE DEF gone
  <2> QED BY <2>1, <2>2
<1> QED
    BY <1>3, <1>4, <1>5 DEF StreamInv, Promise!CloseAll

\* A message under way has an end, which is the next newline.
LEMMA MessageEndIs ==
    ASSUME NEW c \in Clients, written[c] \in Nat,
           \E n \in Newlines[c] : n > written[c]
    PROVE  /\ MessageEnd(c) \in Newlines[c] /\ MessageEnd(c) > written[c]
           /\ Newlines[c] \subseteq Nat
<1> DEFINE ahead == {n \in Newlines[c] : n > written[c]}
           Before == {ss \in Nat \X Nat : ss[1] < ss[2]}
<1>1. Newlines[c] \subseteq Nat
    BY RioAssumption
<1>2. ahead \subseteq Nat /\ ahead # {}
    BY <1>1
<1>3. IsWellFoundedOn(Before, Nat)
    BY NatLessThanWellFounded DEF OpToRel
<1>4. PICK n \in ahead : \A m \in ahead : <<m, n>> \notin Before
  <2> HIDE DEF ahead, Before
  <2> QED BY <1>2, <1>3, WFMin
<1>5. ASSUME NEW m \in ahead PROVE n <= m
  <2>1. m \in Nat /\ n \in Nat /\ <<m, n>> \notin Before
      BY <1>2, <1>4
  <2>2. ~(m < n)
      BY <2>1, Zenon
  <2> QED BY <2>1, <2>2
<1>6. \E k \in Newlines[c] :
          k > written[c] /\ \A m \in Newlines[c] : m > written[c] => k <= m
    BY <1>5
<1> QED
    BY <1>1, <1>6 DEF MessageEnd

\* write takes bytes of a message: they are put after all that was written.
LEMMA WriteStep ==
    ASSUME TypeOK, StreamInv, NEW c \in Clients, WriteSome(c)
    PROVE  StreamInv' /\ Promise!Put(c)
<1>1. /\ client[c] = "writing" /\ link[c] = "up" /\ Write(c)
      /\ UNCHANGED <<link, worker, rio_buf, buf, rc, got, ends>>
    BY DEF WriteSome, SendFrame, serverVars, readerVars
<1>2. /\ BytesOK /\ Unfinished(c) /\ NothingIsMissing(c) /\ InTime(c)
      /\ written[c] \in Nat /\ stream[c] \in Seq(Nat)
    BY DEF StreamInv, BytesOK
<1>3. /\ MessageEnd(c) \in Newlines[c] /\ MessageEnd(c) > written[c]
      /\ Newlines[c] \subseteq Nat
    BY <1>1, <1>2, MessageEndIs DEF InTime
<1>4. PICK n \in written[c] + 1 .. MessageEnd(c) :
          /\ stream' = [stream EXCEPT ![c] = @ \o Count(written[c], n)]
          /\ written' = [written EXCEPT ![c] = n]
    BY <1>1 DEF Write
<1> DEFINE new == Count(written[c], n)
<1>5. new \in Seq(Nat) /\ Len(new) = n - written[c] /\ n \in Nat /\ n > written[c]
  <2>1. n \in Nat /\ n - written[c] \in Nat /\ n > written[c]
      BY <1>2, <1>3, <1>4
  <2>2. new \in [1..n - written[c] -> Nat]
      BY <1>2, <2>1 DEF Count
  <2>3. new \in Seq(Nat)
      BY <2>1, <2>2, SeqDef
  <2>4. 1..Len(new) = 1..n - written[c] /\ Len(new) \in Nat
      BY <2>2, <2>3, LenProperties
  <2>5. Len(new) = n - written[c]
    <3>1. \A x, y \in Nat : 1..x = 1..y => x = y
      <4> SUFFICES ASSUME NEW x \in Nat, NEW y \in Nat, 1..x = 1..y PROVE x = y
          OBVIOUS
      <4>1. (x \in 1..x => x <= y) /\ (y \in 1..y => y <= x)
          OBVIOUS
      <4>2. x = 0 => y = 0
          OBVIOUS
      <4> QED BY <4>1, <4>2
    <3> QED BY <2>1, <2>4, <3>1
  <2> QED BY <2>1, <2>3, <2>5
<1> HIDE DEF new
<1>6. /\ stream'[c] = stream[c] \o new /\ written'[c] = n
      /\ stream[c] \o new \in Seq(Nat)
      /\ \A b \in Clients \ {c} : stream'[b] = stream[b] /\ written'[b] = written[b]
  <2>1. stream[c] \o new \in Seq(Nat)
      BY <1>2, <1>5, ConcatProperties
  <2> QED BY <1>2, <1>4, <2>1 DEF BytesOK, new
<1>7. BytesOK'
    BY <1>1, <1>2, <1>4, <1>5, <1>6 DEF BytesOK, new
<1>8. Unread[c]' = Unread[c] \o new /\ Len(Unread[c]') = Len(Unread[c]) + Len(new)
  <2> DEFINE s == buf[c] \o rio_buf[c]
             r == stream[c]
  <2>1. s \in Seq(Nat) /\ r \in Seq(Nat)
      BY <1>2, ConcatProperties DEF BytesOK
  <2>2. Unread[c]' = s \o (r \o new) /\ Unread[c] = s \o r
      BY <1>1, <1>6 DEF Unread
  <2> HIDE DEF s, r
  <2>3. (s \o r) \o new = s \o (r \o new)
    <3>1. s \in Seq(Nat) /\ r \in Seq(Nat) /\ new \in Seq(Nat)
        BY <1>5, <2>1
    <3> QED BY <3>1, Reassociate, Zenon
  <2>4. s \o r \in Seq(Nat)
      BY <2>1, ConcatProperties
  <2>5. Len((s \o r) \o new) = Len(s \o r) + Len(new)
      BY <1>5, <2>4, ConcatProperties
  <2> QED BY <2>2, <2>3, <2>5
<1>9. written[c] = Len(got[c]) + Len(Unread[c])
    BY <1>1, <1>2 DEF NothingIsMissing
<1>10. NothingIsMissing(c)'
  <2>1. Len(got[c]) \in Nat /\ Len(Unread[c]) \in Nat
      BY <1>2, UnreadIs, LenProperties DEF BytesOK, UnreadParts
  <2>2. n = Len(got[c]) + Len(Unread[c]')
      BY <1>5, <1>8, <1>9, <2>1
  <2> QED BY <1>1, <1>6, <2>2 DEF NothingIsMissing
<1>11. Unfinished(c)' /\ InTime(c)' /\ \A b \in Clients \ {c} : client'[b] = client[b]
  <2>1. CASE n \in Newlines[c]
    <3>1. client' = [client EXCEPT ![c] = "connected"]
        BY <1>6, <2>1 DEF WriteSome, Goto
    <3>2. client'[c] \notin Connecting /\ client'[c] # "writing"
        BY <1>1, <3>1 DEF TypeOK, Connecting
    <3> QED BY <1>1, <1>2, <3>1, <3>2 DEF Unfinished, InTime
  <2>2. CASE n \notin Newlines[c]
    <3>1. client' = client
        BY <1>6, <2>2 DEF WriteSome
    <3>2. MessageEnd(c) > n
        BY <1>2, <1>3, <1>4, <2>2
    <3> QED BY <1>1, <1>2, <1>3, <1>6, <3>1, <3>2 DEF Unfinished, InTime
  <2> QED BY <2>1, <2>2
<1>12. StreamInv' /\ Unread' = [Unread EXCEPT ![c] = Unread[c]']
    BY <1>1, <1>6, <1>7, <1>10, <1>11, OneClient DEF Untouched
<1>13. Unread' = [Unread EXCEPT ![c] = @ \o Promise!Count(Len(got[c]) + Len(Unread[c]), n)]
  <2>1. new = Promise!Count(written[c], n)
      BY DEF new, Count, Promise!Count
  <2> QED BY <1>8, <1>9, <1>12, <2>1
<1>14. n \in UNION {Len(got[c]) + Len(Unread[c]) + 1 .. newline : newline \in Newlines[c]}
    BY <1>3, <1>4, <1>9
<1> QED
    BY <1>1, <1>12, <1>13, <1>14 DEF Promise!Put
-----------------------------------------------------------------------------
(* Every step *)

\* ~Connection closes the connection it is for, and no other.
LEMMA DeleteStep ==
    ASSUME DescriptorInv, StreamInv, NEW c \in Clients, NEW next, Delete(c, next),
           worker[c] = "running" \/ Created(c),
           UNCHANGED <<written, rio_buf, buf, rc, got, ends, client>>,
           worker'[c] = "none" => worker[c] = "none",
           \A b \in Clients \ {c} : worker'[b] = worker[b]
    PROVE  StreamInv' /\ Promise!Close(c)
<1> DEFINE d == m_fd[c]
<1>1. d \in Descriptors /\ d # Nobody
  <2>1. m_fd[c] # Nobody
      BY DEF DescriptorInv, DescriptorsMatch
  <2>2. m_fd[c] \in Descriptors \union {Nobody}
      BY DEF DescriptorInv, TypeOK
  <2> QED BY <2>1, <2>2
<1>2. fds[d] = c /\ fds[d] # Nobody
  <2>1. fds[d] = c <=> m_fd[c] = d
      BY <1>1 DEF DescriptorInv, DescriptorsMatch
  <2> QED BY <2>1, Owners
<1>3. Closed(d)
    BY <1>2 DEF Delete
<1>4. BytesOK /\ stream[c] \in Seq(Nat)
    BY DEF StreamInv, BytesOK
<1>5. link' = [link EXCEPT ![c] = "shut"]
    BY <1>2, <1>3, <1>4 DEF Closed, BytesOK
<1>6. stream' = [stream EXCEPT ![c] = SubSeq(@, 1, 0)] /\ 0 \in 0..Len(stream[c])
  <2>1. SubSeq(stream[c], 1, 0) = <<>> /\ Len(stream[c]) \in Nat
      BY <1>4, SubSeqEmpty, LenProperties
  <2>2. stream' = [b \in Clients |-> IF b = c THEN <<>> ELSE stream[b]]
      BY <1>2, <1>3 DEF Closed
  <2>3. stream \in [Clients -> Seq(Nat)]
      BY <1>4 DEF BytesOK
  <2>4. stream' = [stream EXCEPT ![c] = <<>>]
      BY <2>2, <2>3
  <2>5. 0 \in 0..Len(stream[c])
      BY <2>1
  <2> QED BY <2>1, <2>4, <2>5
<1>7. client[c] \notin Connecting
    BY <1>1 DEF DescriptorInv, ConnectsOnce, Unaccepted
<1> HIDE DEF d
<1> QED
    BY <1>5, <1>6, <1>7, CloseStep

LEMMA WorkReads ==
    ASSUME DescriptorInv, StreamInv, NEW c \in Clients, Work(c)
    PROVE  StreamInv' /\ [Promise!Next]_(Promise!vars)
<1>1. worker[c] = "running" /\ UNCHANGED client
    BY DEF Work, clientVars
<1>2. CASE ReadLine(c) /\ UNCHANGED serverVars
  <2>1. UNCHANGED <<worker, client>>
      BY <1>1, <1>2 DEF serverVars
  <2>2. CASE Refill(c)
      BY <1>1, <2>1, <2>2, RefillStep
  <2>3. CASE CopyBytes(c)
      BY <1>1, <2>1, <2>3, CopyBytesStep
  <2>4. CASE ReadEnd(c)
      BY <1>1, <2>1, <2>4, ReadEndStep
  <2>5. CASE ReadFails(c)
      BY <1>1, <2>1, <2>5, ReadFailsStep DEF Promise!Next
  <2> QED BY <1>2, <2>2, <2>3, <2>4, <2>5 DEF ReadLine
<1>3. CASE Receive(c)
  <2>1. UNCHANGED <<link, written, stream, rio_buf, buf, got, ends, worker, client>>
      BY <1>1, <1>3 DEF Receive, ReceiveNext, serverVars, writerVars
  <2>2. rc' \in [Clients -> {"pending", "line", "eof", "error"}]
      BY <1>3 DEF Receive, ReceiveNext, StreamInv, BytesOK
  <2> QED BY <2>1, <2>2, BytesStay
<1>4. CASE Finish(c)
  <2>1. /\ Delete(c, server)
        /\ UNCHANGED <<written, rio_buf, buf, rc, got, ends, client>>
      BY <1>1, <1>4 DEF Finish, readerVars
  <2>2. worker'[c] = "ended" /\ \A b \in Clients \ {c} : worker'[b] = worker[b]
      BY <1>4 DEF Finish, DescriptorInv, TypeOK
  <2>3. StreamInv' /\ Promise!Close(c)
      BY <1>1, <2>1, <2>2, DeleteStep
  <2> QED BY <2>3 DEF Promise!Next
<1> QED
    BY <1>2, <1>3, <1>4 DEF Work

\* A connection that is made has neither bytes nor an end.
LEMMA ConnectedStep ==
    ASSUME TypeOK, StreamInv, NEW c \in Clients, client[c] = "connect",
           link' = [link EXCEPT ![c] = "up"], Goto(c, "connected"),
           UNCHANGED <<written, stream, rio_buf, buf, rc, got, ends, worker>>
    PROVE  StreamInv' /\ UNCHANGED Promise!vars
<1>1. BytesOK /\ Unfinished(c) /\ NothingIsMissing(c) /\ InTime(c) /\ link[c] = "none"
    BY DEF StreamInv, InTime, Connecting
<1>2. BytesOK' /\ Unread' = Unread
    BY <1>1 DEF BytesOK, Links, Unread
<1>3. /\ link'[c] = "up" /\ client'[c] = "connected"
      /\ \A b \in Clients \ {c} : link'[b] = link[b] /\ client'[b] = client[b]
    BY <1>1 DEF BytesOK, TypeOK, Goto
<1>4. Unfinished(c)' /\ NothingIsMissing(c)' /\ InTime(c)'
  <2>1. client'[c] \notin Connecting /\ client'[c] # "writing"
      BY <1>3 DEF Connecting
  <2> QED BY <1>1, <1>2, <2>1 DEF Unfinished, NothingIsMissing, InTime
<1>5. StreamInv'
    BY <1>2, <1>3, <1>4, OneClient DEF Untouched
<1>6. [b \in Clients |-> link'[b] \notin {"none", "up"}]
        = [b \in Clients |-> link[b] \notin {"none", "up"}]
    BY <1>1, <1>3
<1> QED
    BY <1>2, <1>5, <1>6 DEF Promise!vars

LEMMA ActWrites ==
    ASSUME TypeOK, StreamInv, NEW c \in Clients, Act(c)
    PROVE  StreamInv' /\ [Promise!Next]_(Promise!vars)
<1>1. /\ client \in [Clients -> Connecting \union {"connected", "writing", "ended"}]
      /\ BytesOK /\ rc \in [Clients -> {"pending", "line", "eof", "error"}]
      /\ link[c] \in Links /\ InTime(c)
    BY DEF TypeOK, StreamInv, BytesOK
\* What a client does before it is connected, or to itself.
<1>2. ASSUME NEW label, Goto(c, label), UNCHANGED <<rioVars, worker>>,
             label \in Connecting => client[c] \in Connecting,
             label = "writing" => \E n \in Newlines[c] : n > written[c]
      PROVE  StreamInv' /\ [Promise!Next]_(Promise!vars)
  <2>1. client' = [client EXCEPT ![c] = label]
      BY <1>2 DEF Goto
  <2>2. \A b \in Clients :
            /\ client'[b] \in Connecting => client[b] \in Connecting
            /\ client'[b] = "writing" =>
                   client[b] = "writing" \/ \E n \in Newlines[b] : n > written[b]
      BY <1>1, <1>2, <2>1
  <2>3. /\ UNCHANGED <<link, written, stream, rio_buf, buf, rc, got, ends>>
        /\ worker' = worker
      BY <1>2 DEF rioVars, writerVars, readerVars
  <2> QED BY <1>1, <2>2, <2>3, BytesStay
<1>3. CASE ClientResolve(c) \/ ClientSocket(c) \/ AllConnectsFailed(c)
  <2>1. UNCHANGED <<rioVars, worker>>
      BY <1>3 DEF ClientResolve, ClientSocket, AllConnectsFailed, ConnectFrame, rioVars,
                  writerVars, readerVars
  <2>2. client[c] \in Connecting /\ \E label \in Connecting : Goto(c, label)
      BY <1>3 DEF ClientResolve, ClientSocket, AllConnectsFailed, NextAddress, Connecting
  <2>3. "writing" \notin Connecting
      BY DEF Connecting
  <2> QED BY <1>2, <2>1, <2>2, <2>3
<1>4. CASE Connect(c)
  <2>1. /\ client[c] = "connect"
        /\ UNCHANGED <<written, stream, rio_buf, buf, rc, got, ends, worker>>
      BY <1>4 DEF Connect, ConnectFrame, readerVars
  <2>2. CASE link' = [link EXCEPT ![c] = "up"] /\ Goto(c, "connected")
      BY <2>1, <2>2, ConnectedStep
  <2>3. CASE NextAddress(c) /\ UNCHANGED link
    <3>1. Goto(c, "socket") /\ "socket" # "writing" /\ client[c] \in Connecting
        BY <2>1, <2>3 DEF NextAddress, Connecting
    <3>2. UNCHANGED <<rioVars, worker>>
        BY <2>1, <2>3 DEF rioVars, writerVars, readerVars
    <3> QED BY <1>2, <3>1, <3>2
  <2> QED BY <1>4, <2>2, <2>3 DEF Connect
<1>5. CASE Send(c) \/ WriteFails(c)
  <2>1. UNCHANGED <<rioVars, worker>>
      BY <1>5 DEF Send, WriteFails, SendFrame, serverVars, rioVars
  <2>2. CASE Send(c)
    <3>1. "writing" \notin Connecting
        BY DEF Connecting
    <3> QED BY <1>2, <2>1, <2>2, <3>1 DEF Send
  <2>3. CASE WriteFails(c)
    <3>1. PICK label \in {"connected", "ended"} : Goto(c, label)
        BY <2>3 DEF WriteFails
    <3>2. label \notin Connecting /\ label # "writing"
        BY DEF Connecting
    <3> QED BY <1>2, <2>1, <3>1, <3>2
  <2> QED BY <1>5, <2>2, <2>3
<1>6. CASE WriteSome(c)
    BY <1>6, WriteStep DEF Promise!Next
<1>7. CASE End(c)
  <2>1. /\ UNCHANGED <<written, stream, rio_buf, buf, rc, got, ends, worker>>
        /\ Goto(c, "ended")
        /\ link' = [link EXCEPT ![c] = IF @ = "up" THEN "fin" ELSE @]
      BY <1>7 DEF End, SendFrame, serverVars, readerVars
  <2>2. /\ client'[c] = "ended" /\ client'[c] \notin Connecting
        /\ \A b \in Clients \ {c} : client'[b] = client[b]
      BY <1>1, <2>1 DEF Goto, Connecting
  <2>3. CASE link[c] = "up"
    <3>1. link' = [link EXCEPT ![c] = "fin"]
        BY <2>1, <2>3
    <3>2. Len(stream[c]) \in 0..Len(stream[c])
        BY <1>1, LenProperties DEF BytesOK
    <3>3. stream' = [stream EXCEPT ![c] = SubSeq(@, 1, Len(stream[c]))]
      <4>1. SubSeq(stream[c], 1, Len(stream[c])) = stream[c]
          BY <1>1, SubSeqFull DEF BytesOK
      <4> QED BY <1>1, <2>1, <4>1 DEF BytesOK
    <3>4. StreamInv' /\ Promise!Close(c)
        BY <2>1, <2>2, <3>1, <3>2, <3>3, CloseStep
    <3> QED BY <3>4 DEF Promise!Next
  <2>4. CASE link[c] # "up"
    <3>1. link' = link
        BY <1>1, <2>1, <2>4 DEF BytesOK
    <3>2. UNCHANGED <<rioVars, worker>>
        BY <2>1, <3>1 DEF rioVars, writerVars, readerVars
    <3>3. "ended" \notin Connecting /\ "ended" # "writing"
        BY DEF Connecting
    <3> QED BY <1>2, <2>1, <3>2, <3>3
  <2> QED BY <2>3, <2>4
<1>8. CASE Break(c)
  <2>1. /\ UNCHANGED <<written, rio_buf, buf, rc, got, ends, worker, client>>
        /\ link[c] \in {"up", "fin"} /\ link' = [link EXCEPT ![c] = "broken"]
      BY <1>8 DEF Break, SendFrame, serverVars, readerVars
  <2>2. PICK m \in 0..Len(stream[c]) : stream' = [stream EXCEPT ![c] = SubSeq(@, 1, m)]
      BY <1>8 DEF Break
  <2>3. client[c] \notin Connecting
      BY <1>1, <2>1 DEF InTime
  <2>4. StreamInv' /\ Promise!Close(c)
      BY <2>1, <2>2, <2>3, CloseStep
  <2> QED BY <2>4 DEF Promise!Next
<1> QED
    BY <1>3, <1>4, <1>5, <1>6, <1>7, <1>8 DEF Act

LEMMA MainKeeps ==
    ASSUME DescriptorInv, StreamInv, Main
    PROVE  StreamInv' /\ [Promise!Next]_(Promise!vars)
<1>1. /\ BytesOK /\ rc \in [Clients -> {"pending", "line", "eof", "error"}]
      /\ worker \in [Clients -> {"none", "running", "ended"}]
    BY DEF StreamInv, BytesOK, DescriptorInv, TypeOK
<1>2. CASE UNCHANGED <<link, written, stream, rio_buf, buf, rc, got, ends, client>>
           /\ \A c \in Clients : worker'[c] = "none" => worker[c] = "none"
    BY <1>1, <1>2, BytesStay
<1>3. CASE ServerResolve \/ ServerSocket \/ NoAddressLeft \/ Bind \/ Listen
  <2>1. OpenFrame
      BY <1>3 DEF ServerResolve, ServerSocket, NoAddressLeft, Bind, Listen
  <2> QED BY <1>2, <2>1 DEF OpenFrame, rioVars, clientVars, writerVars, readerVars
<1>4. CASE Accept
  <2> DEFINE c == Head(backlog)
  <2>1. /\ backlog \in Seq(Clients) /\ backlog # <<>>
        /\ rio_buf' = [rio_buf EXCEPT ![c] = <<>>]
        /\ UNCHANGED <<link, written, stream, buf, rc, got, ends, client, worker>>
      BY <1>4 DEF Accept, AcceptFrame, InitBuffer, clientVars, DescriptorInv, TypeOK
  <2>2. c \in Clients /\ 1 \in 1..Len(backlog) /\ c = backlog[1]
      BY <2>1, HeadTailProperties, EmptySeq
  <2>3. rio_buf[c] = <<>>
      BY <2>2 DEF DescriptorInv, BacklogIsUnaccepted, Unaccepted, StreamInv, InTime
  <2>4. rio_buf' = rio_buf
      BY <1>1, <2>1, <2>2, <2>3 DEF BytesOK
  <2> QED BY <1>2, <2>1, <2>4
<1>5. CASE AcceptFails
  <2>1. /\ Exit("accept error")
        /\ UNCHANGED <<written, stream, rio_buf, buf, rc, got, ends, worker, client>>
      BY <1>5 DEF AcceptFails, AcceptFrame, clientVars
  <2>2. StreamInv' /\ Promise!CloseAll
      BY <2>1, ExitStep
  <2> QED BY <2>2 DEF Promise!Next
<1>6. CASE StartWorker
  <2>1. PICK c \in Clients :
            /\ Created(c)
            /\ Start(c) \/ (Delete(c, "close again") /\ UNCHANGED worker)
      BY <1>6 DEF StartWorker
  <2>2. UNCHANGED <<written, rio_buf, buf, rc, got, ends, client>>
      BY <1>6 DEF StartWorker, AcceptFrame, clientVars
  <2>3. CASE Start(c)
    <3>1. UNCHANGED <<link, stream>> /\ worker' = [worker EXCEPT ![c] = "running"]
        BY <2>3 DEF Start
    <3> QED BY <1>1, <1>2, <2>2, <3>1
  <2>4. CASE Delete(c, "close again") /\ UNCHANGED worker
    <3>1. StreamInv' /\ Promise!Close(c)
        BY <2>1, <2>2, <2>4, DeleteStep
    <3> QED BY <3>1 DEF Promise!Next
  <2> QED BY <2>1, <2>3, <2>4
<1>7. CASE CloseAgain
  <2>1. fds[client_fd] = Nobody
      BY <1>7 DEF CloseAgain, DescriptorInv, HandIsOwn
  <2>2. UNCHANGED <<link, stream, worker>>
      BY <1>7, <2>1 DEF CloseAgain
  <2>3. UNCHANGED <<written, rio_buf, buf, rc, got, ends, client>>
      BY <1>7 DEF CloseAgain, AcceptFrame, clientVars
  <2> QED BY <1>2, <2>2, <2>3
<1> QED
    BY <1>3, <1>4, <1>5, <1>6, <1>7 DEF Main

LEMMA StreamStep ==
    DescriptorInv /\ StreamInv /\ [Next]_vars =>
        StreamInv' /\ [Promise!Next]_(Promise!vars)
<1> SUFFICES ASSUME DescriptorInv, StreamInv, [Next]_vars
             PROVE  StreamInv' /\ [Promise!Next]_(Promise!vars)
    OBVIOUS
<1>1. TypeOK
    BY DEF DescriptorInv
<1>2. CASE Main
    BY <1>2, MainKeeps
<1>3. ASSUME NEW c \in Clients, Work(c) \/ Act(c)
      PROVE  StreamInv' /\ [Promise!Next]_(Promise!vars)
    BY <1>1, <1>3, WorkReads, ActWrites
<1>4. CASE UNCHANGED vars
  <2>1. UNCHANGED <<link, written, stream, rio_buf, buf, rc, got, ends, worker, client>>
      BY <1>4 DEF vars, serverVars, clientVars, rioVars, writerVars, readerVars
  <2>2. rc \in [Clients -> {"pending", "line", "eof", "error"}]
      BY DEF StreamInv, BytesOK
  <2> QED BY <2>1, <2>2, BytesStay
<1> QED
    BY <1>2, <1>3, <1>4 DEF Next, Quiet

LEMMA StreamInit == Init => StreamInv /\ Promise!Init
<1> SUFFICES ASSUME Init PROVE StreamInv /\ Promise!Init
    OBVIOUS
<1> USE DEF Init, RioInit
<1>1. <<>> \in Seq(Nat) /\ Len(<<>>) = 0 /\ <<>> \o <<>> = <<>>
    BY EmptySeq, ConcatEmptySeq
<1>2. BytesOK
    BY <1>1 DEF BytesOK, Links
<1>3. Unread = [c \in Clients |-> <<>>]
    BY <1>1 DEF Unread
<1>4. ASSUME NEW c \in Clients
      PROVE  Unfinished(c) /\ NothingIsMissing(c) /\ InTime(c)
    BY <1>1, <1>3, RioAssumption DEF Unfinished, NothingIsMissing, InTime
<1>5. [c \in Clients |-> link[c] \notin {"none", "up"}] = [c \in Clients |-> FALSE]
    OBVIOUS
<1>6. Promise!Init
    BY <1>3, <1>5 DEF Promise!Init
<1> QED
    BY <1>2, <1>4, <1>6 DEF StreamInv

\* What a worker reads is what its client wrote, one line or longest piece at a time,
\* for any messages, writes, reads and sizes of the buffers, any number of connections
\* and any of the faults.
THEOREM LinesAreRead == Spec => ImplementsLineStream
BY StreamInit, StreamStep, DescriptorInvariant, PTL
   DEF Spec, ImplementsLineStream, Promise!Spec
=============================================================================
