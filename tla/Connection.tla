------------------------------- MODULE Connection -------------------------------
(***************************************************************************)
(* A connection's whole life: the server opens its listening socket         *)
(* (server_main.cpp, open_listenfd of csapp.c), clients find it             *)
(* (Connection::connect, open_clientfd) and send messages, the accept loop  *)
(* of Server::handle_client_requests starts a thread for each, which        *)
(* receives until the end and closes.                                       *)
(*                                                                         *)
(* A step is a system call of some process or thread.  What is in the       *)
(* messages, and the other direction, are ChatServer's and ChatSession's.   *)
(***************************************************************************)
EXTENDS Rio

CONSTANTS
    Colons,      \* the bytes of each client that are colons
    Addresses,   \* how many addresses getaddrinfo finds for the server's host, the
                 \* same ones and in the same order for the server and its clients
    Unsupported, \* those for which socket fails
    Descriptors, \* the descriptors the server process may have, without the standard ones
    Inherited,   \* bound: sets of them that may be open when the server is started
    Nobody,      \* owner of a descriptor that is not open
    Faults,      \* bound: calls of the server that may fail
    Unreliable   \* bound: clients whose calls, process or connection may fail

Listener == "listener"
Parent == "parent"

ASSUME ConnectionAssumption ==
    /\ Colons \in [Clients -> SUBSET Nat]
    /\ Addresses \in Nat /\ Unsupported \subseteq 1..Addresses
    /\ Descriptors \subseteq Nat /\ Inherited \subseteq SUBSET Descriptors
    /\ Nobody \notin Clients \union {Listener, Parent} /\ Nobody \notin Descriptors
    /\ {Listener, Parent} \intersect Clients = {}
    /\ Faults \subseteq {"getaddrinfo", "bind", "listen", "accept", "thread"}
    /\ Unreliable \subseteq Clients

VARIABLES
    server,    \* where the main thread is, or how the process has ended
    p,         \* the number of the address that open_listenfd is at
    m_ssock,   \* the listening socket, from its first system call on
    fds,       \* the server's open descriptors, each with whose socket it stands for
    backlog,   \* connections not yet accepted
    client_fd, \* what accept has returned
    worker,    \* the thread of each connection: "none", "running", "ended"
    m_fd,      \* the descriptor of each Connection object of the server, or Nobody
    client,    \* where each client program is
    clientp,   \* the number of the address that its open_clientfd is at
    found      \* history: the server was listening when the client was started

serverVars == <<server, p, m_ssock, fds, backlog, client_fd, worker, m_fd>>
clientVars == <<client, clientp, found>>
rioVars == <<writerVars, stream, readerVars>>
vars == <<serverVars, clientVars, rioVars>>

Init ==
    /\ RioInit
    /\ server = "start" /\ p = 1
    /\ m_ssock = Nobody /\ client_fd = Nobody
    /\ \E inherited \in Inherited :
          fds = [d \in Descriptors |-> IF d \in inherited THEN Parent ELSE Nobody]
    /\ backlog = <<>>
    /\ worker = [c \in Clients |-> "none"]
    /\ m_fd = [c \in Clients |-> Nobody]
    /\ client = [c \in Clients |-> "start"]
    /\ clientp = [c \in Clients |-> 1]
    /\ found = [c \in Clients |-> FALSE]

\* return 1 of main, and exit(0) of the wrappers Accept and Close
Ended == {"could not listen", "accept error", "close error"}
Running == server \notin Ended
Serving == {"accept", "create", "close again"}

\* The process ends; the kernel closes what is open.
Exit(how) ==
    /\ server' = how
    /\ link' = [c \in Clients |-> IF link[c] \in {"up", "fin"} THEN "shut" ELSE link[c]]

May(call) == call \in Faults
-----------------------------------------------------------------------------
(* Descriptors of the server *)

\* The kernel gives out the lowest one that is free.
IsLowestFree(d) ==
    /\ d \in Descriptors /\ fds[d] = Nobody
    /\ \A e \in Descriptors : e < d => fds[e] # Nobody

NoneFree == \A d \in Descriptors : fds[d] # Nobody

\* close of an open descriptor ends the connection behind it.
Closed(d) ==
    /\ fds' = [fds EXCEPT ![d] = Nobody]
    /\ link' = [c \in Clients |-> IF fds[d] = c THEN "shut" ELSE link[c]]
    /\ stream' = [c \in Clients |-> IF fds[d] = c THEN <<>> ELSE stream[c]]
-----------------------------------------------------------------------------
(* main and open_listenfd *)

OpenFrame == UNCHANGED <<backlog, client_fd, worker, m_fd, clientVars, rioVars>>

\* getaddrinfo
ServerResolve ==
    /\ server = "start"
    /\ \/ server' = "socket"
       \/ May("getaddrinfo") /\ server' = "could not listen"
    /\ UNCHANGED <<p, m_ssock, fds>> /\ OpenFrame

\* socket, for the next address of the list
ServerSocket ==
    /\ server = "socket" /\ p <= Addresses
    /\ IF p \in Unsupported \/ NoneFree
       THEN p' = p + 1 /\ UNCHANGED <<server, m_ssock, fds>>
       ELSE /\ \E d \in Descriptors :
                  /\ IsLowestFree(d)
                  /\ m_ssock' = d /\ fds' = [fds EXCEPT ![d] = Listener]
            /\ server' = "bind" /\ UNCHANGED p
    /\ OpenFrame

NoAddressLeft ==
    /\ server = "socket" /\ p > Addresses
    /\ server' = "could not listen"
    /\ UNCHANGED <<p, m_ssock, fds>> /\ OpenFrame

CloseListener == /\ fds' = [fds EXCEPT ![m_ssock] = Nobody]
                 /\ m_ssock' = Nobody

TryNextAddress == server' = "socket" /\ p' = p + 1 /\ CloseListener

Bind ==
    /\ server = "bind"
    /\ \/ server' = "listen" /\ UNCHANGED <<p, m_ssock, fds>>
       \/ May("bind") /\ TryNextAddress
    /\ OpenFrame

\* listen, after which m_ssock is the server's
Listen ==
    /\ server = "listen"
    /\ \/ server' = "accept" /\ UNCHANGED <<m_ssock, fds>>
       \/ May("listen") /\ server' = "could not listen" /\ CloseListener
    /\ UNCHANGED p /\ OpenFrame
-----------------------------------------------------------------------------
(* Server::handle_client_requests *)

AcceptFrame == UNCHANGED <<p, m_ssock, clientVars, written, buf, rc, got, ends>>

\* accept, new Connection and rio_readinitb
Accept ==
    /\ server = "accept" /\ backlog # <<>>
    /\ LET c == Head(backlog)
       IN  \E d \in Descriptors :
              /\ IsLowestFree(d)
              /\ fds' = [fds EXCEPT ![d] = c]
              /\ client_fd' = d /\ m_fd' = [m_fd EXCEPT ![c] = d]
              /\ InitBuffer(c)
    /\ backlog' = Tail(backlog)
    /\ server' = "create"
    /\ UNCHANGED <<worker, link, stream>> /\ AcceptFrame

\* No descriptor is free, whether a client waits or not, or a client has gone: the
\* wrapper ends the process.
AcceptFails ==
    /\ server = "accept"
    /\ NoneFree \/ May("accept")
    /\ Exit("accept error")
    /\ UNCHANGED <<fds, backlog, client_fd, worker, m_fd, stream, rio_buf>> /\ AcceptFrame

\* pthread_create for the Connection that client_fd belongs to
Created(c) == server = "create" /\ m_fd[c] = client_fd

\* Mutant: the main thread closes its descriptor of a connection it has handed over.
StartAndClose(c) ==
    /\ worker' = [worker EXCEPT ![c] = "running"]
    /\ server' = "close again" /\ UNCHANGED <<client_fd, fds, m_fd, link, stream>>

Start(c) ==
    /\ worker' = [worker EXCEPT ![c] = "running"]
    /\ server' = "accept" /\ client_fd' = Nobody
    /\ UNCHANGED <<fds, m_fd, link, stream>>

\* ~Connection: the wrapper Close ends the process if it fails.
Delete(c, next) ==
    IF fds[m_fd[c]] = Nobody
    THEN Exit("close error") /\ UNCHANGED <<fds, m_fd, stream>>
    ELSE /\ server' = next
         /\ m_fd' = [m_fd EXCEPT ![c] = Nobody]
         /\ Closed(m_fd[c])

StartWorker ==
    /\ \E c \in Clients :
          /\ Created(c)
          /\ \/ Start(c)
             \/ May("thread") /\ Delete(c, "close again") /\ UNCHANGED <<worker, client_fd>>
    /\ UNCHANGED <<backlog, rio_buf>> /\ AcceptFrame

\* close(client_fd) again: EBADF, unless the number has been given out since.
CloseAgain ==
    /\ server = "close again"
    /\ IF fds[client_fd] = Nobody THEN UNCHANGED <<fds, link, stream>> ELSE Closed(client_fd)
    /\ server' = "accept" /\ client_fd' = Nobody
    /\ UNCHANGED <<backlog, worker, m_fd, rio_buf>> /\ AcceptFrame
-----------------------------------------------------------------------------
(* worker, for one direction of the connection *)

\* The bytes of the last line that receive was given.
LastLine(c) ==
    LET before == IF Len(ends[c]) = 1 THEN 0 ELSE ends[c][Len(ends[c]) - 1]
    IN  {got[c][k] : k \in before + 1 .. Len(got[c])}

HasColon(c) == LastLine(c) \cap Colons[c] # {}

\* Mutant: every receive starts with an empty rio_buf.
ReceiveAfresh(c) == rc' = [rc EXCEPT ![c] = "pending"] /\ InitBuffer(c)
ReceiveNext(c) == rc' = [rc EXCEPT ![c] = "pending"] /\ UNCHANGED rio_buf

\* receive returns true, and the thread goes round to the next one.
Receive(c) ==
    /\ rc[c] = "line" /\ HasColon(c)
    /\ ReceiveNext(c)
    /\ UNCHANGED <<serverVars, writerVars, stream, buf, got, ends>>

\* The worker ends, after a request that ends it or because receive returned false:
\* EOF_OR_ERROR, or INVALID_MSG for a line without a colon.
Finish(c) ==
    /\ rc[c] # "pending"
    /\ worker' = [worker EXCEPT ![c] = "ended"]
    /\ Delete(c, server)
    /\ UNCHANGED <<p, m_ssock, backlog, client_fd, written, readerVars>>

Work(c) ==
    /\ Running /\ worker[c] = "running"
    /\ \/ ReadLine(c) /\ UNCHANGED serverVars
       \/ Receive(c) \/ Finish(c)
    /\ UNCHANGED clientVars
-----------------------------------------------------------------------------
(* A client: Connection::connect and open_clientfd, send, the end *)

Goto(c, label) == client' = [client EXCEPT ![c] = label]

\* A client that fails in one of its calls.
MayFail(c) == c \in Unreliable

\* What connecting leaves alone.
ConnectFrame == UNCHANGED <<server, p, m_ssock, fds, client_fd, worker, m_fd,
                            written, stream, readerVars>>

ClientResolve(c) ==
    /\ client[c] = "start"
    /\ \/ Goto(c, "socket")
       \/ MayFail(c) /\ Goto(c, "could not connect")
    /\ found' = [found EXCEPT ![c] = server \in Serving]
    /\ UNCHANGED <<clientp, backlog, link>> /\ ConnectFrame

\* Mutant: a socket that cannot be had ends the walk over the addresses.
GiveUpAddress(c) == Goto(c, "could not connect") /\ UNCHANGED clientp
NextAddress(c) == Goto(c, "socket") /\ clientp' = [clientp EXCEPT ![c] = @ + 1]

ClientSocket(c) ==
    /\ client[c] = "socket" /\ clientp[c] <= Addresses
    /\ IF clientp[c] \in Unsupported
       THEN NextAddress(c)
       ELSE Goto(c, "connect") /\ UNCHANGED clientp
    /\ UNCHANGED <<found, backlog, link>> /\ ConnectFrame

AllConnectsFailed(c) ==
    /\ client[c] = "socket" /\ clientp[c] > Addresses
    /\ Goto(c, "could not connect")
    /\ UNCHANGED <<clientp, found, backlog, link>> /\ ConnectFrame

\* connect: refused where no server listens.
Connect(c) ==
    /\ client[c] = "connect"
    /\ \/ /\ server \in Serving /\ clientp[c] = p
          /\ link' = [link EXCEPT ![c] = "up"]
          /\ backlog' = Append(backlog, c)
          /\ Goto(c, "connected") /\ UNCHANGED clientp
       \/ /\ MayFail(c) \/ ~(server \in Serving /\ clientp[c] = p)
          /\ NextAddress(c)
          /\ UNCHANGED <<link, backlog>>
    /\ UNCHANGED found /\ ConnectFrame

\* What sending and ending leave alone.
SendFrame == UNCHANGED <<serverVars, clientp, found, readerVars>>

\* Connection::send begins a message.
Send(c) ==
    /\ client[c] = "connected"
    /\ \E n \in Newlines[c] : n > written[c]
    /\ Goto(c, "writing")
    /\ UNCHANGED <<writerVars, stream>> /\ SendFrame

\* rio_writen's loop; after its last byte send returns true.
WriteSome(c) ==
    /\ client[c] = "writing" /\ link[c] = "up"
    /\ Write(c)
    /\ IF written'[c] \in Newlines[c] THEN Goto(c, "connected") ELSE UNCHANGED client
    /\ UNCHANGED link /\ SendFrame

\* What is written to a server that has closed is lost, or fails, or is answered with
\* SIGPIPE, which clients do not ignore.
WriteFails(c) ==
    /\ client[c] = "writing" /\ link[c] \in {"shut", "broken"}
    /\ \E label \in {"connected", "ended"} : Goto(c, label)
    /\ UNCHANGED <<writerVars, stream>> /\ SendFrame

\* The program ends, or is killed, even in the middle of a message.
End(c) ==
    /\ client[c] \in {"connected", "writing"}
    /\ client[c] = "writing" => MayFail(c)
    /\ Goto(c, "ended")
    /\ link' = [link EXCEPT ![c] = IF @ = "up" THEN "fin" ELSE @]
    /\ UNCHANGED <<written, stream>> /\ SendFrame

\* The connection is reset, with what was not yet there.
Break(c) ==
    /\ MayFail(c)
    /\ link[c] \in {"up", "fin"}
    /\ link' = [link EXCEPT ![c] = "broken"]
    /\ \E k \in 0..Len(stream[c]) : stream' = [stream EXCEPT ![c] = SubSeq(@, 1, k)]
    /\ UNCHANGED <<written, client>> /\ SendFrame

Act(c) == \/ ClientResolve(c) \/ ClientSocket(c) \/ AllConnectsFailed(c) \/ Connect(c)
          \/ Send(c) \/ WriteSome(c) \/ WriteFails(c) \/ End(c) \/ Break(c)
-----------------------------------------------------------------------------
Main == \/ ServerResolve \/ ServerSocket \/ NoAddressLeft \/ Bind \/ Listen
        \/ Accept \/ AcceptFails \/ StartWorker \/ CloseAgain

\* Everybody has come to an end, or waits for the next client.
Quiet ==
    /\ server = "accept" => backlog = <<>> /\ \A c \in Clients : worker[c] # "running"
    /\ server \in Ended \union {"accept"}
    /\ \A c \in Clients : client[c] \in {"ended", "could not connect"}
    /\ UNCHANGED vars

Next == Main \/ (\E c \in Clients : Work(c) \/ Act(c)) \/ Quiet

Spec == Init /\ [][Next]_vars

\* The server's threads are run; clients need not do anything.
FairSpec == Spec /\ WF_vars(Main) /\ \A c \in Clients : WF_vars(Work(c))
-----------------------------------------------------------------------------
\* The descriptors that are open are those in use, each by one owner: none is leaked
\* by a failed bind, listen or pthread_create, no thread reads from or closes one
\* that has been given to another connection, and Close never fails.
DescriptorsMatch ==
    /\ \A d \in Descriptors :
          /\ fds[d] = Listener <=> m_ssock = d
          /\ \A c \in Clients : fds[d] = c <=> m_fd[c] = d
    /\ \A c \in Clients :
          m_fd[c] # Nobody <=> worker[c] = "running" \/ Created(c)
    /\ server # "close error"

\* A client that is started while the server listens is connected, whatever addresses
\* are tried before the right one, unless its own calls fail or the server ends.
ConnectFindsServer ==
    \A c \in Clients \ Unreliable :
        client[c] = "could not connect" /\ found[c] => server \in Ended

\* What has been written is received, whatever happens to other connections, unless
\* this one breaks, its worker has ended it, or the server has ended.
LinesArrive ==
    \A c \in Clients : \A n \in Newlines[c] :
        written[c] >= n ~> Len(got[c]) >= n \/ link[c] \in {"broken", "shut"}
-----------------------------------------------------------------------------
(* What makes the two invariants inductive *)

\* How far the main thread and the clients have come.
Opening == {"start", "socket", "bind", "listen"}
Connecting == {"start", "socket", "connect", "could not connect"}

TypeOK ==
    /\ server \in Opening \union Serving \union Ended
    /\ p \in Nat /\ clientp \in [Clients -> Nat]
    /\ m_ssock \in Descriptors \union {Nobody}
    /\ client_fd \in Descriptors \union {Nobody}
    /\ fds \in [Descriptors -> Clients \union {Listener, Parent, Nobody}]
    /\ m_fd \in [Clients -> Descriptors \union {Nobody}]
    /\ worker \in [Clients -> {"none", "running", "ended"}]
    /\ backlog \in Seq(Clients)
    /\ client \in [Clients -> Connecting \union {"connected", "writing", "ended"}]
    /\ found \in [Clients -> BOOLEAN]

\* The listening socket is open from socket to the end, ...
ListenerIsOpen ==
    /\ server \in {"start", "socket"} => m_ssock = Nobody
    /\ server \in {"bind", "listen"} \union Serving => m_ssock # Nobody

\* ... the descriptor in the main thread's hands is a connection's that no worker has
\* yet, or free.
HandIsOwn ==
    /\ server = "create" => \E c \in Clients : m_fd[c] = client_fd /\ worker[c] = "none"
    /\ server = "close again" => client_fd # Nobody /\ fds[client_fd] = Nobody

\* A connection that is not accepted has neither descriptor nor thread, and waits once.
Unaccepted(c) == m_fd[c] = Nobody /\ worker[c] = "none"

BacklogIsUnaccepted ==
    /\ \A i \in 1..Len(backlog) : Unaccepted(backlog[i])
    /\ \A i, j \in 1..Len(backlog) : backlog[i] = backlog[j] => i = j

ConnectsOnce ==
    \A c \in Clients : client[c] \in Connecting =>
        Unaccepted(c) /\ \A i \in 1..Len(backlog) : backlog[i] # c

DescriptorInv == /\ TypeOK /\ DescriptorsMatch
                 /\ ListenerIsOpen /\ HandIsOwn /\ BacklogIsUnaccepted /\ ConnectsOnce

\* The server listens at an address that sockets can have, ...
AddressIsGood ==
    server \in {"bind", "listen"} \union Serving => p \in (1..Addresses) \ Unsupported

\* ... which a client that was started after it has still before it.
ServerIsAhead ==
    \A c \in Clients :
        /\ client[c] = "start" => clientp[c] = 1 /\ ~found[c]
        /\ found[c] => server \in Serving \union Ended
        /\ c \notin Unreliable /\ found[c] /\ server \in Serving =>
              /\ client[c] # "could not connect"
              /\ client[c] \in {"socket", "connect"} => clientp[c] <= p

WalkInv == p >= 1 /\ AddressIsGood /\ ServerIsAhead
=============================================================================
