----------------------------- MODULE ChatSession -----------------------------
(***************************************************************************)
(* A session of the chat system from end to end: the client programs       *)
(* sender.cpp and receiver.cpp, one of each, their connections to the      *)
(* server (connection.cpp) and the two threads that serve them.            *)
(*                                                                         *)
(* The connections are byte streams, read line by line into a buffer.  A   *)
(* line stands for its tag, the text it carries and its length, newline    *)
(* included; a line longer than the buffer is read in pieces.  What the    *)
(* server's threads do to each other is module ChatServer's: here a        *)
(* request is received, carried out and answered in one step.              *)
(***************************************************************************)
EXTENDS Naturals, Sequences, SequencesExt

CONSTANTS
    MaxLen,        \* Message::MAX_LEN, 255 in the code
    Overhead,      \* length of a line without its text, for each tag
    TextSizes,     \* lengths of the texts that users type
    Commands,      \* what users type otherwise: "join", "leave", "quit"
    RestTags,      \* what the rest of a cut line may look like: a tag or "none"
    MaxInputs      \* bound: lines that the sender's user types

Tags == {"slogin", "rlogin", "join", "leave", "sendall", "quit",
         "ok", "err", "delivery"}

ASSUME SessionAssumption ==
    /\ MaxLen \in Nat /\ MaxInputs \in Nat
    /\ Overhead \in [Tags -> Nat] /\ \A t \in Tags : Overhead[t] < MaxLen
    /\ TextSizes \subseteq Nat \ {0}
    /\ Commands \subseteq {"join", "leave", "quit"}
    /\ RestTags \subseteq Tags \union {"none"}

Conns == {"sender", "receiver"}

VARIABLES
    pc,          \* where each client program is
    inputs,      \* lines that the sender's user has typed
    serving,     \* where the server's thread for each connection is
    up, down,    \* lines on their way to the server, and from it
    client_open, \* whether the client's end of a connection is open
    server_open, \* whether the server's is
    room,        \* the sender's session has joined the room
    member,      \* the receiver's session is in it
    queue,       \* texts enqueued for the receiver
    shown,       \* texts the receiver has printed
    broadcast,   \* history: texts broadcast while the receiver was a member
    cut          \* history: the lengths of the lines that were read in pieces

clientVars == <<pc, inputs, client_open, shown>>
serverVars == <<serving, server_open, room, member, queue, broadcast>>
vars == <<clientVars, serverVars, up, down, cut>>

NoText == [id |-> 0, size |-> 0, whole |-> TRUE]
Line(tag, text) == [tag |-> tag, text |-> text,
                    size |-> Overhead[tag] + text.size]
Eof == [tag |-> "eof", text |-> NoText, size |-> 0]

Init ==
    /\ pc = [c \in Conns |-> "login"]
    /\ inputs = 0
    /\ serving = [c \in Conns |-> "login"]
    /\ up = [c \in Conns |-> <<>>] /\ down = [c \in Conns |-> <<>>]
    /\ client_open = [c \in Conns |-> TRUE]
    /\ server_open = [c \in Conns |-> TRUE]
    /\ room = FALSE /\ member = FALSE
    /\ queue = <<>> /\ shown = <<>> /\ broadcast = <<>>
    /\ cut = {}
-----------------------------------------------------------------------------
(* Connection::receive and Connection::send                                *)

\* rio_readlineb reads one character less than the size it is given.
PieceLen == MaxLen - 1

\* A piece of a line without its newline carries the text up to where it ends.
Piece(line) ==
    [line EXCEPT !.size = PieceLen,
                 !.text = [@ EXCEPT !.whole = FALSE,
                                    !.size = PieceLen - (line.size - 1 - @)]]

\* What is left of a line: a newline alone has no colon.
Rests(line) ==
    LET size == line.size - PieceLen
    IN  {[tag |-> t, text |-> [line.text EXCEPT !.whole = FALSE, !.size = size],
          size |-> size] : t \in IF size = 1 THEN {"none"} ELSE RestTags}

\* What reading from a stream may give: the next line or a piece of it; the end
\* if the peer has closed it, with what was still on its way or, after a reset,
\* without it.
Reads(stream, peer_open) ==
    (IF stream = <<>> THEN {}
     ELSE LET line == Head(stream)
          IN  IF line.size <= PieceLen
              THEN {[line |-> line, left |-> Tail(stream), cut |-> {}]}
              ELSE {[line |-> Piece(line), left |-> <<rest>> \o Tail(stream),
                     cut |-> {line.size}] : rest \in Rests(line)})
    \union (IF peer_open THEN {}
            ELSE {[line |-> Eof, left |-> <<>>, cut |-> {}]})

\* receive returns false: the stream has ended, or there is no colon.
Failed(line) == line.tag \in {"eof", "none"}

\* What is sent to a peer that has closed its end is lost.
Sent(stream, peer_open, line) ==
    IF peer_open THEN Append(stream, line) ELSE stream
-----------------------------------------------------------------------------
(* The clients: sender.cpp and receiver.cpp                                *)

Ends == {"exited", "killed"}

\* A program that ends closes its connection.
Goto(c, label) == /\ pc' = [pc EXCEPT ![c] = label]
                  /\ client_open' = [client_open EXCEPT ![c] = label \notin Ends]

\* A request is sent.  If the server has closed its end, the client may not
\* notice yet, be told by an error, or be ended by SIGPIPE.
Ask(c, line, next, refused) ==
    /\ up' = [up EXCEPT ![c] = Sent(@, server_open[c], line)]
    /\ \/ Goto(c, next)
       \/ ~server_open[c] /\ \E label \in {refused, "killed"} : Goto(c, label)
    /\ UNCHANGED <<down, cut, shown, serverVars>>

\* The next line from the server is read.
FromServer(c) == Reads(down[c], server_open[c])
Hear(c, read) == /\ down' = [down EXCEPT ![c] = read.left]
                 /\ cut' = cut \union read.cut
                 /\ UNCHANGED <<up, inputs, serverVars>>

Refused(line) == Failed(line) \/ line.tag = "err"

Login(c) ==
    /\ pc[c] = "login"
    /\ Ask(c, Line(IF c = "sender" THEN "slogin" ELSE "rlogin", NoText),
           "await_login", "exited")
    /\ UNCHANGED inputs

AwaitLogin(c) ==
    /\ pc[c] = "await_login"
    /\ \E read \in FromServer(c) :
          /\ Hear(c, read)
          /\ Goto(c, IF Refused(read.line) THEN "exited"
                     ELSE IF c = "sender" THEN "prompt" ELSE "join")
    /\ UNCHANGED shown

\* The sender's user types a command, a text, or ends the input.  Empty lines
\* and unknown commands, which send nothing, are left out.
Type ==
    /\ pc["sender"] = "prompt"
    /\ inputs < MaxInputs
    /\ inputs' = inputs + 1
    /\ \/ \E tag \in Commands \ {"quit"} :
              Ask("sender", Line(tag, NoText), "await", "prompt")
       \/ /\ "quit" \in Commands
          /\ Ask("sender", Line("quit", NoText), "await_quit", "exited")
       \/ \E size \in TextSizes :
              Ask("sender", Line("sendall", [id |-> inputs', size |-> size,
                                             whole |-> TRUE]),
                  "await", "prompt")

EndOfInput ==
    /\ pc["sender"] = "prompt"
    /\ Goto("sender", "exited")
    /\ UNCHANGED <<inputs, shown, up, down, cut, serverVars>>

\* Whatever the answer is, and if there is none: the next input is read.
Await ==
    /\ pc["sender"] = "await"
    /\ \E read \in FromServer("sender") : Hear("sender", read)
    /\ Goto("sender", "prompt")
    /\ UNCHANGED shown

AwaitQuit ==
    /\ pc["sender"] = "await_quit"
    /\ \E read \in FromServer("sender") : Hear("sender", read)
    /\ Goto("sender", "exited")
    /\ UNCHANGED shown

Join ==
    /\ pc["receiver"] = "join"
    /\ Ask("receiver", Line("join", NoText), "await_join", "exited")
    /\ UNCHANGED inputs

AwaitJoin ==
    /\ pc["receiver"] = "await_join"
    /\ \E read \in FromServer("receiver") :
          /\ Hear("receiver", read)
          /\ Goto("receiver", IF Refused(read.line) THEN "exited" ELSE "listening")
    /\ UNCHANGED shown

\* Deliveries are printed, other tags ignored.
Listen ==
    /\ pc["receiver"] = "listening"
    /\ \E read \in FromServer("receiver") :
          /\ Hear("receiver", read)
          /\ Goto("receiver", IF Refused(read.line) THEN "exited" ELSE "listening")
          /\ shown' = IF read.line.tag = "delivery"
                      THEN Append(shown, read.line.text) ELSE shown

\* The user interrupts the client.
Interrupt(c) ==
    /\ client_open[c]
    /\ Goto(c, "killed")
    /\ UNCHANGED <<inputs, shown, up, down, cut, serverVars>>
-----------------------------------------------------------------------------
(* The server's threads                                                    *)

\* The next line from the client is read.
FromClient(c) == Reads(up[c], client_open[c])
Serve(c, read) == /\ up' = [up EXCEPT ![c] = read.left]
                  /\ cut' = cut \union read.cut
                  /\ UNCHANGED clientVars

Answer(c, tag) ==
    down' = [down EXCEPT ![c] = Sent(@, client_open[c], Line(tag, NoText))]

\* The thread goes on, or ends and closes its connection.
GoOn(c, label) == /\ serving' = [serving EXCEPT ![c] = label]
                  /\ UNCHANGED server_open
Finish(c) == /\ serving' = [serving EXCEPT ![c] = "ended"]
             /\ server_open' = [server_open EXCEPT ![c] = FALSE]

\* worker
ServeLogin(c) ==
    /\ serving[c] = "login"
    /\ \E read \in FromClient(c) :
          /\ Serve(c, read)
          /\ \/ /\ read.line.tag = "slogin"
                /\ GoOn(c, "chat") /\ Answer(c, "ok")
             \/ /\ read.line.tag = "rlogin"
                /\ GoOn(c, "join") /\ Answer(c, "ok")
             \/ /\ read.line.tag \notin {"slogin", "rlogin"}
                /\ Finish(c) /\ Answer(c, "err")
    /\ UNCHANGED <<room, member, queue, broadcast>>

\* Mutant: a text is only enqueued if the receiver has none to read.
BroadcastIfIdle(text) ==
    IF member THEN /\ queue' = IF queue = <<>> THEN <<text>> ELSE queue
                   /\ broadcast' = Append(broadcast, text)
              ELSE UNCHANGED <<queue, broadcast>>

\* Room::broadcast_message; the queue is the receiver's.
Broadcast(text) ==
    IF member THEN /\ queue' = Append(queue, text)
                   /\ broadcast' = Append(broadcast, text)
              ELSE UNCHANGED <<queue, broadcast>>

\* The null pointer of a leave ends the server.
Crash ==
    /\ serving' = [c \in Conns |-> "crashed"]
    /\ server_open' = [c \in Conns |-> FALSE]

\* Mutant: a text is not answered if nobody is there to hear it.
ServeTextSilently(text) ==
    /\ GoOn("sender", "chat") /\ Broadcast(text)
    /\ IF member THEN Answer("sender", "ok") ELSE UNCHANGED down

ServeText(text) ==
    /\ GoOn("sender", "chat") /\ Broadcast(text) /\ Answer("sender", "ok")

\* Mutant: a second join is refused and then carried out.
RefuseAndJoin ==
    down' = [down EXCEPT !["sender"] =
                @ \o (IF room THEN <<Line("err", NoText)>> ELSE <<>>)
                  \o <<Line("ok", NoText)>>]

AnswerJoin == Answer("sender", IF room THEN "err" ELSE "ok")

\* chat_with_sender, for one request
Obey(line) ==
    \/ /\ Failed(line)
       /\ Finish("sender") /\ Answer("sender", "err")
       /\ UNCHANGED <<room, queue, broadcast>>
    \/ /\ line.tag = "join"
       /\ room' = TRUE
       /\ GoOn("sender", "chat")
       /\ AnswerJoin
       /\ UNCHANGED <<queue, broadcast>>
    \/ /\ line.tag = "leave" /\ room
       /\ Crash
       /\ UNCHANGED <<down, room, queue, broadcast>>
    \/ /\ line.tag = "sendall" /\ room
       /\ ServeText(line.text)
       /\ UNCHANGED room
    \/ /\ line.tag = "quit"
       /\ Finish("sender") /\ Answer("sender", "ok")
       /\ UNCHANGED <<room, queue, broadcast>>
    \/ /\ ~Failed(line) /\ line.tag \notin {"join", "quit"}
       /\ line.tag \in {"leave", "sendall"} => ~room
       /\ GoOn("sender", "chat") /\ Answer("sender", "err")
       /\ UNCHANGED <<room, queue, broadcast>>

ServeSender ==
    /\ serving["sender"] = "chat"
    /\ \E read \in FromClient("sender") : Serve("sender", read) /\ Obey(read.line)
    /\ UNCHANGED member

\* chat_with_receiver up to the answer to the join
ServeJoin ==
    /\ serving["receiver"] = "join"
    /\ \E read \in FromClient("receiver") :
          /\ Serve("receiver", read)
          /\ IF read.line.tag = "join"
             THEN /\ GoOn("receiver", "deliver") /\ Answer("receiver", "ok")
                  /\ member' = TRUE
             ELSE /\ Finish("receiver") /\ Answer("receiver", "err")
                  /\ UNCHANGED member
    /\ UNCHANGED <<room, queue, broadcast>>

\* Mutant: the newest delivery is taken first.
DequeueNewest == /\ queue' = Front(queue)
                 /\ down' = [down EXCEPT !["receiver"] =
                                Sent(@, client_open["receiver"],
                                     Line("delivery", Last(queue)))]

\* The oldest delivery is written: nothing checks its length.
DequeueAndSend == /\ queue' = Tail(queue)
                  /\ down' = [down EXCEPT !["receiver"] =
                                 Sent(@, client_open["receiver"],
                                      Line("delivery", Head(queue)))]

\* One round of chat_with_receiver's loop; a timeout of dequeue changes nothing.
Deliver ==
    /\ serving["receiver"] = "deliver" /\ queue # <<>>
    /\ DequeueAndSend
    /\ \/ GoOn("receiver", "deliver") /\ UNCHANGED member
       \/ ~client_open["receiver"] /\ Finish("receiver") /\ member' = FALSE
    /\ UNCHANGED <<room, broadcast, up, cut, clientVars>>

Client(c) == \/ Login(c) \/ AwaitLogin(c)
             \/ c = "sender" /\ (Await \/ AwaitQuit)
             \/ c = "receiver" /\ (Join \/ AwaitJoin \/ Listen)

Thread(c) == \/ ServeLogin(c)
             \/ c = "sender" /\ ServeSender
             \/ c = "receiver" /\ (ServeJoin \/ Deliver)

\* Nothing is left to be done: the programs have ended, or wait for deliveries.
Quiet == /\ pc["sender"] \in Ends
         /\ UNCHANGED vars

Next == \/ \E c \in Conns : Client(c) \/ Thread(c) \/ Interrupt(c)
        \/ Type \/ EndOfInput \/ Quiet

Spec == Init /\ [][Next]_vars

\* Programs and threads that can run do; users need not type.
FairSpec == Spec /\ \A c \in Conns : WF_vars(Client(c)) /\ WF_vars(Thread(c))
-----------------------------------------------------------------------------
\* When the sender prompts its user, no answer and no request is on its way: the
\* answer it shows next belongs to the request it sends next (sender.cpp:95-109).
\* So it is as long as the lines fit into the buffer.
AnswersInStep ==
    pc["sender"] = "prompt" /\ server_open["sender"] /\ cut = {} =>
        up["sender"] = <<>> /\ down["sender"] = <<>>

\* The receiver prints the texts that were broadcast while it was in the room,
\* whole, in their order and without a gap, as long as the lines fit.
ShownAsSent ==
    cut = {} => /\ Len(shown) <= Len(broadcast)
                /\ \A n \in 1 .. Len(shown) : /\ shown[n] = broadcast[n]
                                              /\ shown[n].whole

\* The sender is never left waiting: an answer comes or the connection ends.
SenderNeverHangs ==
    pc["sender"] \in {"await_login", "await", "await_quit"} ~>
        pc["sender"] \in {"prompt", "exited", "killed"}

\* What is broadcast is printed, unless the receiver is interrupted or the server
\* ends.
BroadcastIsShown ==
    \A n \in 1 .. MaxInputs :
        Len(broadcast) >= n ~> \/ Len(shown) >= n
                               \/ ~client_open["receiver"]
                               \/ ~server_open["receiver"]

\* message.h:8-12 "An encoded message may have at most this many characters, including
\* the trailing newline".  So must a delivery, as the users' lines do here.
DeliveriesFit ==
    \A n \in 1 .. Len(down["receiver"]) : down["receiver"][n].size <= MaxLen
=============================================================================
