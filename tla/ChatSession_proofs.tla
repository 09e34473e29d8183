-------------------------- MODULE ChatSession_proofs --------------------------
(***************************************************************************)
(* Proofs about ChatSession: as long as every line fits into the buffer,   *)
(* requests and answers stay in step, and what the receiver prints is what *)
(* was broadcast, for any inputs, lengths and faults.                      *)
(***************************************************************************)
EXTENDS ChatSession, SequenceTheorems, TLAPS

\* Lines that nobody has cut.
WholeTexts == [id : Nat, size : Nat, whole : {TRUE}]
WholeLines == [tag : Tags, text : WholeTexts, size : Nat]

ClientStages == {"login", "await_login", "prompt", "await", "await_quit", "join",
                 "await_join", "listening", "exited", "killed"}
ServerStages == {"login", "chat", "join", "deliver", "ended", "crashed"}

Types ==
    /\ pc \in [Conns -> ClientStages] /\ inputs \in Nat
    /\ serving \in [Conns -> ServerStages]
    /\ up \in [Conns -> Seq(WholeLines)] /\ down \in [Conns -> Seq(WholeLines)]
    /\ client_open \in [Conns -> BOOLEAN] /\ server_open \in [Conns -> BOOLEAN]
    /\ queue \in Seq(WholeTexts)
    /\ shown \in Seq(WholeTexts) /\ broadcast \in Seq(WholeTexts)

\* A program that has ended holds no end of the connection, and a thread neither.
Closed == \A c \in Conns : /\ client_open[c] <=> pc[c] \notin Ends
                           /\ server_open[c] <=> serving[c] \notin {"ended", "crashed"}

\* At most one of a connection's streams has a line.
Idle(c) == up[c] = <<>> /\ down[c] = <<>>
Asked(c, tags) == Len(up[c]) = 1 /\ up[c][1].tag \in tags /\ down[c] = <<>>
Answered(c) == up[c] = <<>> /\ Len(down[c]) = 1

\* The stages of the sender and of its thread.
SenderInStep ==
    client_open["sender"] /\ server_open["sender"] =>
        \/ /\ pc["sender"] = "login" /\ serving["sender"] = "login"
           /\ Idle("sender")
        \/ /\ pc["sender"] = "await_login" /\ serving["sender"] = "login"
           /\ Asked("sender", {"slogin"})
        \/ /\ pc["sender"] = "await_login" /\ serving["sender"] = "chat"
           /\ Answered("sender")
        \/ /\ pc["sender"] = "prompt" /\ serving["sender"] = "chat"
           /\ Idle("sender")
        \/ /\ pc["sender"] = "await" /\ serving["sender"] = "chat"
           /\ Asked("sender", Tags) \/ Answered("sender")
        \/ /\ pc["sender"] = "await_quit" /\ serving["sender"] = "chat"
           /\ Asked("sender", {"quit"})

\* Before the receiver is a member of the room there is nothing to print.
Nothing == ~member /\ queue = <<>> /\ broadcast = <<>> /\ shown = <<>>

\* The receiver's thread is there, or the server has crashed meanwhile.
Serves(stage) == serving["receiver"] = stage \/ serving["receiver"] = "crashed"

\* The stages of the receiver up to its login to the room.
Joining ==
    /\ Nothing
    /\ \/ /\ pc["receiver"] = "login" /\ Serves("login") /\ Idle("receiver")
       \/ /\ pc["receiver"] = "await_login" /\ Serves("login")
          /\ down["receiver"] = <<>>
          /\ server_open["receiver"] => Asked("receiver", {"rlogin"})
       \/ /\ pc["receiver"] = "await_login" /\ Serves("join") /\ Answered("receiver")
       \/ /\ pc["receiver"] = "join" /\ Serves("join") /\ Idle("receiver")
       \/ /\ pc["receiver"] = "await_join" /\ Serves("join")
          /\ down["receiver"] = <<>>
          /\ server_open["receiver"] => Asked("receiver", {"join"})

Texts(lines) == [n \in 1 .. Len(lines) |-> lines[n].text]

AllDeliveries(lines) == \A n \in 1 .. Len(lines) : lines[n].tag = "delivery"

\* What was broadcast is printed, on its way, or in the queue.
Listening ==
    /\ Serves("deliver")
    /\ \/ /\ pc["receiver"] = "await_join"
          /\ down["receiver"] # <<>> /\ Head(down["receiver"]).tag = "ok"
          /\ shown = <<>>
          /\ AllDeliveries(Tail(down["receiver"]))
          /\ Texts(Tail(down["receiver"])) \o queue = broadcast
       \/ /\ pc["receiver"] = "listening"
          /\ AllDeliveries(down["receiver"])
          /\ (shown \o Texts(down["receiver"])) \o queue = broadcast

ReceiverInStep == client_open["receiver"] => Joining \/ Listening

\* What is printed is a part of what was broadcast.
Prefix == /\ Len(shown) <= Len(broadcast)
          /\ \A n \in 1 .. Len(shown) : shown[n] = broadcast[n]

InStep == Types /\ Closed /\ SenderInStep /\ ReceiverInStep /\ Prefix

\* The inductive invariant: until a line is cut, the programs are in step.
SessionInv == cut = {} => InStep
-----------------------------------------------------------------------------
(* Sequences                                                               *)

LEMMA Parts ==
    ASSUME NEW T, NEW s \in Seq(T), s # <<>>
    PROVE  /\ Head(s) \in T /\ Tail(s) \in Seq(T) /\ Head(s) = s[1]
           /\ Len(Tail(s)) = Len(s) - 1 /\ Len(s) \in Nat /\ Len(s) >= 1
           /\ \A n \in 1 .. Len(s) - 1 : Tail(s)[n] = s[n + 1]
OBVIOUS

LEMMA TailOfOne ==
    ASSUME NEW T, NEW s \in Seq(T), Len(s) = 1
    PROVE  s # <<>> /\ Head(s) = s[1] /\ Tail(s) = <<>>
<1>1. s # <<>>
    BY EmptySeq
<1>2. Tail(s) \in Seq(T) /\ Len(Tail(s)) = 0 /\ Head(s) = s[1]
    BY <1>1, Parts
<1>3. Tail(s) = <<>>
    BY <1>2, EmptySeq
<1> QED BY <1>1, <1>2, <1>3

LEMMA OneAppended ==
    ASSUME NEW T, NEW s \in Seq(T), NEW x \in T, s = <<>>
    PROVE  Len(Append(s, x)) = 1 /\ Append(s, x)[1] = x
OBVIOUS

LEMMA AppendAfter ==
    ASSUME NEW T, NEW s \in Seq(T), NEW t \in Seq(T), NEW x \in T
    PROVE  s \o Append(t, x) = Append(s \o t, x)
OBVIOUS

\* The first of a sequence goes to the end of the one before.
LEMMA FirstMoves ==
    ASSUME NEW T, NEW s \in Seq(T), NEW t \in Seq(T), t # <<>>
    PROVE  Append(s, Head(t)) \o Tail(t) = s \o t
<1>1. Head(t) \in T /\ Tail(t) \in Seq(T) /\ Len(Tail(t)) = Len(t) - 1 /\ Len(t) \in Nat
    BY Parts
<1> DEFINE u == Append(s, Head(t)) \o Tail(t)
           v == s \o t
<1>2. u \in Seq(T) /\ v \in Seq(T) /\ Len(u) = Len(v)
    BY <1>1
<1>3. ASSUME NEW n \in 1 .. Len(v) PROVE u[n] = v[n]
    BY <1>1
<1> HIDE DEF u, v
<1>4. u = v
    BY <1>2, <1>3
<1> QED BY <1>4 DEF u, v

LEMMA FirstPart ==
    ASSUME NEW T, NEW s \in Seq(T), NEW t \in Seq(T), NEW u \in Seq(T), s \o t = u
    PROVE  Len(s) <= Len(u) /\ \A n \in 1 .. Len(s) : s[n] = u[n]
OBVIOUS

LEMMA TextsAre ==
    ASSUME NEW lines \in Seq(WholeLines)
    PROVE  /\ Texts(lines) \in Seq(WholeTexts) /\ Len(Texts(lines)) = Len(lines)
           /\ Len(lines) \in Nat
           /\ \A n \in 1 .. Len(lines) : Texts(lines)[n] = lines[n].text
<1>1. ASSUME NEW n \in 1 .. Len(lines) PROVE lines[n].text \in WholeTexts
  <2>1. lines[n] \in WholeLines
      OBVIOUS
  <2> QED BY <2>1 DEF WholeLines
<1>2. Len(lines) \in Nat
    OBVIOUS
<1> QED BY <1>1, <1>2 DEF Texts

LEMMA TextsOfNone == Texts(<<>>) = <<>>
BY DEF Texts

LEMMA TextsOfAppended ==
    ASSUME NEW lines \in Seq(WholeLines), NEW line \in WholeLines
    PROVE  Texts(Append(lines, line)) = Append(Texts(lines), line.text)
<1> DEFINE more == Append(lines, line)
           u == Texts(more)
           v == Append(Texts(lines), line.text)
<1>1. more \in Seq(WholeLines) /\ Len(more) = Len(lines) + 1 /\ line.text \in WholeTexts
    BY DEF WholeLines
<1>2. /\ u \in Seq(WholeTexts) /\ Len(u) = Len(more)
      /\ \A n \in 1 .. Len(more) : u[n] = more[n].text
    BY <1>1, TextsAre
<1>3. /\ Texts(lines) \in Seq(WholeTexts) /\ Len(Texts(lines)) = Len(lines)
      /\ Len(lines) \in Nat
      /\ \A n \in 1 .. Len(lines) : Texts(lines)[n] = lines[n].text
    BY TextsAre
<1>4. v \in Seq(WholeTexts) /\ Len(v) = Len(lines) + 1
    BY <1>1, <1>3
<1>5. ASSUME NEW n \in 1 .. Len(lines) + 1 PROVE u[n] = v[n]
    BY <1>1, <1>2, <1>3
<1> HIDE DEF u, v, more
<1>6. u = v
    BY <1>1, <1>2, <1>4, <1>5
<1> QED BY <1>6 DEF u, v, more

LEMMA TextsOfTail ==
    ASSUME NEW lines \in Seq(WholeLines), lines # <<>>
    PROVE  /\ Texts(lines) # <<>> /\ Head(Texts(lines)) = Head(lines).text
           /\ Texts(Tail(lines)) = Tail(Texts(lines))
<1> DEFINE rest == Tail(lines)
           u == Texts(rest)
           w == Texts(lines)
           v == Tail(w)
<1>1. /\ rest \in Seq(WholeLines) /\ Len(rest) = Len(lines) - 1 /\ Len(lines) >= 1
      /\ Len(lines) \in Nat /\ Head(lines) = lines[1]
      /\ \A n \in 1 .. Len(lines) - 1 : rest[n] = lines[n + 1]
    BY Parts
<1>2. /\ u \in Seq(WholeTexts) /\ Len(u) = Len(rest)
      /\ \A n \in 1 .. Len(rest) : u[n] = rest[n].text
    BY <1>1, TextsAre
<1>3. /\ w \in Seq(WholeTexts) /\ Len(w) = Len(lines)
      /\ \A n \in 1 .. Len(lines) : w[n] = lines[n].text
    BY TextsAre
<1> HIDE DEF u, w, rest
<1>4. /\ w # <<>>
      /\ v \in Seq(WholeTexts) /\ Len(v) = Len(w) - 1 /\ Head(w) = w[1]
      /\ \A n \in 1 .. Len(w) - 1 : v[n] = w[n + 1]
    BY <1>1, <1>3, Parts
<1> HIDE DEF v
<1>5. ASSUME NEW n \in 1 .. Len(rest) PROVE u[n] = v[n]
  <2>1. n \in 1 .. Len(lines) - 1 /\ n + 1 \in 1 .. Len(lines)
      BY <1>1
  <2>2. u[n] = rest[n].text /\ rest[n] = lines[n + 1]
      BY <1>1, <1>2, <2>1
  <2>3. v[n] = w[n + 1] /\ w[n + 1] = lines[n + 1].text
      BY <1>3, <1>4, <2>1
  <2> QED BY <2>2, <2>3
<1>6. u = v
    BY <1>1, <1>2, <1>3, <1>4, <1>5
<1>7. Head(w) = Head(lines).text
    BY <1>1, <1>3, <1>4
<1> QED BY <1>4, <1>6, <1>7 DEF u, v, w, rest

LEMMA DeliveriesAppended ==
    ASSUME NEW lines \in Seq(WholeLines), NEW line \in WholeLines,
           AllDeliveries(lines), line.tag = "delivery"
    PROVE  AllDeliveries(Append(lines, line))
BY DEF AllDeliveries

LEMMA DeliveriesOfTail ==
    ASSUME NEW lines \in Seq(WholeLines), lines # <<>>, AllDeliveries(lines)
    PROVE  Head(lines).tag = "delivery" /\ AllDeliveries(Tail(lines))
BY Parts DEF AllDeliveries
-----------------------------------------------------------------------------
(* Reading and writing a stream                                            *)

LEMMA NoTextIsWhole == NoText \in WholeTexts
BY DEF NoText, WholeTexts

LEMMA LineIsWhole ==
    ASSUME NEW tag \in Tags, NEW text \in WholeTexts
    PROVE  /\ Line(tag, text) \in WholeLines
           /\ Line(tag, text).tag = tag /\ Line(tag, text).text = text
<1>1. Overhead[tag] \in Nat /\ text.size \in Nat
    BY SessionAssumption DEF WholeTexts
<1>2. Overhead[tag] + text.size \in Nat
    BY <1>1
<1> HIDE DEF Tags
<1> QED BY <1>2 DEF Line, WholeLines

\* What is read without being cut is the first line, or the end of a closed stream.
LEMMA ReadWhole ==
    ASSUME NEW s \in Seq(WholeLines), NEW open, NEW read \in Reads(s, open),
           read.cut = {}
    PROVE  /\ read.left \in Seq(WholeLines)
           /\ \/ s # <<>> /\ read.line = Head(s) /\ read.left = Tail(s)
              \/ ~open /\ read.line = Eof /\ read.left = <<>>
<1>1. \/ /\ s # <<>>
         /\ read = [line |-> Head(s), left |-> Tail(s), cut |-> {}]
      \/ \E rest \in Rests(Head(s)) :
             read = [line |-> Piece(Head(s)), left |-> <<rest>> \o Tail(s),
                     cut |-> {Head(s).size}]
      \/ ~open /\ read = [line |-> Eof, left |-> <<>>, cut |-> {}]
    BY Zenon DEF Reads
<1>2. CASE s # <<>> /\ read = [line |-> Head(s), left |-> Tail(s), cut |-> {}]
    BY <1>2, Parts
<1>3. ASSUME NEW rest,
             read = [line |-> Piece(Head(s)), left |-> <<rest>> \o Tail(s),
                     cut |-> {Head(s).size}]
      PROVE  FALSE
    BY <1>3
<1>4. CASE ~open /\ read = [line |-> Eof, left |-> <<>>, cut |-> {}]
    BY <1>4
<1> QED BY <1>1, <1>2, <1>3, <1>4
-----------------------------------------------------------------------------
(* What the parts of an action do                                          *)

\* A connection and its programs stay as they are.
Same(c) == /\ pc'[c] = pc[c] /\ client_open'[c] = client_open[c]
           /\ serving'[c] = serving[c] /\ server_open'[c] = server_open[c]
           /\ up'[c] = up[c] /\ down'[c] = down[c]

\* So do the room and what is shown of it.
RoomSame == UNCHANGED <<member, queue, broadcast, shown>>

LEMMA SenderKept ==
    ASSUME SenderInStep, Same("sender")
    PROVE  SenderInStep'
BY DEF SenderInStep, Same, Idle, Asked, Answered

LEMMA ReceiverKept ==
    ASSUME ReceiverInStep, Prefix, Same("receiver"), RoomSame
    PROVE  ReceiverInStep' /\ Prefix'
<1>1. Prefix'
    BY DEF Prefix, RoomSame
<1>2. ASSUME Joining PROVE Joining'
    BY <1>2 DEF Joining, Nothing, Serves, Same, RoomSame, Idle, Asked, Answered
<1>3. ASSUME Listening PROVE Listening'
    BY <1>3 DEF Listening, Serves, Same, RoomSame, AllDeliveries, Texts
<1>4. client_open'["receiver"] = client_open["receiver"]
    BY DEF Same
<1> QED BY <1>1, <1>2, <1>3, <1>4 DEF ReceiverInStep

\* The client of c goes to a stage of its program.
LEMMA GotoStep ==
    ASSUME Types, Closed, NEW c \in Conns, NEW label \in ClientStages, Goto(c, label),
           UNCHANGED <<serving, server_open>>
    PROVE  /\ pc' \in [Conns -> ClientStages] /\ client_open' \in [Conns -> BOOLEAN]
           /\ Closed'
           /\ pc'[c] = label /\ (client_open'[c] <=> label \notin Ends)
           /\ \A d \in Conns \ {c} : pc'[d] = pc[d] /\ client_open'[d] = client_open[d]
BY DEF Types, Closed, Goto, Ends

LEMMA AskStep ==
    ASSUME Types, Closed, NEW c \in Conns, NEW line \in WholeLines,
           NEW next \in ClientStages, NEW refused \in ClientStages,
           Ask(c, line, next, refused), inputs' \in Nat
    PROVE  /\ Types' /\ Closed' /\ RoomSame
           /\ serving' = serving /\ server_open' = server_open /\ down' = down
           /\ \A d \in Conns \ {c} : Same(d)
           /\ server_open[c] => pc'[c] = next /\ up'[c] = Append(up[c], line)
           /\ ~server_open[c] => /\ up'[c] = up[c]
                                 /\ pc'[c] \in {next, refused, "killed"}
<1>1. /\ serving' = serving /\ server_open' = server_open /\ down' = down
      /\ RoomSame /\ cut' = cut
    BY DEF Ask, serverVars, RoomSame
<1>2. PICK label \in {next, refused, "killed"} :
          Goto(c, label) /\ (server_open[c] => label = next)
    BY Zenon DEF Ask
<1>3. label \in ClientStages
    BY <1>2 DEF ClientStages
<1>4. /\ pc' \in [Conns -> ClientStages] /\ client_open' \in [Conns -> BOOLEAN]
      /\ Closed' /\ pc'[c] = label
      /\ \A d \in Conns \ {c} : pc'[d] = pc[d] /\ client_open'[d] = client_open[d]
    BY <1>1, <1>2, <1>3, GotoStep
<1>5. /\ up \in [Conns -> Seq(WholeLines)]
      /\ up' = [up EXCEPT ![c] = IF server_open[c] THEN Append(up[c], line) ELSE up[c]]
    BY Zenon DEF Ask, Sent, Types
<1>6. Append(up[c], line) \in Seq(WholeLines)
    BY <1>5
<1>7. /\ up' \in [Conns -> Seq(WholeLines)]
      /\ up'[c] = IF server_open[c] THEN Append(up[c], line) ELSE up[c]
      /\ \A d \in Conns \ {c} : up'[d] = up[d]
    BY <1>5, <1>6
<1>8. Types'
    BY <1>1, <1>4, <1>7 DEF Types, RoomSame
<1> QED BY <1>1, <1>2, <1>4, <1>7, <1>8 DEF Same

\* What a client reads, uncut.
LEMMA HearStep ==
    ASSUME Types, Closed, cut' = {}, NEW c \in Conns, NEW read \in FromServer(c),
           Hear(c, read), NEW label \in ClientStages, Goto(c, label),
           shown' \in Seq(WholeTexts)
    PROVE  /\ Types' /\ Closed' /\ UNCHANGED <<member, queue, broadcast>>
           /\ serving' = serving /\ server_open' = server_open /\ up' = up
           /\ pc'[c] = label /\ (client_open'[c] <=> label \notin Ends)
           /\ \A d \in Conns \ {c} : Same(d)
           /\ \/ /\ down[c] # <<>> /\ read.line = Head(down[c])
                 /\ down'[c] = Tail(down[c])
              \/ ~server_open[c] /\ read.line = Eof /\ down'[c] = <<>>
<1>1. /\ serving' = serving /\ server_open' = server_open /\ up' = up
      /\ UNCHANGED <<member, queue, broadcast, inputs>>
      /\ read.cut = {}
    BY DEF Hear, serverVars
<1>2. /\ pc' \in [Conns -> ClientStages] /\ client_open' \in [Conns -> BOOLEAN]
      /\ Closed' /\ pc'[c] = label /\ (client_open'[c] <=> label \notin Ends)
      /\ \A d \in Conns \ {c} : pc'[d] = pc[d] /\ client_open'[d] = client_open[d]
    BY <1>1, GotoStep
<1>3. down[c] \in Seq(WholeLines) /\ down \in [Conns -> Seq(WholeLines)]
    BY DEF Types
<1>4. /\ read.left \in Seq(WholeLines)
      /\ \/ down[c] # <<>> /\ read.line = Head(down[c]) /\ read.left = Tail(down[c])
         \/ ~server_open[c] /\ read.line = Eof /\ read.left = <<>>
  <2>1. read \in Reads(down[c], server_open[c])
      BY DEF FromServer
  <2> QED BY <1>1, <1>3, <2>1, ReadWhole
<1>5. down' = [down EXCEPT ![c] = read.left]
    BY DEF Hear
<1>6. /\ down' \in [Conns -> Seq(WholeLines)] /\ down'[c] = read.left
      /\ \A d \in Conns \ {c} : down'[d] = down[d]
    BY <1>3, <1>4, <1>5
<1>7. Types'
    BY <1>1, <1>2, <1>6 DEF Types
<1> QED BY <1>1, <1>2, <1>4, <1>6, <1>7 DEF Same

\* What the server reads from c, uncut.
LEMMA ServeRead ==
    ASSUME Types, cut' = {}, NEW c \in Conns, NEW read \in FromClient(c), Serve(c, read)
    PROVE  /\ UNCHANGED <<pc, inputs, client_open, shown>>
           /\ up' \in [Conns -> Seq(WholeLines)]
           /\ \A d \in Conns \ {c} : up'[d] = up[d]
           /\ \/ /\ up[c] # <<>> /\ read.line = Head(up[c]) /\ read.line \in WholeLines
                 /\ up'[c] = Tail(up[c])
              \/ ~client_open[c] /\ read.line = Eof /\ up'[c] = <<>>
<1>1. UNCHANGED <<pc, inputs, client_open, shown>> /\ read.cut = {}
    BY DEF Serve, clientVars
<1>2. up[c] \in Seq(WholeLines) /\ up \in [Conns -> Seq(WholeLines)]
    BY DEF Types
<1>3. /\ read.left \in Seq(WholeLines)
      /\ \/ up[c] # <<>> /\ read.line = Head(up[c]) /\ read.left = Tail(up[c])
         \/ ~client_open[c] /\ read.line = Eof /\ read.left = <<>>
  <2>1. read \in Reads(up[c], client_open[c])
      BY DEF FromClient
  <2> QED BY <1>1, <1>2, <2>1, ReadWhole
<1>4. up' = [up EXCEPT ![c] = read.left]
    BY DEF Serve
<1> QED BY <1>1, <1>2, <1>3, <1>4, Parts

\* The thread of c goes on or ends.
LEMMA ThreadStep ==
    ASSUME Types, Closed, NEW c \in Conns, UNCHANGED <<pc, client_open>>,
           NEW label \in ServerStages \ {"ended", "crashed"},
           (GoOn(c, label) /\ server_open[c]) \/ Finish(c)
    PROVE  /\ serving' \in [Conns -> ServerStages] /\ server_open' \in [Conns -> BOOLEAN]
           /\ Closed'
           /\ \A d \in Conns \ {c} : serving'[d] = serving[d] /\ server_open'[d] = server_open[d]
           /\ \/ serving'[c] = label /\ server_open'[c] = server_open[c]
              \/ serving'[c] = "ended" /\ server_open'[c] = FALSE
BY DEF Types, Closed, GoOn, Finish, ServerStages

\* What is sent to the client of c.
LEMMA SentStep ==
    ASSUME Types, NEW c \in Conns, NEW line \in WholeLines,
           down' = [down EXCEPT ![c] = Sent(@, client_open[c], line)]
    PROVE  /\ down' \in [Conns -> Seq(WholeLines)]
           /\ \A d \in Conns \ {c} : down'[d] = down[d]
           /\ client_open[c] => down'[c] = Append(down[c], line)
<1>1. /\ down \in [Conns -> Seq(WholeLines)] /\ down[c] \in Seq(WholeLines)
    BY DEF Types
<1>2. Append(down[c], line) \in Seq(WholeLines)
    BY <1>1
<1> QED BY <1>1, <1>2 DEF Sent

LEMMA AnswerStep ==
    ASSUME Types, NEW c \in Conns, NEW tag \in {"ok", "err"}, Answer(c, tag)
    PROVE  /\ down' \in [Conns -> Seq(WholeLines)]
           /\ \A d \in Conns \ {c} : down'[d] = down[d]
           /\ client_open[c] => \E line \in WholeLines :
                  line.tag = tag /\ down'[c] = Append(down[c], line)
<1> DEFINE line == Line(tag, NoText)
<1>1. line \in WholeLines /\ line.tag = tag
    BY LineIsWhole, NoTextIsWhole DEF Tags
<1>2. down' = [down EXCEPT ![c] = Sent(@, client_open[c], line)]
    BY DEF Answer
<1> HIDE DEF line
<1> QED BY <1>1, <1>2, SentStep
-----------------------------------------------------------------------------
(* The sender and its thread                                               *)

LEMMA SenderAsks ==
    ASSUME InStep, NEW line \in WholeLines,
           NEW next \in ClientStages, NEW refused \in ClientStages,
           Ask("sender", line, next, refused), inputs' \in Nat,
           \/ pc["sender"] = "login" /\ next = "await_login" /\ line.tag = "slogin"
           \/ pc["sender"] = "prompt" /\ next = "await"
           \/ pc["sender"] = "prompt" /\ next = "await_quit" /\ line.tag = "quit"
    PROVE  InStep'
<1>1. "sender" \in Conns /\ "receiver" \in Conns \ {"sender"}
    BY DEF Conns
<1>2. /\ Types' /\ Closed' /\ RoomSame /\ Same("receiver")
      /\ serving' = serving /\ server_open' = server_open /\ down' = down
      /\ server_open["sender"] =>
             pc'["sender"] = next /\ up'["sender"] = Append(up["sender"], line)
    BY <1>1, AskStep DEF InStep
<1>3. ReceiverInStep' /\ Prefix'
    BY <1>2, ReceiverKept DEF InStep
<1>4. ASSUME server_open'["sender"] PROVE SenderInStep'
  <2>1. client_open["sender"] /\ server_open["sender"]
      BY <1>1, <1>2, <1>4 DEF InStep, Closed, Ends
  <2>2. /\ Idle("sender")
        /\ pc["sender"] = "login" => serving["sender"] = "login"
        /\ pc["sender"] = "prompt" => serving["sender"] = "chat"
      BY <2>1 DEF InStep, SenderInStep
  <2>3. up'["sender"] = Append(up["sender"], line) /\ up["sender"] \in Seq(WholeLines)
      BY <1>1, <1>2, <2>1 DEF InStep, Types
  <2>4. Len(up'["sender"]) = 1 /\ up'["sender"][1] = line
      BY <2>2, <2>3, OneAppended DEF Idle
  <2>5. line.tag \in Tags
      BY DEF WholeLines
  <2>6. Asked("sender", Tags)' /\ (line.tag = "slogin" => Asked("sender", {"slogin"})')
        /\ (line.tag = "quit" => Asked("sender", {"quit"})')
      BY <1>2, <2>2, <2>4, <2>5 DEF Asked, Idle
  <2> QED BY <1>2, <2>1, <2>2, <2>6 DEF SenderInStep
<1> QED BY <1>2, <1>3, <1>4 DEF InStep, SenderInStep

LEMMA TypeStep == ASSUME InStep, Type PROVE InStep'
<1>1. pc["sender"] = "prompt" /\ inputs' = inputs + 1 /\ inputs' \in Nat
    BY DEF Type, InStep, Types
<1>2. {"await", "prompt", "await_quit", "exited"} \subseteq ClientStages
    BY DEF ClientStages
<1>3. ASSUME NEW tag \in Commands \ {"quit"},
             Ask("sender", Line(tag, NoText), "await", "prompt")
      PROVE  InStep'
  <2>1. tag \in Tags
      BY SessionAssumption DEF Tags
  <2> QED BY <1>1, <1>2, <1>3, <2>1, LineIsWhole, NoTextIsWhole, SenderAsks
<1>4. ASSUME Ask("sender", Line("quit", NoText), "await_quit", "exited") PROVE InStep'
  <2>1. "quit" \in Tags
      BY DEF Tags
  <2> QED BY <1>1, <1>2, <1>4, <2>1, LineIsWhole, NoTextIsWhole, SenderAsks
<1>5. ASSUME NEW size \in TextSizes,
             Ask("sender", Line("sendall", [id |-> inputs', size |-> size,
                                            whole |-> TRUE]), "await", "prompt")
      PROVE  InStep'
  <2> DEFINE text == [id |-> inputs', size |-> size, whole |-> TRUE]
  <2>1. text \in WholeTexts /\ "sendall" \in Tags
      BY <1>1, SessionAssumption DEF Tags, WholeTexts
  <2>2. Ask("sender", Line("sendall", text), "await", "prompt")
      BY <1>5
  <2> HIDE DEF text
  <2> QED BY <1>1, <1>2, <2>1, <2>2, LineIsWhole, SenderAsks
<1> QED BY <1>3, <1>4, <1>5 DEF Type

\* The sender reads the answer, or the end of the stream.
LEMMA SenderHears ==
    ASSUME InStep, cut' = {}, NEW read \in FromServer("sender"), Hear("sender", read),
           NEW label \in ClientStages, Goto("sender", label), UNCHANGED shown,
           \/ pc["sender"] = "await_login" /\ (label = "prompt" \/ label = "exited")
           \/ pc["sender"] = "await" /\ label = "prompt"
           \/ pc["sender"] = "await_quit" /\ label = "exited"
    PROVE  InStep'
<1>1. "sender" \in Conns /\ "receiver" \in Conns \ {"sender"} /\ Types /\ Closed
    BY DEF Conns, InStep
<1>2. shown' \in Seq(WholeTexts)
    BY DEF InStep, Types
<1>3. /\ Types' /\ Closed' /\ RoomSame /\ Same("receiver")
      /\ serving' = serving /\ server_open' = server_open /\ up' = up
      /\ pc'["sender"] = label /\ (client_open'["sender"] <=> label \notin Ends)
      /\ \/ /\ down["sender"] # <<>> /\ read.line = Head(down["sender"])
            /\ down'["sender"] = Tail(down["sender"])
         \/ ~server_open["sender"] /\ read.line = Eof /\ down'["sender"] = <<>>
    BY <1>1, <1>2, HearStep DEF RoomSame
<1>4. ReceiverInStep' /\ Prefix'
    BY <1>3, ReceiverKept DEF InStep
<1>5. ASSUME server_open'["sender"], client_open'["sender"] PROVE SenderInStep'
  <2>1. client_open["sender"] /\ server_open["sender"] /\ label = "prompt"
      BY <1>1, <1>3, <1>5 DEF Closed, Ends
  <2>2. down["sender"] # <<>> /\ down'["sender"] = Tail(down["sender"])
      BY <1>3, <2>1
  <2>3. serving["sender"] = "chat" /\ Answered("sender")
      BY <2>1, <2>2 DEF InStep, SenderInStep, Asked
  <2>4. down["sender"] \in Seq(WholeLines)
      BY <1>1 DEF Types
  <2>5. Idle("sender")'
      BY <1>3, <2>2, <2>3, <2>4, TailOfOne DEF Answered, Idle
  <2> QED BY <1>3, <2>1, <2>3, <2>5 DEF SenderInStep
<1> QED BY <1>3, <1>4, <1>5 DEF InStep, SenderInStep

LEMMA SenderStops ==
    ASSUME InStep, NEW label \in Ends, Goto("sender", label),
           UNCHANGED <<inputs, shown, up, down, cut, serverVars>>
    PROVE  InStep'
<1>1. "sender" \in Conns /\ "receiver" \in Conns \ {"sender"} /\ label \in ClientStages
    BY DEF Conns, Ends, ClientStages
<1>2. /\ UNCHANGED <<serving, server_open, inputs, up, down>> /\ RoomSame
    BY DEF serverVars, RoomSame
<1>3. /\ pc' \in [Conns -> ClientStages] /\ client_open' \in [Conns -> BOOLEAN]
      /\ Closed' /\ client_open'["sender"] = FALSE
      /\ \A d \in Conns \ {"sender"} : pc'[d] = pc[d] /\ client_open'[d] = client_open[d]
    BY <1>1, <1>2, GotoStep DEF InStep
<1>4. Same("receiver") /\ Types'
    BY <1>1, <1>2, <1>3 DEF Same, InStep, Types, RoomSame
<1> QED BY <1>2, <1>3, <1>4, ReceiverKept DEF InStep, SenderInStep

\* A request is answered, or the sender's thread ends.
LEMMA SenderServed ==
    ASSUME InStep, NEW read \in FromClient("sender"), Serve("sender", read), cut' = {},
           NEW tag \in {"ok", "err"}, Answer("sender", tag),
           \/ /\ serving["sender"] = "login" /\ GoOn("sender", "chat")
              /\ read.line.tag = "slogin"
           \/ /\ serving["sender"] = "login" /\ GoOn("sender", "join")
              /\ read.line.tag = "rlogin"
           \/ /\ serving["sender"] = "chat" /\ GoOn("sender", "chat")
              /\ read.line.tag # "quit"
           \/ serving["sender"] \in {"login", "chat"} /\ Finish("sender")
    PROVE  /\ Closed' /\ SenderInStep' /\ Same("receiver") /\ shown' = shown
           /\ queue' \in Seq(WholeTexts) /\ broadcast' \in Seq(WholeTexts) => Types'
<1>1. "sender" \in Conns /\ "receiver" \in Conns \ {"sender"} /\ Types /\ Closed
    BY DEF Conns, InStep
<1>2. /\ UNCHANGED <<pc, inputs, client_open, shown>>
      /\ up' \in [Conns -> Seq(WholeLines)]
      /\ up'["receiver"] = up["receiver"]
      /\ \/ /\ up["sender"] # <<>> /\ read.line = Head(up["sender"])
            /\ up'["sender"] = Tail(up["sender"])
         \/ ~client_open["sender"]
    BY <1>1, ServeRead
<1>3. /\ down' \in [Conns -> Seq(WholeLines)] /\ down'["receiver"] = down["receiver"]
      /\ client_open["sender"] => \E line \in WholeLines :
             down'["sender"] = Append(down["sender"], line)
    BY <1>1, AnswerStep
<1>4. PICK label \in {"chat", "join"} :
          /\ GoOn("sender", label) \/ Finish("sender")
          /\ \/ label = "chat" /\ serving["sender"] = "login" /\ read.line.tag = "slogin"
             \/ label = "join" /\ serving["sender"] = "login" /\ read.line.tag = "rlogin"
             \/ label = "chat" /\ serving["sender"] = "chat" /\ read.line.tag # "quit"
             \/ serving["sender"] \in {"login", "chat"} /\ Finish("sender")
    OBVIOUS
<1>5. server_open["sender"] /\ label \in ServerStages \ {"ended", "crashed"}
    BY <1>1 DEF Closed, ServerStages
<1>6. /\ serving' \in [Conns -> ServerStages] /\ server_open' \in [Conns -> BOOLEAN]
      /\ Closed'
      /\ serving'["receiver"] = serving["receiver"]
      /\ server_open'["receiver"] = server_open["receiver"]
      /\ \/ serving'["sender"] = label
         \/ server_open'["sender"] = FALSE
    BY <1>1, <1>2, <1>4, <1>5, ThreadStep
<1>7. /\ Same("receiver")
      /\ queue' \in Seq(WholeTexts) /\ broadcast' \in Seq(WholeTexts) => Types'
    BY <1>2, <1>3, <1>6 DEF InStep, Types, Same
<1>8. ASSUME client_open'["sender"], server_open'["sender"] PROVE SenderInStep'
  <2>1. client_open["sender"] /\ ~Finish("sender") /\ up["sender"] # <<>>
      BY <1>1, <1>2, <1>8 DEF Finish, Types
  <2>2. /\ read.line = Head(up["sender"]) /\ up'["sender"] = Tail(up["sender"])
        /\ up["sender"] \in Seq(WholeLines)
      BY <1>1, <1>2, <2>1 DEF Types
  <2>3. PICK line \in WholeLines : down'["sender"] = Append(down["sender"], line)
      BY <1>3, <2>1
  <2>4. /\ Len(up["sender"]) = 1 /\ down["sender"] = <<>>
        /\ \/ /\ pc["sender"] = "await_login" /\ serving["sender"] = "login"
              /\ up["sender"][1].tag = "slogin"
           \/ pc["sender"] = "await" /\ serving["sender"] = "chat"
           \/ /\ pc["sender"] = "await_quit" /\ serving["sender"] = "chat"
              /\ up["sender"][1].tag = "quit"
      BY <1>5, <2>1 DEF InStep, SenderInStep, Asked, Answered, Idle
  <2>5. up'["sender"] = <<>> /\ read.line = up["sender"][1]
      BY <2>2, <2>4, TailOfOne
  <2>6. Len(down'["sender"]) = 1
      BY <2>3, <2>4, OneAppended DEF InStep, Types
  <2>7. Answered("sender")'
      BY <2>5, <2>6 DEF Answered
  <2>8. /\ label = "chat" /\ serving'["sender"] = "chat"
        /\ pc["sender"] = "await_login" \/ pc["sender"] = "await"
      BY <1>4, <1>6, <1>8, <2>1, <2>4, <2>5
  <2> QED BY <1>2, <2>7, <2>8 DEF SenderInStep
<1> QED BY <1>2, <1>6, <1>7, <1>8 DEF SenderInStep

\* A text goes to the end of what the receiver is to print.
LEMMA BroadcastStep ==
    ASSUME Types, ReceiverInStep, Prefix, Same("receiver"), UNCHANGED <<member, shown>>,
           NEW text \in WholeTexts, Broadcast(text)
    PROVE  /\ ReceiverInStep' /\ Prefix'
           /\ queue' \in Seq(WholeTexts) /\ broadcast' \in Seq(WholeTexts)
<1>1. CASE ~member
  <2>1. RoomSame
      BY <1>1 DEF Broadcast, RoomSame
  <2> QED BY <2>1, ReceiverKept DEF RoomSame, Types
<1>2. CASE member
  <2>1. queue' = Append(queue, text) /\ broadcast' = Append(broadcast, text)
      BY <1>2 DEF Broadcast
  <2>2. /\ queue \in Seq(WholeTexts) /\ broadcast \in Seq(WholeTexts)
        /\ shown \in Seq(WholeTexts) /\ down["receiver"] \in Seq(WholeLines)
      BY DEF Types, Conns
  <2>3. queue' \in Seq(WholeTexts) /\ broadcast' \in Seq(WholeTexts)
      BY <2>1, <2>2
  <2>4. Prefix'
    <3>1. Len(broadcast') = Len(broadcast) + 1 /\ Len(broadcast) \in Nat /\ Len(shown) \in Nat
        BY <2>1, <2>2
    <3>2. \A n \in 1 .. Len(broadcast) : broadcast'[n] = broadcast[n]
        BY <2>1, <2>2
    <3> QED BY <3>1, <3>2 DEF Prefix
  <2>5. ASSUME Listening PROVE Listening'
    <3>1. ASSUME NEW some \in Seq(WholeTexts), some \o queue = broadcast
          PROVE  some \o queue' = broadcast'
        BY <2>1, <2>2, <3>1, AppendAfter
    <3>2. CASE pc["receiver"] = "await_join"
      <4>1. down["receiver"] # <<>> /\ Tail(down["receiver"]) \in Seq(WholeLines)
          BY <2>2, <2>5, <3>2, Parts DEF Listening
      <4>2. Texts(Tail(down["receiver"])) \in Seq(WholeTexts)
          BY <4>1, TextsAre
      <4>3. Texts(Tail(down["receiver"])) \o queue' = broadcast'
          BY <2>5, <3>1, <3>2, <4>2 DEF Listening
      <4>4. /\ UNCHANGED shown /\ pc'["receiver"] = pc["receiver"]
            /\ serving'["receiver"] = serving["receiver"]
            /\ down'["receiver"] = down["receiver"]
          BY DEF Same
      <4> QED BY <2>5, <3>2, <4>3, <4>4 DEF Listening, Serves, AllDeliveries, Texts
    <3>3. CASE pc["receiver"] = "listening"
      <4>1. shown \o Texts(down["receiver"]) \in Seq(WholeTexts)
          BY <2>2, TextsAre
      <4>2. (shown \o Texts(down["receiver"])) \o queue' = broadcast'
          BY <2>5, <3>1, <3>3, <4>1 DEF Listening
      <4>3. /\ UNCHANGED shown /\ pc'["receiver"] = pc["receiver"]
            /\ serving'["receiver"] = serving["receiver"]
            /\ down'["receiver"] = down["receiver"]
          BY DEF Same
      <4> QED BY <2>5, <3>3, <4>2, <4>3 DEF Listening, Serves, AllDeliveries, Texts
    <3> QED BY <2>5, <3>2, <3>3 DEF Listening
  <2>6. client_open'["receiver"] = client_open["receiver"] /\ ~Joining
      BY <1>2 DEF Same, Joining, Nothing
  <2> QED BY <2>3, <2>4, <2>5, <2>6 DEF ReceiverInStep
<1> QED BY <1>1, <1>2

\* The server crashes, whatever the programs are doing.
LEMMA CrashStep ==
    ASSUME InStep, Crash, cut' = {}, UNCHANGED <<down, member, queue, broadcast>>,
           NEW read \in FromClient("sender"), Serve("sender", read)
    PROVE  InStep'
<1>1. "sender" \in Conns /\ "receiver" \in Conns \ {"sender"} /\ Types /\ Closed
    BY DEF Conns, InStep
<1>2. /\ UNCHANGED <<pc, inputs, client_open, shown>>
      /\ up' \in [Conns -> Seq(WholeLines)]
      /\ up'["receiver"] = up["receiver"]
    BY <1>1, ServeRead
<1>3. /\ \A c \in Conns : serving'[c] = "crashed" /\ server_open'[c] = FALSE
      /\ serving' \in [Conns -> ServerStages] /\ server_open' \in [Conns -> BOOLEAN]
    BY DEF Crash, ServerStages
<1>4. Types'
    BY <1>1, <1>2, <1>3 DEF Types
<1>5. Closed'
    BY <1>1, <1>2, <1>3 DEF Closed
<1>6. SenderInStep'
    BY <1>1, <1>3 DEF SenderInStep
<1>7. Prefix'
    BY <1>2 DEF InStep, Prefix
<1>8. ASSUME Joining PROVE Joining'
    BY <1>1, <1>2, <1>3, <1>8 DEF Joining, Nothing, Serves, Idle, Answered, Asked
<1>9. ASSUME Listening PROVE Listening'
    BY <1>1, <1>2, <1>3, <1>9 DEF Listening, Serves, AllDeliveries, Texts
<1> QED BY <1>2, <1>4, <1>5, <1>6, <1>7, <1>8, <1>9 DEF InStep, ReceiverInStep

LEMMA SenderServedQuietly ==
    ASSUME InStep, NEW read \in FromClient("sender"), Serve("sender", read), cut' = {},
           UNCHANGED <<member, queue, broadcast>>,
           NEW tag \in {"ok", "err"}, Answer("sender", tag),
           \/ /\ serving["sender"] = "login" /\ GoOn("sender", "chat")
              /\ read.line.tag = "slogin"
           \/ /\ serving["sender"] = "login" /\ GoOn("sender", "join")
              /\ read.line.tag = "rlogin"
           \/ /\ serving["sender"] = "chat" /\ GoOn("sender", "chat")
              /\ read.line.tag # "quit"
           \/ serving["sender"] \in {"login", "chat"} /\ Finish("sender")
    PROVE  InStep'
<1>1. /\ Closed' /\ SenderInStep' /\ Same("receiver") /\ shown' = shown
      /\ queue' \in Seq(WholeTexts) /\ broadcast' \in Seq(WholeTexts) => Types'
    BY SenderServed
<1>2. Types' /\ RoomSame
    BY <1>1 DEF InStep, Types, RoomSame
<1> QED BY <1>1, <1>2, ReceiverKept DEF InStep

LEMMA ServeSenderStep == ASSUME InStep, cut' = {}, ServeSender PROVE InStep'
<1>1. serving["sender"] = "chat" /\ member' = member
    BY DEF ServeSender
<1>2. PICK read \in FromClient("sender") : Serve("sender", read) /\ Obey(read.line)
    BY Zenon DEF ServeSender
<1> DEFINE line == read.line
<1>3. CASE Failed(line) /\ Finish("sender") /\ Answer("sender", "err")
           /\ UNCHANGED <<room, queue, broadcast>>
    BY <1>1, <1>2, <1>3, SenderServedQuietly
<1>4. CASE line.tag = "join" /\ GoOn("sender", "chat") /\ AnswerJoin
           /\ UNCHANGED <<queue, broadcast>>
  <2>1. PICK tag \in {"ok", "err"} : Answer("sender", tag)
      BY <1>4 DEF AnswerJoin
  <2>2. line.tag # "quit"
      BY <1>4
  <2> QED BY <1>1, <1>2, <1>4, <2>1, <2>2, SenderServedQuietly
<1>5. CASE Crash /\ UNCHANGED <<down, room, queue, broadcast>>
    BY <1>1, <1>2, <1>5, CrashStep
<1>6. CASE line.tag = "sendall" /\ ServeText(line.text)
  <2>1. GoOn("sender", "chat") /\ Broadcast(line.text) /\ Answer("sender", "ok")
      BY <1>6 DEF ServeText
  <2>2. line.tag # "quit"
      BY <1>6
  <2>3. /\ Closed' /\ SenderInStep' /\ Same("receiver") /\ shown' = shown
        /\ queue' \in Seq(WholeTexts) /\ broadcast' \in Seq(WholeTexts) => Types'
      BY <1>1, <1>2, <2>1, <2>2, SenderServed
  <2>4. line \in WholeLines
    <3>1. line # Eof
        BY <1>6 DEF Eof
    <3>2. "sender" \in Conns /\ Types
        BY DEF Conns, InStep
    <3> QED BY <1>2, <3>1, <3>2, ServeRead
  <2>5. line.text \in WholeTexts
      BY <2>4 DEF WholeLines
  <2> HIDE DEF line
  <2>6. /\ ReceiverInStep' /\ Prefix'
        /\ queue' \in Seq(WholeTexts) /\ broadcast' \in Seq(WholeTexts)
      BY <1>1, <2>1, <2>3, <2>5, BroadcastStep DEF InStep
  <2> QED BY <2>3, <2>6 DEF InStep
<1>7. CASE line.tag = "quit" /\ Finish("sender") /\ Answer("sender", "ok")
           /\ UNCHANGED <<room, queue, broadcast>>
    BY <1>1, <1>2, <1>7, SenderServedQuietly
<1>8. CASE line.tag # "quit" /\ GoOn("sender", "chat") /\ Answer("sender", "err")
           /\ UNCHANGED <<room, queue, broadcast>>
    BY <1>1, <1>2, <1>8, SenderServedQuietly
<1> HIDE DEF line
<1>9. Obey(line)
    BY <1>2 DEF line
<1> QED BY <1>3, <1>4, <1>5, <1>6, <1>7, <1>8, <1>9, Zenon DEF Obey

LEMMA ServeSenderLogin == ASSUME InStep, cut' = {}, ServeLogin("sender") PROVE InStep'
<1>1. serving["sender"] = "login" /\ UNCHANGED <<member, queue, broadcast>>
    BY DEF ServeLogin
<1>2. PICK read \in FromClient("sender") :
          /\ Serve("sender", read)
          /\ \/ /\ read.line.tag = "slogin"
                /\ GoOn("sender", "chat") /\ Answer("sender", "ok")
             \/ /\ read.line.tag = "rlogin"
                /\ GoOn("sender", "join") /\ Answer("sender", "ok")
             \/ /\ read.line.tag \notin {"slogin", "rlogin"}
                /\ Finish("sender") /\ Answer("sender", "err")
    BY Zenon DEF ServeLogin
<1> QED BY <1>1, <1>2, SenderServedQuietly
-----------------------------------------------------------------------------
(* The receiver and its thread                                             *)

LEMMA ReceiverAsks ==
    ASSUME InStep, NEW line \in WholeLines, NEW next \in ClientStages,
           Ask("receiver", line, next, "exited"), UNCHANGED inputs,
           \/ pc["receiver"] = "login" /\ next = "await_login" /\ line.tag = "rlogin"
           \/ pc["receiver"] = "join" /\ next = "await_join" /\ line.tag = "join"
    PROVE  InStep'
<1>1. /\ "receiver" \in Conns /\ "sender" \in Conns \ {"receiver"} /\ Types /\ Closed
      /\ inputs' \in Nat /\ "exited" \in ClientStages
    BY DEF Conns, ClientStages, InStep, Types
<1>2. /\ Types' /\ Closed' /\ RoomSame /\ Same("sender")
      /\ serving' = serving /\ server_open' = server_open /\ down' = down
      /\ server_open["receiver"] =>
             pc'["receiver"] = next /\ up'["receiver"] = Append(up["receiver"], line)
      /\ ~server_open["receiver"] => /\ up'["receiver"] = up["receiver"]
                                     /\ pc'["receiver"] \in {next, "exited", "killed"}
    BY <1>1, AskStep
<1>3. SenderInStep' /\ Prefix'
    BY <1>2, SenderKept DEF InStep, Prefix, RoomSame
<1>4. ASSUME client_open'["receiver"] PROVE Joining'
  <2>1. client_open["receiver"] /\ pc'["receiver"] = next
      BY <1>1, <1>2, <1>4 DEF Closed, Ends
  <2>2. Joining /\ ~Listening
      BY <2>1 DEF InStep, ReceiverInStep, Listening
  <2>3. /\ Idle("receiver")
        /\ pc["receiver"] = "login" => Serves("login")
        /\ pc["receiver"] = "join" => Serves("join")
      BY <2>2 DEF Joining
  <2>4. up["receiver"] \in Seq(WholeLines)
      BY <1>1 DEF Types
  <2>5. ASSUME server_open["receiver"]
        PROVE  Len(up'["receiver"]) = 1 /\ up'["receiver"][1] = line
    <3>1. up["receiver"] = <<>> /\ up'["receiver"] = Append(up["receiver"], line)
        BY <1>2, <2>3, <2>5 DEF Idle
    <3>2. Len(Append(up["receiver"], line)) = 1 /\ Append(up["receiver"], line)[1] = line
        BY <2>4, <3>1, OneAppended
    <3> QED BY <3>1, <3>2
  <2>6. Nothing' /\ down'["receiver"] = <<>> /\ (\A t : Serves(t)' <=> Serves(t))
      BY <1>2, <2>2, <2>3 DEF Joining, Nothing, RoomSame, Idle, Serves
  <2>7. server_open'["receiver"] => Asked("receiver", {line.tag})'
      BY <1>2, <2>5, <2>6 DEF Asked
  <2> QED BY <2>1, <2>3, <2>6, <2>7 DEF Joining
<1> QED BY <1>2, <1>3, <1>4 DEF InStep, ReceiverInStep

LEMMA AwaitLoginStep == ASSUME InStep, cut' = {}, AwaitLogin("receiver") PROVE InStep'
<1>1. /\ "receiver" \in Conns /\ "sender" \in Conns \ {"receiver"} /\ Types /\ Closed
      /\ "exited" \in ClientStages /\ "join" \in ClientStages
      /\ pc["receiver"] = "await_login" /\ shown' = shown /\ shown' \in Seq(WholeTexts)
    BY DEF Conns, ClientStages, InStep, Types, AwaitLogin
<1>2. PICK read \in FromServer("receiver") :
          /\ Hear("receiver", read)
          /\ Goto("receiver", IF Refused(read.line) THEN "exited" ELSE "join")
    BY Zenon DEF AwaitLogin
<1> DEFINE label == IF Refused(read.line) THEN "exited" ELSE "join"
<1>3. label \in ClientStages /\ Goto("receiver", label)
    BY <1>1, <1>2
<1>4. label = "join" => read.line # Eof
    BY DEF Refused, Failed, Eof
<1>5. label \in {"exited", "join"}
    OBVIOUS
<1> HIDE DEF label
<1>6. /\ Types' /\ Closed' /\ RoomSame /\ Same("sender")
      /\ serving' = serving /\ server_open' = server_open /\ up' = up
      /\ pc'["receiver"] = label /\ (client_open'["receiver"] <=> label \notin Ends)
      /\ \/ /\ down["receiver"] # <<>> /\ read.line = Head(down["receiver"])
            /\ down'["receiver"] = Tail(down["receiver"])
         \/ ~server_open["receiver"] /\ read.line = Eof /\ down'["receiver"] = <<>>
    BY <1>1, <1>2, <1>3, HearStep DEF RoomSame
<1>7. SenderInStep' /\ Prefix'
    BY <1>6, SenderKept DEF InStep, Prefix, RoomSame
<1>8. ASSUME client_open'["receiver"] PROVE Joining'
  <2>1. label = "join" /\ down["receiver"] # <<>> /\ client_open["receiver"]
        /\ down'["receiver"] = Tail(down["receiver"])
      BY <1>1, <1>4, <1>5, <1>6, <1>8 DEF Ends, Closed
  <2>2. Nothing /\ Serves("join") /\ Answered("receiver")
      BY <1>1, <2>1 DEF InStep, ReceiverInStep, Joining, Listening
  <2>3. down["receiver"] \in Seq(WholeLines)
      BY <1>1 DEF Types
  <2>4. down'["receiver"] = <<>> /\ up'["receiver"] = <<>>
      BY <1>6, <2>1, <2>2, <2>3, TailOfOne DEF Answered
  <2> QED BY <1>6, <2>1, <2>2, <2>4 DEF Joining, Nothing, RoomSame, Serves, Idle
<1> QED BY <1>6, <1>7, <1>8 DEF InStep, ReceiverInStep

LEMMA AwaitJoinStep == ASSUME InStep, cut' = {}, AwaitJoin PROVE InStep'
<1>1. /\ "receiver" \in Conns /\ "sender" \in Conns \ {"receiver"} /\ Types /\ Closed
      /\ "exited" \in ClientStages /\ "listening" \in ClientStages
      /\ pc["receiver"] = "await_join" /\ shown' = shown /\ shown' \in Seq(WholeTexts)
    BY DEF Conns, ClientStages, InStep, Types, AwaitJoin
<1>2. PICK read \in FromServer("receiver") :
          /\ Hear("receiver", read)
          /\ Goto("receiver", IF Refused(read.line) THEN "exited" ELSE "listening")
    BY Zenon DEF AwaitJoin
<1> DEFINE label == IF Refused(read.line) THEN "exited" ELSE "listening"
<1>3. label \in ClientStages /\ Goto("receiver", label)
    BY <1>1, <1>2
<1>4. label = "listening" => read.line # Eof
    BY DEF Refused, Failed, Eof
<1>5. label \in {"exited", "listening"}
    OBVIOUS
<1> HIDE DEF label
<1>6. /\ Types' /\ Closed' /\ RoomSame /\ Same("sender")
      /\ serving' = serving /\ server_open' = server_open /\ up' = up
      /\ pc'["receiver"] = label /\ (client_open'["receiver"] <=> label \notin Ends)
      /\ \/ /\ down["receiver"] # <<>> /\ read.line = Head(down["receiver"])
            /\ down'["receiver"] = Tail(down["receiver"])
         \/ ~server_open["receiver"] /\ read.line = Eof /\ down'["receiver"] = <<>>
    BY <1>1, <1>2, <1>3, HearStep DEF RoomSame
<1>7. SenderInStep' /\ Prefix'
    BY <1>6, SenderKept DEF InStep, Prefix, RoomSame
<1>8. ASSUME client_open'["receiver"] PROVE Listening'
  <2>1. label = "listening" /\ down["receiver"] # <<>> /\ client_open["receiver"]
        /\ down'["receiver"] = Tail(down["receiver"])
      BY <1>1, <1>4, <1>5, <1>6, <1>8 DEF Ends, Closed
  <2>2. Listening
      BY <1>1, <2>1 DEF InStep, ReceiverInStep, Joining
  <2>3. /\ Serves("deliver") /\ shown = <<>> /\ AllDeliveries(Tail(down["receiver"]))
        /\ Texts(Tail(down["receiver"])) \o queue = broadcast
      BY <1>1, <2>2 DEF Listening
  <2>4. Tail(down["receiver"]) \in Seq(WholeLines)
      BY <1>1, <2>1, Parts DEF Types
  <2>5. <<>> \o Texts(Tail(down["receiver"])) = Texts(Tail(down["receiver"]))
      BY <2>4, TextsAre
  <2>6. (shown' \o Texts(down'["receiver"])) \o queue' = broadcast'
      BY <1>6, <2>1, <2>3, <2>5 DEF RoomSame
  <2> QED BY <1>6, <2>1, <2>3, <2>6 DEF Listening, Serves, AllDeliveries, Texts
<1> QED BY <1>6, <1>7, <1>8 DEF InStep, ReceiverInStep

\* A delivery is printed.
LEMMA ListenStep == ASSUME InStep, cut' = {}, Listen PROVE InStep'
<1>1. /\ "receiver" \in Conns /\ "sender" \in Conns \ {"receiver"} /\ Types /\ Closed
      /\ "exited" \in ClientStages /\ "listening" \in ClientStages
      /\ pc["receiver"] = "listening" /\ client_open["receiver"]
    BY DEF Conns, ClientStages, InStep, Closed, Ends, Listen
<1>2. PICK read \in FromServer("receiver") :
          /\ Hear("receiver", read)
          /\ Goto("receiver", IF Refused(read.line) THEN "exited" ELSE "listening")
          /\ shown' = IF read.line.tag = "delivery"
                      THEN Append(shown, read.line.text) ELSE shown
    BY Zenon DEF Listen
<1> DEFINE label == IF Refused(read.line) THEN "exited" ELSE "listening"
           D == down["receiver"]
<1>3. label \in ClientStages /\ Goto("receiver", label) /\ label \in {"exited", "listening"}
    BY <1>1, <1>2
<1>4. /\ Serves("deliver") /\ AllDeliveries(D)
      /\ (shown \o Texts(D)) \o queue = broadcast
    BY <1>1 DEF InStep, ReceiverInStep, Joining, Listening
<1>5. /\ D \in Seq(WholeLines) /\ shown \in Seq(WholeTexts) /\ queue \in Seq(WholeTexts)
      /\ broadcast \in Seq(WholeTexts)
      /\ Texts(D) \in Seq(WholeTexts)
    BY <1>1, TextsAre DEF Types
<1>6. \/ D # <<>> /\ read.line = Head(D)
      \/ read.line = Eof
  <2>1. read \in Reads(D, server_open["receiver"]) /\ read.cut = {}
      BY <1>2 DEF FromServer, Hear
  <2> QED BY <1>5, <2>1, ReadWhole
<1>7. D # <<>> => Head(D).tag = "delivery" /\ Head(D) \in WholeLines
    BY <1>4, <1>5, DeliveriesOfTail, Parts
<1>8. shown' \in Seq(WholeTexts)
  <2>1. D # <<>> => Head(D).text \in WholeTexts
      BY <1>7 DEF WholeLines
  <2>2. CASE read.line = Eof
      BY <1>2, <1>5, <2>2 DEF Eof
  <2>3. CASE D # <<>> /\ read.line = Head(D)
      BY <1>2, <1>5, <1>7, <2>1, <2>3
  <2> QED BY <1>6, <2>2, <2>3
<1>9. label = "listening" => read.line # Eof
    BY DEF Refused, Failed, Eof
<1> HIDE DEF label
<1>10. /\ Types' /\ Closed' /\ Same("sender") /\ UNCHANGED <<member, queue, broadcast>>
       /\ serving' = serving /\ server_open' = server_open /\ up' = up
       /\ pc'["receiver"] = label /\ (client_open'["receiver"] <=> label \notin Ends)
       /\ \/ /\ D # <<>> /\ read.line = Head(D) /\ down'["receiver"] = Tail(D)
          \/ read.line = Eof
    BY <1>1, <1>2, <1>3, <1>8, HearStep
<1>11. SenderInStep'
    BY <1>10, SenderKept DEF InStep
<1>12. CASE read.line = Eof
  <2>1. label = "exited" /\ shown' = shown
      BY <1>2, <1>3, <1>9, <1>12 DEF Eof
  <2>2. ~client_open'["receiver"]
      BY <1>10, <2>1 DEF Ends
  <2>3. Prefix'
      BY <1>10, <2>1 DEF InStep, Prefix
  <2> QED BY <1>10, <1>11, <2>2, <2>3 DEF InStep, ReceiverInStep
<1>13. CASE D # <<>> /\ read.line = Head(D) /\ down'["receiver"] = Tail(D)
  <2>1. shown' = Append(shown, Head(D).text)
      BY <1>2, <1>7, <1>13
  <2>2. /\ Texts(D) # <<>> /\ Head(Texts(D)) = Head(D).text
        /\ Texts(Tail(D)) = Tail(Texts(D))
      BY <1>5, <1>13, TextsOfTail
  <2>3. shown' \o Texts(Tail(D)) = shown \o Texts(D)
      BY <1>5, <2>1, <2>2, FirstMoves
  <2>4. (shown' \o Texts(Tail(D))) \o queue = broadcast
      BY <1>4, <2>3
  <2>5. Texts(Tail(D)) \in Seq(WholeTexts) /\ AllDeliveries(Tail(D))
      BY <1>4, <1>5, <1>13, Parts, TextsAre, DeliveriesOfTail
  <2>6. Prefix'
    <3> DEFINE some == shown' \o Texts(Tail(D))
    <3>1. some \in Seq(WholeTexts)
        BY <1>8, <2>5
    <3>2. Len(shown') <= Len(some) /\ \A n \in 1 .. Len(shown') : shown'[n] = some[n]
        BY <1>8, <2>5, <3>1, FirstPart
    <3>3. some \o queue = broadcast
        BY <2>4
    <3>4. Len(shown') \in Nat /\ Len(some) \in Nat /\ Len(broadcast) \in Nat
        BY <1>5, <1>8, <3>1
    <3> HIDE DEF some
    <3>5. Len(some) <= Len(broadcast) /\ \A n \in 1 .. Len(some) : some[n] = broadcast[n]
        BY <1>5, <3>1, <3>3, FirstPart
    <3> QED BY <1>10, <3>2, <3>4, <3>5 DEF Prefix
  <2>7. client_open'["receiver"] => Listening'
    <3>1. client_open'["receiver"] => label = "listening"
        BY <1>3, <1>10 DEF Ends
    <3>2. Serves("deliver")'
        BY <1>4, <1>10 DEF Serves
    <3>3. AllDeliveries(down["receiver"])' /\
          ((shown \o Texts(down["receiver"])) \o queue = broadcast)'
        BY <1>10, <1>13, <2>4, <2>5 DEF AllDeliveries, Texts
    <3> QED BY <1>10, <3>1, <3>2, <3>3 DEF Listening
  <2> QED BY <1>10, <1>11, <2>6, <2>7 DEF InStep, ReceiverInStep
<1> QED BY <1>10, <1>12, <1>13

LEMMA ReceiverStops ==
    ASSUME InStep, NEW label \in Ends, Goto("receiver", label),
           UNCHANGED <<inputs, shown, up, down, cut, serverVars>>
    PROVE  InStep'
<1>1. "receiver" \in Conns /\ "sender" \in Conns \ {"receiver"} /\ label \in ClientStages
    BY DEF Conns, Ends, ClientStages
<1>2. /\ UNCHANGED <<serving, server_open, inputs, up, down>> /\ RoomSame
    BY DEF serverVars, RoomSame
<1>3. /\ pc' \in [Conns -> ClientStages] /\ client_open' \in [Conns -> BOOLEAN]
      /\ Closed' /\ client_open'["receiver"] = FALSE
      /\ \A d \in Conns \ {"receiver"} :
             pc'[d] = pc[d] /\ client_open'[d] = client_open[d]
    BY <1>1, <1>2, GotoStep DEF InStep
<1>4. Same("sender") /\ Types'
    BY <1>1, <1>2, <1>3 DEF Same, InStep, Types, RoomSame
<1>5. Prefix'
    BY <1>2 DEF RoomSame, InStep, Prefix
<1> QED BY <1>3, <1>4, <1>5, SenderKept DEF InStep, ReceiverInStep

\* The thread answers the login.
LEMMA ServeReceiverLogin == ASSUME InStep, cut' = {}, ServeLogin("receiver") PROVE InStep'
<1>1. /\ "receiver" \in Conns /\ "sender" \in Conns \ {"receiver"} /\ Types /\ Closed
      /\ serving["receiver"] = "login" /\ server_open["receiver"]
      /\ UNCHANGED <<member, queue, broadcast>>
    BY DEF Conns, InStep, Closed, ServeLogin
<1>2. PICK read \in FromClient("receiver") :
          /\ Serve("receiver", read)
          /\ \/ /\ read.line.tag = "slogin"
                /\ GoOn("receiver", "chat") /\ Answer("receiver", "ok")
             \/ /\ read.line.tag = "rlogin"
                /\ GoOn("receiver", "join") /\ Answer("receiver", "ok")
             \/ /\ read.line.tag \notin {"slogin", "rlogin"}
                /\ Finish("receiver") /\ Answer("receiver", "err")
    BY Zenon DEF ServeLogin
<1>3. /\ UNCHANGED <<pc, inputs, client_open, shown>>
      /\ up' \in [Conns -> Seq(WholeLines)]
      /\ up'["sender"] = up["sender"]
      /\ \/ /\ up["receiver"] # <<>> /\ read.line = Head(up["receiver"])
            /\ up'["receiver"] = Tail(up["receiver"])
         \/ ~client_open["receiver"]
    BY <1>1, <1>2, ServeRead
<1>4. PICK label \in {"chat", "join"} :
          /\ GoOn("receiver", label) \/ Finish("receiver")
          /\ read.line.tag = "rlogin" => GoOn("receiver", "join") /\ label = "join"
    BY <1>2
<1>5. PICK tag \in {"ok", "err"} : Answer("receiver", tag)
    BY <1>2
<1>6. /\ down' \in [Conns -> Seq(WholeLines)] /\ down'["sender"] = down["sender"]
      /\ client_open["receiver"] => \E line \in WholeLines :
             down'["receiver"] = Append(down["receiver"], line)
    BY <1>1, <1>5, AnswerStep
<1>7. label \in ServerStages \ {"ended", "crashed"}
    BY DEF ServerStages
<1>8. /\ serving' \in [Conns -> ServerStages] /\ server_open' \in [Conns -> BOOLEAN]
      /\ Closed'
      /\ serving'["sender"] = serving["sender"]
      /\ server_open'["sender"] = server_open["sender"]
    BY <1>1, <1>3, <1>4, <1>7, ThreadStep
<1>9. Types' /\ Same("sender") /\ RoomSame
    BY <1>1, <1>3, <1>6, <1>8 DEF Types, Same, RoomSame
<1>10. SenderInStep' /\ Prefix'
    BY <1>9, SenderKept DEF InStep, Prefix, RoomSame
<1>11. ASSUME client_open'["receiver"] PROVE Joining'
  <2>1. client_open["receiver"] /\ up["receiver"] # <<>>
      BY <1>3, <1>11
  <2>2. /\ Nothing /\ pc["receiver"] = "await_login" /\ Asked("receiver", {"rlogin"})
      BY <1>1, <2>1 DEF InStep, ReceiverInStep, Joining, Listening, Serves, Idle, Answered
  <2>3. up["receiver"] \in Seq(WholeLines) /\ down["receiver"] = <<>>
      BY <1>1, <2>2 DEF Types, Asked
  <2>4. up'["receiver"] = <<>> /\ read.line.tag = "rlogin"
      BY <1>3, <2>1, <2>2, <2>3, TailOfOne DEF Asked
  <2>5. PICK line \in WholeLines : down'["receiver"] = Append(down["receiver"], line)
      BY <1>6, <2>1
  <2>6. Len(down'["receiver"]) = 1
    <3>1. down["receiver"] \in Seq(WholeLines)
        BY <1>1 DEF Types
    <3> QED BY <2>3, <2>5, <3>1, OneAppended
  <2>7. serving'["receiver"] = "join"
      BY <1>1, <1>4, <2>4 DEF GoOn, Types
  <2> QED BY <1>3, <1>9, <2>2, <2>4, <2>6, <2>7
          DEF Joining, Nothing, RoomSame, Serves, Answered
<1> QED BY <1>8, <1>9, <1>10, <1>11 DEF InStep, ReceiverInStep

\* The thread answers the join, and the receiver is a member.
LEMMA ServeJoinStep == ASSUME InStep, cut' = {}, ServeJoin PROVE InStep'
<1>1. /\ "receiver" \in Conns /\ "sender" \in Conns \ {"receiver"} /\ Types /\ Closed
      /\ serving["receiver"] = "join" /\ server_open["receiver"]
      /\ UNCHANGED <<queue, broadcast>>
    BY DEF Conns, InStep, Closed, ServeJoin
<1>2. PICK read \in FromClient("receiver") :
          /\ Serve("receiver", read)
          /\ IF read.line.tag = "join"
             THEN /\ GoOn("receiver", "deliver") /\ Answer("receiver", "ok")
                  /\ member' = TRUE
             ELSE /\ Finish("receiver") /\ Answer("receiver", "err")
                  /\ UNCHANGED member
    BY Zenon DEF ServeJoin
<1>3. /\ UNCHANGED <<pc, inputs, client_open, shown>>
      /\ up' \in [Conns -> Seq(WholeLines)]
      /\ up'["sender"] = up["sender"]
      /\ \/ /\ up["receiver"] # <<>> /\ read.line = Head(up["receiver"])
            /\ up'["receiver"] = Tail(up["receiver"])
         \/ ~client_open["receiver"]
    BY <1>1, <1>2, ServeRead
<1>4. PICK tag \in {"ok", "err"} :
          /\ Answer("receiver", tag)
          /\ read.line.tag = "join" => tag = "ok"
    BY <1>2
<1>5. /\ down' \in [Conns -> Seq(WholeLines)] /\ down'["sender"] = down["sender"]
      /\ client_open["receiver"] => \E line \in WholeLines :
             line.tag = tag /\ down'["receiver"] = Append(down["receiver"], line)
    BY <1>1, <1>4, AnswerStep
<1>6. "deliver" \in ServerStages \ {"ended", "crashed"}
    BY DEF ServerStages
<1>7. GoOn("receiver", "deliver") \/ Finish("receiver")
    BY <1>2
<1>8. /\ serving' \in [Conns -> ServerStages] /\ server_open' \in [Conns -> BOOLEAN]
      /\ Closed'
      /\ serving'["sender"] = serving["sender"]
      /\ server_open'["sender"] = server_open["sender"]
    BY <1>1, <1>3, <1>6, <1>7, ThreadStep
<1>9. Types' /\ Same("sender")
    BY <1>1, <1>3, <1>5, <1>8 DEF Types, Same
<1>10. SenderInStep' /\ Prefix'
    BY <1>1, <1>3, <1>9, SenderKept DEF InStep, Prefix
<1>11. ASSUME client_open'["receiver"] PROVE Listening'
  <2>1. client_open["receiver"] /\ up["receiver"] # <<>>
      BY <1>3, <1>11
  <2>2. /\ Nothing /\ pc["receiver"] = "await_join" /\ Asked("receiver", {"join"})
      BY <1>1, <2>1 DEF InStep, ReceiverInStep, Joining, Listening, Serves, Idle, Answered
  <2>3. up["receiver"] \in Seq(WholeLines) /\ down["receiver"] = <<>>
      BY <1>1, <2>2 DEF Types, Asked
  <2>4. read.line.tag = "join"
      BY <1>3, <2>1, <2>2, <2>3, TailOfOne DEF Asked
  <2>5. PICK line \in WholeLines :
            line.tag = "ok" /\ down'["receiver"] = Append(down["receiver"], line)
      BY <1>4, <1>5, <2>1, <2>4
  <2>6. down'["receiver"] \in Seq(WholeLines) /\ Len(down'["receiver"]) = 1
        /\ down'["receiver"][1] = line
      BY <1>1, <1>5, <2>3, <2>5, OneAppended
  <2>7. /\ down'["receiver"] # <<>> /\ Head(down'["receiver"]) = line
        /\ Tail(down'["receiver"]) = <<>>
      BY <2>6, TailOfOne
  <2>8. Texts(<<>>) \o <<>> = <<>> /\ AllDeliveries(<<>>)
      BY TextsOfNone DEF AllDeliveries
  <2>9. serving'["receiver"] = "deliver"
      BY <1>1, <1>2, <2>4 DEF GoOn, Types
  <2>10. /\ queue' = <<>> /\ broadcast' = <<>> /\ shown' = <<>>
         /\ pc'["receiver"] = "await_join"
      BY <1>1, <1>3, <2>2 DEF Nothing
  <2>11. AllDeliveries(Tail(down["receiver"]))' /\
         (Texts(Tail(down["receiver"])) \o queue = broadcast)'
      BY <2>7, <2>8, <2>10 DEF AllDeliveries, Texts
  <2> QED BY <2>5, <2>7, <2>9, <2>10, <2>11 DEF Listening, Serves
<1> QED BY <1>8, <1>9, <1>10, <1>11 DEF InStep, ReceiverInStep

LEMMA TailOfAppended ==
    ASSUME NEW T, NEW s \in Seq(T), s # <<>>, NEW x \in T
    PROVE  /\ Append(s, x) # <<>> /\ Head(Append(s, x)) = Head(s)
           /\ Tail(Append(s, x)) = Append(Tail(s), x)
<1>1. Tail(s) \in Seq(T) /\ Len(Tail(s)) = Len(s) - 1 /\ Len(s) \in Nat /\ Len(s) >= 1
      /\ Head(s) = s[1] /\ \A n \in 1 .. Len(s) - 1 : Tail(s)[n] = s[n + 1]
    BY Parts
<1>2. Len(s) \in Nat
    BY <1>1
<1> DEFINE a == Append(s, x)
           u == Tail(a)
           v == Append(Tail(s), x)
<1>3. a \in Seq(T) /\ Len(a) = Len(s) + 1 /\ a # <<>> /\ a[1] = s[1]
      /\ \A n \in 1 .. Len(s) : a[n] = s[n]
      /\ a[Len(s) + 1] = x
    BY <1>1
<1>4. v \in Seq(T) /\ Len(v) = Len(s) /\ v[Len(s)] = x
      /\ \A n \in 1 .. Len(s) - 1 : v[n] = s[n + 1]
    BY <1>1
<1> HIDE DEF a, v
<1>5. u \in Seq(T) /\ Len(u) = Len(s) /\ Head(a) = a[1]
      /\ \A n \in 1 .. Len(s) : u[n] = a[n + 1]
    BY <1>1, <1>3, Parts
<1> HIDE DEF u
<1>6. ASSUME NEW n \in 1 .. Len(s) PROVE u[n] = v[n]
  <2>1. CASE n = Len(s)
      BY <1>3, <1>4, <1>5, <2>1
  <2>2. CASE n # Len(s)
    <3>1. n \in 1 .. Len(s) - 1 /\ n + 1 \in 1 .. Len(s)
        BY <1>2, <2>2
    <3> QED BY <1>3, <1>4, <1>5, <3>1
  <2> QED BY <2>1, <2>2
<1>7. u = v
    BY <1>4, <1>5, <1>6
<1> QED BY <1>1, <1>3, <1>5, <1>7 DEF a, u, v

\* The oldest text leaves the queue and is on its way.
LEMMA DeliverStep == ASSUME InStep, cut' = {}, Deliver PROVE InStep'
<1>1. /\ "receiver" \in Conns /\ "sender" \in Conns \ {"receiver"} /\ Types /\ Closed
      /\ serving["receiver"] = "deliver" /\ server_open["receiver"]
      /\ queue # <<>> /\ queue \in Seq(WholeTexts)
      /\ UNCHANGED <<pc, inputs, client_open, shown, broadcast, up>>
    BY DEF Conns, InStep, Closed, Types, Deliver, clientVars
<1> DEFINE text == Head(queue)
           line == Line("delivery", text)
           D == down["receiver"]
<1>2. /\ queue' = Tail(queue)
      /\ down' = [down EXCEPT !["receiver"] = Sent(@, client_open["receiver"], line)]
      /\ GoOn("receiver", "deliver") \/ (~client_open["receiver"] /\ Finish("receiver"))
    BY DEF Deliver, DequeueAndSend
<1>3. text \in WholeTexts /\ Tail(queue) \in Seq(WholeTexts)
    BY <1>1, Parts
<1>4. line \in WholeLines /\ line.tag = "delivery" /\ line.text = text
    BY <1>3, LineIsWhole DEF Tags
<1> HIDE DEF line, text
<1>5. /\ down' \in [Conns -> Seq(WholeLines)] /\ down'["sender"] = down["sender"]
      /\ client_open["receiver"] => down'["receiver"] = Append(D, line)
    BY <1>1, <1>2, <1>4, SentStep
<1>6. "deliver" \in ServerStages \ {"ended", "crashed"}
    BY DEF ServerStages
<1>7. /\ serving' \in [Conns -> ServerStages] /\ server_open' \in [Conns -> BOOLEAN]
      /\ Closed'
      /\ serving'["sender"] = serving["sender"]
      /\ server_open'["sender"] = server_open["sender"]
    BY <1>1, <1>2, <1>6, ThreadStep
<1>8. Types' /\ Same("sender")
    BY <1>1, <1>2, <1>3, <1>5, <1>7 DEF Types, Same
<1>9. SenderInStep' /\ Prefix'
    BY <1>1, <1>8, SenderKept DEF InStep, Prefix
<1>10. ASSUME client_open'["receiver"] PROVE Listening'
  <2>1. client_open["receiver"]
      BY <1>1, <1>10
  <2>2. Listening
      BY <1>1, <2>1 DEF InStep, ReceiverInStep, Joining, Nothing
  <2>3. serving'["receiver"] = "deliver"
      BY <1>1, <1>2, <2>1 DEF GoOn, Types
  <2>4. down'["receiver"] = Append(D, line) /\ D \in Seq(WholeLines)
        /\ shown \in Seq(WholeTexts)
      BY <1>1, <1>5, <2>1 DEF Types
  <2>5. ASSUME NEW lines \in Seq(WholeLines)
        PROVE  Texts(Append(lines, line)) \o Tail(queue) = Texts(lines) \o queue
      BY <1>1, <1>4, <2>5, TextsOfAppended, TextsAre, FirstMoves DEF text
  <2>6. CASE pc["receiver"] = "await_join"
    <3>1. /\ D # <<>> /\ Head(D).tag = "ok" /\ shown = <<>>
          /\ AllDeliveries(Tail(D)) /\ Texts(Tail(D)) \o queue = broadcast
        BY <2>2, <2>6 DEF Listening
    <3>2. Tail(D) \in Seq(WholeLines)
        BY <2>4, <3>1, Parts
    <3>3. /\ down'["receiver"] # <<>> /\ Head(down'["receiver"]) = Head(D)
          /\ Tail(down'["receiver"]) = Append(Tail(D), line)
        BY <1>4, <2>4, <3>1, TailOfAppended
    <3>4. AllDeliveries(Append(Tail(D), line))
        BY <1>4, <3>1, <3>2, DeliveriesAppended
    <3>5. Texts(Append(Tail(D), line)) \o Tail(queue) = broadcast
        BY <2>5, <3>1, <3>2
    <3>6. /\ AllDeliveries(Tail(down'["receiver"]))
          /\ Texts(Tail(down'["receiver"])) \o queue' = broadcast'
        BY <1>1, <1>2, <3>3, <3>4, <3>5
    <3>7. AllDeliveries(Tail(down["receiver"]))' /\
          (Texts(Tail(down["receiver"])) \o queue = broadcast)'
        BY <3>6 DEF AllDeliveries, Texts
    <3> QED BY <1>1, <2>3, <2>6, <3>1, <3>3, <3>7 DEF Listening, Serves
  <2>7. CASE pc["receiver"] = "listening"
    <3>1. AllDeliveries(D) /\ (shown \o Texts(D)) \o queue = broadcast
        BY <2>2, <2>7 DEF Listening
    <3>2. AllDeliveries(Append(D, line))
        BY <1>4, <2>4, <3>1, DeliveriesAppended
    <3>3. Texts(Append(D, line)) = Append(Texts(D), text) /\ Texts(D) \in Seq(WholeTexts)
        BY <1>4, <2>4, TextsOfAppended, TextsAre
    <3>4. shown \o Texts(Append(D, line)) = Append(shown \o Texts(D), text)
        BY <1>3, <2>4, <3>3, AppendAfter
    <3>5. shown \o Texts(D) \in Seq(WholeTexts)
        BY <2>4, <3>3
    <3>6. (shown \o Texts(Append(D, line))) \o Tail(queue) = broadcast
        BY <1>1, <3>1, <3>4, <3>5, FirstMoves DEF text
    <3>7. /\ AllDeliveries(down'["receiver"])
          /\ (shown' \o Texts(down'["receiver"])) \o queue' = broadcast'
        BY <1>1, <1>2, <2>4, <3>2, <3>6
    <3>8. AllDeliveries(down["receiver"])' /\
          ((shown \o Texts(down["receiver"])) \o queue = broadcast)'
        BY <3>7 DEF AllDeliveries, Texts
    <3> QED BY <1>1, <2>3, <2>7, <3>8 DEF Listening, Serves
  <2> QED BY <2>2, <2>6, <2>7 DEF Listening
<1> QED BY <1>7, <1>8, <1>9, <1>10 DEF InStep, ReceiverInStep
-----------------------------------------------------------------------------
(* The invariant                                                           *)

LEMMA CutsStay == ASSUME [Next]_vars, cut' = {} PROVE cut = {}
<1>1. CASE UNCHANGED vars
    BY <1>1 DEF vars
<1>2. ASSUME NEW c \in Conns, Client(c) PROVE cut = {}
    BY <1>2 DEF Client, Login, AwaitLogin, Await, AwaitQuit, Join, AwaitJoin, Listen, Ask,
                Hear
<1>3. ASSUME NEW c \in Conns, Thread(c) PROVE cut = {}
    BY <1>3 DEF Thread, ServeLogin, ServeSender, ServeJoin, Deliver, Serve
<1>4. ASSUME NEW c \in Conns, Interrupt(c) PROVE cut = {}
    BY <1>4 DEF Interrupt
<1>5. CASE Type \/ EndOfInput \/ Quiet
    BY <1>5 DEF Type, EndOfInput, Quiet, Ask, vars
<1> QED BY <1>1, <1>2, <1>3, <1>4, <1>5 DEF Next

LEMMA Stutter == ASSUME InStep, UNCHANGED vars PROVE InStep'
<1>1. /\ UNCHANGED <<pc, inputs, serving, up, down, client_open, server_open>>
      /\ RoomSame
    BY DEF vars, clientVars, serverVars, RoomSame
<1>2. Same("sender") /\ Same("receiver") /\ Types'
    BY <1>1 DEF Same, InStep, Types, RoomSame
<1>3. Closed'
    BY <1>1 DEF InStep, Closed
<1> QED BY <1>1, <1>2, <1>3, SenderKept, ReceiverKept DEF InStep

LEMMA ClientStep ==
    ASSUME InStep, cut' = {}, NEW c \in Conns, Client(c) \/ Interrupt(c)
    PROVE  InStep'
<1> USE DEF ClientStages
<1>1. CASE Login("sender")
    BY <1>1, LineIsWhole, NoTextIsWhole, SenderAsks DEF Login, Tags, InStep, Types
<1>2. CASE AwaitLogin("sender")
  <2>1. PICK read \in FromServer("sender") :
            /\ Hear("sender", read)
            /\ \/ Goto("sender", "exited")
               \/ Goto("sender", "prompt")
      BY <1>2, Zenon DEF AwaitLogin
  <2> QED BY <1>2, <2>1, SenderHears DEF AwaitLogin
<1>3. CASE Await \/ AwaitQuit
  <2>1. PICK read \in FromServer("sender") : Hear("sender", read)
      BY <1>3, Zenon DEF Await, AwaitQuit
  <2> QED BY <1>3, <2>1, SenderHears DEF Await, AwaitQuit
<1>4. CASE Login("receiver")
    BY <1>4, LineIsWhole, NoTextIsWhole, ReceiverAsks DEF Login, Tags
<1>5. CASE Join
    BY <1>5, LineIsWhole, NoTextIsWhole, ReceiverAsks DEF Join, Tags
<1>6. CASE Interrupt("sender") \/ Interrupt("receiver")
    BY <1>6, SenderStops, ReceiverStops DEF Interrupt, Ends
<1> QED BY <1>1, <1>2, <1>3, <1>4, <1>5, <1>6, AwaitLoginStep, AwaitJoinStep, ListenStep
        DEF Client, Conns

LEMMA InStepStep ==
    ASSUME InStep, cut' = {}, [Next]_vars
    PROVE  InStep'
<1>1. ASSUME NEW c \in Conns, Thread(c) PROVE InStep'
    BY <1>1, ServeSenderLogin, ServeReceiverLogin, ServeSenderStep, ServeJoinStep, DeliverStep
       DEF Thread, Conns
<1>2. CASE EndOfInput
    BY <1>2, SenderStops DEF EndOfInput, Ends
<1> QED BY <1>1, <1>2, ClientStep, TypeStep, Stutter DEF Next, Quiet

LEMMA StartInStep == Init => InStep
<1> SUFFICES ASSUME Init PROVE InStep
    OBVIOUS
<1>1. Types
    BY DEF Init, Types, ClientStages, ServerStages
<1>2. Closed
    BY DEF Init, Closed, Ends
<1>3. "sender" \in Conns /\ "receiver" \in Conns
    BY DEF Conns
<1>4. SenderInStep
    BY <1>3 DEF Init, SenderInStep, Idle
<1>5. ReceiverInStep
    BY <1>3 DEF Init, ReceiverInStep, Joining, Nothing, Serves, Idle
<1>6. Prefix
    BY DEF Init, Prefix
<1> QED BY <1>1, <1>2, <1>4, <1>5, <1>6 DEF InStep

\* Until a line is cut, the programs and their threads are at matching stages, with at
\* most one line of a request and its answer on its way, and what the receiver has
\* printed, what is on its way to it and its queue are together what was broadcast.
THEOREM SessionInvariant == Spec => []SessionInv
<1>1. Init => SessionInv
    BY StartInStep DEF SessionInv
<1>2. SessionInv /\ [Next]_vars => SessionInv'
    BY CutsStay, InStepStep DEF SessionInv
<1> QED BY <1>1, <1>2, PTL DEF Spec

\* When the sender prompts its user nothing is on its way: the answer it reads next is
\* that to the request it sends next (sender.cpp:95-109).
THEOREM AnswersBelongToRequests == Spec => []AnswersInStep
<1>1. SessionInv => AnswersInStep
  <2> SUFFICES ASSUME InStep, pc["sender"] = "prompt", server_open["sender"]
               PROVE  up["sender"] = <<>> /\ down["sender"] = <<>>
      BY DEF SessionInv, AnswersInStep
  <2>1. client_open["sender"]
      BY DEF InStep, Closed, Conns, Ends
  <2> QED BY <2>1 DEF InStep, SenderInStep, Idle
<1> QED BY <1>1, SessionInvariant, PTL

\* The receiver prints the texts that were broadcast while it was in the room, whole,
\* in their order and without a gap, whichever program ends or is killed meanwhile.
THEOREM NothingShownIsWrong == Spec => []ShownAsSent
<1>1. SessionInv => ShownAsSent
  <2> SUFFICES ASSUME InStep
               PROVE  /\ Len(shown) <= Len(broadcast)
                      /\ \A n \in 1 .. Len(shown) : /\ shown[n] = broadcast[n]
                                                    /\ shown[n].whole
      BY DEF SessionInv, ShownAsSent
  <2>1. \A n \in 1 .. Len(shown) : shown[n] \in WholeTexts
      BY DEF InStep, Types
  <2> QED BY <2>1 DEF InStep, Prefix, WholeTexts
<1> QED BY <1>1, SessionInvariant, PTL
=============================================================================
