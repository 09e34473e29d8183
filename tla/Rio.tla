----------------------------------- MODULE Rio -----------------------------------
(***************************************************************************)
(* csapp.c's robust I/O on a connected socket, from a client that sends     *)
(* lines to the thread that receives them: rio_writen, the kernel's byte    *)
(* stream, rio_read and rio_readlineb.                                      *)
(*                                                                         *)
(* A byte is its number in what the client sends.  A system call is a step; *)
(* one that a signal interrupts (EINTR) is made again, which is no step.    *)
(***************************************************************************)
EXTENDS Naturals, Sequences

CONSTANTS
    Clients,   \* connections, each named by its client
    Newlines,  \* the bytes of each client that are newlines: its messages' ends
    MaxLen,    \* Message::MAX_LEN, the size of receive's buffer
    RioSize,   \* RIO_BUFSIZE, the size of rio_buf
    Capacity   \* bound: the bytes the kernel holds for a connection

ASSUME RioAssumption ==
    /\ Newlines \in [Clients -> SUBSET (Nat \ {0})]
    /\ MaxLen \in Nat /\ MaxLen > 1
    /\ RioSize \in Nat \ {0} /\ Capacity \in Nat \ {0}

VARIABLES
    link,      \* "none", "up", "fin" (the client has closed its end), "broken", or
               \* "shut" (the server has)
    written,   \* how many bytes of each client write has taken
    stream,    \* the bytes in the kernel
    rio_buf,   \* the unread bytes of rio_t
    buf,       \* what the rio_readlineb under way has put into its caller's buffer
    rc,        \* what it has returned: "pending", "line", "eof", "error"
    got, ends  \* history: the bytes it has returned so far, and how many after each call

writerVars == <<link, written>>
readerVars == <<rio_buf, buf, rc, got, ends>>

RioInit ==
    /\ link = [c \in Clients |-> "none"]
    /\ written = [c \in Clients |-> 0]
    /\ stream = [c \in Clients |-> <<>>]
    /\ rio_buf = [c \in Clients |-> <<>>]
    /\ buf = [c \in Clients |-> <<>>]
    /\ rc = [c \in Clients |-> "pending"]
    /\ got = [c \in Clients |-> <<>>]
    /\ ends = [c \in Clients |-> <<>>]
-----------------------------------------------------------------------------
(* rio_writen *)

\* The bytes after the m-th up to the n-th.
Count(m, n) == [k \in 1..n - m |-> m + k]

\* The newline of the message that is being written.
MessageEnd(c) ==
    CHOOSE n \in Newlines[c] : n > written[c] /\ \A m \in Newlines[c] : m > written[c] => n <= m

\* Mutant: bufp does not follow a short write.
WriteAgain(c) ==
    \E n \in written[c] + 1 .. MessageEnd(c) :
        /\ Len(stream[c]) + (n - written[c]) <= Capacity
        /\ stream' = [stream EXCEPT ![c] = @ \o Count(0, n - written[c])]
        /\ written' = [written EXCEPT ![c] = n]

\* write takes some of what is left of the message, as much as fits.
Write(c) ==
    \E n \in written[c] + 1 .. MessageEnd(c) :
        /\ Len(stream[c]) + (n - written[c]) <= Capacity
        /\ stream' = [stream EXCEPT ![c] = @ \o Count(written[c], n)]
        /\ written' = [written EXCEPT ![c] = n]
-----------------------------------------------------------------------------
(* rio_readinitb, rio_read and rio_readlineb *)

InitBuffer(c) == rio_buf' = [rio_buf EXCEPT ![c] = <<>>]

\* rio_read finds its buffer empty and calls read, which returns some bytes.
Refill(c) ==
    /\ rc[c] = "pending" /\ rio_buf[c] = <<>>
    /\ \E n \in 1..Len(stream[c]) :
          /\ n <= RioSize
          /\ rio_buf' = [rio_buf EXCEPT ![c] = SubSeq(stream[c], 1, n)]
          /\ stream' = [stream EXCEPT ![c] = SubSeq(@, n + 1, Len(@))]
    /\ UNCHANGED <<writerVars, buf, rc, got, ends>>

\* rio_readlineb returns the bytes; with none it is the end or an error.
Return(c, bytes, how) ==
    /\ rc' = [rc EXCEPT ![c] = how]
    /\ buf' = [buf EXCEPT ![c] = <<>>]
    /\ got' = [got EXCEPT ![c] = @ \o bytes]
    /\ ends' = IF how = "line"
               THEN [ends EXCEPT ![c] = Append(@, Len(got[c]) + Len(bytes))] ELSE ends

\* Mutant: the terminator's place is not kept free.
FillsBuffer(c, k) == \/ rio_buf[c][k] \in Newlines[c]
                     \/ Len(buf[c]) + k = MaxLen

\* The loop ends with the k-th byte of rio_buf.
EndsLine(c, k) == \/ rio_buf[c][k] \in Newlines[c]
                  \/ Len(buf[c]) + k = MaxLen - 1

\* Bytes are copied up to the end of the line, of the caller's buffer or of rio_buf.
CopyBytes(c) ==
    /\ rc[c] = "pending"
    /\ \E k \in 1..Len(rio_buf[c]) :
          /\ EndsLine(c, k) \/ k = Len(rio_buf[c])
          /\ \A j \in 1..k - 1 : ~EndsLine(c, j)
          /\ rio_buf' = [rio_buf EXCEPT ![c] = SubSeq(@, k + 1, Len(@))]
          /\ LET bytes == buf[c] \o SubSeq(rio_buf[c], 1, k)
             IN  IF EndsLine(c, k)
                 THEN Return(c, bytes, "line")
                 ELSE buf' = [buf EXCEPT ![c] = bytes] /\ UNCHANGED <<rc, got, ends>>
    /\ UNCHANGED <<writerVars, stream>>

\* Nothing more will come: what there is of a line is returned, without a newline.
ReadEnd(c) ==
    /\ rc[c] = "pending" /\ rio_buf[c] = <<>> /\ stream[c] = <<>>
    /\ link[c] = "fin"
    /\ Return(c, buf[c], IF buf[c] = <<>> THEN "eof" ELSE "line")
    /\ UNCHANGED <<writerVars, stream, rio_buf>>

\* read fails: what there is of a line is dropped.
ReadFails(c) ==
    /\ rc[c] = "pending" /\ rio_buf[c] = <<>> /\ stream[c] = <<>>
    /\ link[c] = "broken"
    /\ Return(c, <<>>, "error")
    /\ UNCHANGED <<writerVars, stream, rio_buf>>

ReadLine(c) == Refill(c) \/ CopyBytes(c) \/ ReadEnd(c) \/ ReadFails(c)
-----------------------------------------------------------------------------
\* The promise of LineStream: what is unread is in three places.
Unread == [c \in Clients |-> buf[c] \o rio_buf[c] \o stream[c]]

Promise == INSTANCE LineStream WITH
    MaxPiece <- MaxLen - 1, unread <- Unread,
    closed <- [c \in Clients |-> link[c] \notin {"none", "up"}]

\* Short writes, short reads, lines across the buffers and connections that close or
\* break in the middle of a line: receive returns whole lines or pieces of the
\* greatest length, nothing lost, doubled or out of order, and only after the end of
\* the connection, as its last, a line that is torn.
ImplementsLineStream == Promise!Spec
=============================================================================
