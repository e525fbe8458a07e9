--------------------------- MODULE ConnectionBuffers ---------------------------
(***************************************************************************)
(* The bytes of one connection: buffer_in_ and buffer_out_, which cache     *)
(* them in std::stringstreams, between the socket and the user's on_read    *)
(* and send.  Bytes are numbered in the order the client, or the user, sent *)
(* them.  The watched direction is epoll's, see Reactor.                    *)
(***************************************************************************)
EXTENDS Integers, Sequences

CONSTANTS
    Chunk,      \* bytes one recv() may return, 64 K in the code
    MaxIn,      \* bound: bytes the client sends
    MaxOut,     \* bound: bytes the user sends
    Blocking,   \* is the socket blocking, as accept() makes it?
    Whole       \* does on_read return input.length(), as the examples' do?

ASSUME ChunkAssumption == Chunk \in Nat \ {0}
ASSUME BoundAssumption == MaxIn \in Nat /\ MaxOut \in Nat
ASSUME ModeAssumption == Blocking \in BOOLEAN /\ Whole \in BOOLEAN

VARIABLES
    arrived,        \* bytes the kernel has received
    eof,            \* has the client shut down its side?
    reset,          \* has the connection been reset?
    received,       \* bytes recv() has returned
    buffer_in_,     \* [text, put]: the stream's contents and its put position
    read_bytes,     \* input_stream_buffer::read's local
    taken,          \* the bytes ignore() removed after an on_read
    given,          \* bytes passed to send()
    replied,        \* history: the last of them that an on_read passed
    buffer_out_,    \* like buffer_in_
    wire,           \* the bytes ::send() has accepted
    want_write,     \* is the descriptor watched for output (only)?
    pc              \* idle, ready (to be read), recv, on_read or closed

inVars == <<arrived, eof, reset, received, buffer_in_, read_bytes, taken>>
outVars == <<given, replied, buffer_out_, wire, want_write>>
vars == <<inVars, outVars, pc>>

(***************************************************************************)
(* std::stringstream as stream_buffer uses it.                             *)
(***************************************************************************)

Empty == [text |-> <<>>, put |-> 0]

Number(from, n) == [i \in 1..n |-> from + i]

\* write() goes on at the put position, over what already stands there.
write(sb, s) ==
    LET end == sb.put + Len(s)
    IN  [text |-> [i \in 1..(IF end > Len(sb.text) THEN end ELSE Len(sb.text)) |->
                      IF sb.put < i /\ i <= end THEN s[i - sb.put] ELSE sb.text[i]],
         put |-> end]

\* str(rest) puts the put position back to the beginning.
ignore(sb, n) ==
    IF n \in 0..Len(sb.text)
    THEN [text |-> SubSeq(sb.text, n + 1, Len(sb.text)), put |-> 0] ELSE sb

Init ==
    /\ arrived = 0 /\ eof = FALSE /\ reset = FALSE /\ received = 0 /\ read_bytes = 0
    /\ buffer_in_ = Empty /\ taken = <<>>
    /\ given = 0 /\ replied = 0 /\ buffer_out_ = Empty /\ wire = <<>> /\ want_write = FALSE
    /\ pc = "idle"

(***************************************************************************)
(* The client and the network.                                             *)
(***************************************************************************)

Arrive ==
    /\ ~eof /\ ~reset /\ arrived < MaxIn /\ arrived' = arrived + 1
    /\ UNCHANGED <<eof, reset, received, buffer_in_, read_bytes, taken, outVars, pc>>

Shutdown ==
    /\ ~eof /\ ~reset /\ eof' = TRUE
    /\ UNCHANGED <<arrived, reset, received, buffer_in_, read_bytes, taken, outVars, pc>>

Abort ==
    /\ ~reset /\ reset' = TRUE
    /\ UNCHANGED <<arrived, eof, received, buffer_in_, read_bytes, taken, outVars, pc>>

(***************************************************************************)
(* ConnectionHandler.                                                      *)
(***************************************************************************)

SendVariantClears(n) ==
    /\ given + n <= MaxOut /\ given' = given + n
    /\ buffer_out_' = write(Empty, Number(given, n))
    /\ want_write' = TRUE

\* send(): put, and watch for output if the buffer was empty.
send(n) ==
    /\ given + n <= MaxOut /\ given' = given + n
    /\ buffer_out_' = write(buffer_out_, Number(given, n))
    /\ want_write' = (want_write \/ buffer_out_.text = <<>>)

ReadableVariantDataOnly == ~want_write /\ received < arrived

\* When epoll reports EPOLLIN.
Readable == ~want_write /\ (received < arrived \/ eof \/ reset)

\* A READ entry stands in the batch; handlers before it run first.
Collect ==
    /\ pc = "idle" /\ Readable /\ pc' = "ready"
    /\ UNCHANGED <<inVars, outVars>>

BeginRead ==
    /\ pc = "ready" /\ pc' = "recv" /\ read_bytes' = 0
    /\ UNCHANGED <<arrived, eof, reset, received, buffer_in_, taken, outVars>>

Available == arrived - received

RecvVariantRestarts ==
    /\ pc = "recv" /\ Available > 0
    /\ LET n == IF Available < Chunk THEN Available ELSE Chunk
       IN  /\ received' = received + n /\ read_bytes' = read_bytes + n
           /\ buffer_in_' = write(Empty, Number(received, n))
           /\ pc' = IF n < Chunk THEN "on_read" ELSE "recv"
    /\ UNCHANGED <<arrived, eof, reset, taken, outVars>>

\* recv() returns what there is; a full chunk makes read() call it again.
Recv ==
    /\ pc = "recv" /\ Available > 0
    /\ LET n == IF Available < Chunk THEN Available ELSE Chunk
       IN  /\ received' = received + n /\ read_bytes' = read_bytes + n
           /\ buffer_in_' = write(buffer_in_, Number(received, n))
           /\ pc' = IF n < Chunk THEN "on_read" ELSE "recv"
    /\ UNCHANGED <<arrived, eof, reset, taken, outVars>>

RecvEofVariantCloses ==
    /\ pc = "recv" /\ ~reset /\ Available = 0 /\ eof
    /\ pc' = "closed"
    /\ UNCHANGED <<inVars, outVars>>

\* End of stream: read() returns what it has, and nothing closes the connection.
RecvEof ==
    /\ pc = "recv" /\ ~reset /\ Available = 0 /\ eof
    /\ pc' = IF read_bytes > 0 THEN "on_read" ELSE "closed"
    /\ UNCHANGED <<inVars, outVars>>

\* An error: read() returns it whatever it has read, and close() follows.
RecvError ==
    /\ pc = "recv" /\ pc' = "closed"
    /\ Available = 0 /\ (reset \/ (~Blocking /\ ~eof))
    /\ UNCHANGED <<inVars, outVars>>

\* on_read may reply; ignore() then drops the length it returns, if it is one.
OnRead ==
    /\ pc = "on_read" /\ pc' = "idle"
    /\ \E len \in IF Whole THEN {Len(buffer_in_.text)} ELSE -1..Len(buffer_in_.text) + 1 :
        /\ buffer_in_' = ignore(buffer_in_, len)
        /\ taken' = taken \o SubSeq(buffer_in_.text, 1, IF len \in 0..Len(buffer_in_.text) THEN len ELSE 0)
    /\ \/ \E n \in 1..MaxOut : send(n) /\ replied' = given' /\ UNCHANGED wire
       \/ UNCHANGED outVars
    /\ UNCHANGED <<arrived, eof, reset, received, read_bytes>>

\* A timer or a functor of the same loop sends, between two handlers.
OtherSend ==
    /\ pc \in {"idle", "ready"}
    /\ \E n \in 1..MaxOut : send(n)
    /\ UNCHANGED <<inVars, replied, wire, pc>>

\* do_handle_write: ::send() takes pieces until the buffer is empty or, on a
\* non-blocking socket or when the client resets, it fails and leaves the rest.
do_handle_write ==
    /\ pc = "idle" /\ want_write /\ reset' \in {reset, TRUE}
    /\ \E n \in 0..Len(buffer_out_.text) :
        /\ reset => n = 0
        /\ n < Len(buffer_out_.text) => reset' \/ ~Blocking
        /\ wire' = wire \o SubSeq(buffer_out_.text, 1, n)
        /\ buffer_out_' = IF n > 0 THEN ignore(buffer_out_, n) ELSE buffer_out_
        /\ want_write' = (buffer_out_'.text # <<>>)
    /\ UNCHANGED <<arrived, eof, received, buffer_in_, read_bytes, taken, given, replied, pc>>

\* EPOLLERR or EPOLLHUP.
do_handle_error ==
    /\ pc = "idle" /\ reset /\ pc' = "closed"
    /\ UNCHANGED <<inVars, outVars>>

Handler == Collect \/ BeginRead \/ Recv \/ RecvEof \/ RecvError \/ OnRead \/ do_handle_write \/ do_handle_error

Next == Arrive \/ Shutdown \/ Abort \/ Handler \/ OtherSend

Spec == Init /\ [][Next]_vars

\* The loop dispatches what epoll reports.
FairSpec == Spec /\ WF_vars(Handler)

(***************************************************************************)
(* Properties.                                                             *)
(***************************************************************************)

TypeOK ==
    /\ arrived \in 0..MaxIn /\ eof \in BOOLEAN /\ reset \in BOOLEAN
    /\ received \in 0..arrived /\ read_bytes \in 0..received
    /\ buffer_in_.text \in Seq(1..MaxIn) /\ buffer_in_.put \in 0..Len(buffer_in_.text)
    /\ taken \in Seq(1..MaxIn)
    /\ given \in 0..MaxOut /\ replied \in 0..given /\ wire \in Seq(1..MaxOut)
    /\ buffer_out_.text \in Seq(1..MaxOut) /\ buffer_out_.put \in 0..Len(buffer_out_.text)
    /\ want_write \in BOOLEAN /\ pc \in {"idle", "ready", "recv", "on_read", "closed"}

\* The user gets every byte the client sent, once and in order, and the client
\* every byte the user sent: each buffer implements ByteFifo.
In == INSTANCE ByteFifo WITH given <- received, taken <- taken
Out == INSTANCE ByteFifo WITH given <- given, taken <- wire
InIsFifo == In!Spec
OutIsFifo == Out!Spec

\* Unless it is reset, a connection is closed only after the user has had all of
\* the client's bytes and the client all of the user's replies to them; what other
\* handlers have sent since the last flush may be lost.
CloseLosesNothing ==
    pc = "closed" /\ ~reset => Len(taken) = arrived /\ Len(wire) >= replied

\* A client that has shut down or reset is closed in the end, also if it did so
\* right behind a full chunk or with a reply pending.
GoneIsClosed == (eof \/ reset) ~> (pc = "closed")
=============================================================================
