------------------------------- MODULE EventLoop -------------------------------
(***************************************************************************)
(* What an event loop promises those who use it, without the tables, the   *)
(* batch of events and the wakeups by which ServiceLoop::run keeps it:     *)
(* which callback of which connection is called when, in what order the    *)
(* functors run, and that nothing is called before open or after deletion. *)
(***************************************************************************)
EXTENDS Integers, Sequences

CONSTANTS
    Conns, AcceptMode, SendOnConnect,   \* see Reactor
    OtherWakeups    \* do threads wake the loop up other than by quit()?

VARIABLES
    life,       \* of each connection: none, refused, queued, open, deleted
    queue,      \* connections whose open() was handed to add_run, oldest first
    unsent,     \* pieces of replies not yet given to the socket
    unread,     \* has the connection's socket data to read?
    peer,       \* the client's side: idle, up, fin, rst
    asked,      \* has quit() been called?
    over,       \* has run() returned?
    down        \* has the process ended?

vars == <<life, queue, unsent, unread, peer, asked, over, down>>

Init ==
    /\ life = [c \in Conns |-> "none"] /\ queue = <<>>
    /\ unsent = [c \in Conns |-> 0] /\ unread = [c \in Conns |-> FALSE]
    /\ peer = [c \in Conns |-> "idle"]
    /\ ~asked /\ ~over /\ ~down

Opened(c) ==
    /\ life' = [life EXCEPT ![c] = "open"]
    /\ unsent' = [unsent EXCEPT ![c] = 0]

Closed(c) ==
    /\ life[c] = "open"
    /\ life' = [life EXCEPT ![c] = "deleted"] /\ UNCHANGED unsent

\* Only the acceptor of another loop goes on after run() has returned.
Accept(c) ==
    /\ life[c] = "none" /\ peer[c] # "idle"
    /\ over => AcceptMode = "remote"
    /\ \/ life' = [life EXCEPT ![c] = "refused"] /\ UNCHANGED <<queue, unsent>>
       \/ AcceptMode = "direct" /\ Opened(c) /\ UNCHANGED queue
       \/ /\ AcceptMode # "direct"
          /\ life' = [life EXCEPT ![c] = "queued"]
          /\ queue' = Append(queue, c) /\ UNCHANGED unsent
    /\ UNCHANGED <<unread, peer, asked, over, down>>

\* Functors run in the order in which they were added, each of them once.
Run ==
    /\ ~over /\ queue # <<>>
    /\ life[Head(queue)] = "queued"
    /\ queue' = Tail(queue) /\ Opened(Head(queue))
    /\ UNCHANGED <<unread, peer, asked, over, down>>

Replied(c) ==
    /\ unsent'[c] \in Nat /\ unsent'[c] > unsent[c]
    /\ unsent' = [unsent EXCEPT ![c] = unsent'[c]]
    /\ UNCHANGED life

\* A connection is read when its last reply is out and there is data, or the end
\* of the stream, to read; on_read may reply or close another open connection.
Read(c) ==
    /\ ~over /\ life[c] = "open" /\ unsent[c] = 0
    /\ \/ /\ unread[c] /\ unread' = [unread EXCEPT ![c] = FALSE]
          /\ \/ UNCHANGED <<life, unsent>>
             \/ Replied(c)
             \/ \E v \in Conns \ {c} : Closed(v)
       \/ /\ ~unread[c] /\ peer[c] \in {"fin", "rst"}
          /\ Closed(c) /\ UNCHANGED unread
    /\ UNCHANGED <<queue, peer, asked, over, down>>

\* A connection is written when it has something to send to a live client.
Write(c) ==
    /\ ~over /\ life[c] = "open" /\ peer[c] # "rst"
    /\ \E left \in 0..(unsent[c] - 1) : unsent' = [unsent EXCEPT ![c] = left]
    /\ UNCHANGED <<life, queue, unread, peer, asked, over, down>>

Error(c) ==
    /\ ~over /\ peer[c] = "rst" /\ Closed(c)
    /\ UNCHANGED <<queue, unread, peer, asked, over, down>>

\* The clients' moves are seen as they happen.
Client(c) ==
    /\ \/ peer[c] = "idle" /\ peer' = [peer EXCEPT ![c] = "up"] /\ UNCHANGED unread
       \/ peer[c] = "up" /\ unread' = [unread EXCEPT ![c] = TRUE] /\ UNCHANGED peer
       \/ peer[c] = "up" /\ peer' = [peer EXCEPT ![c] = "fin"] /\ UNCHANGED unread
       \/ peer[c] \in {"up", "fin"} /\ peer' = [peer EXCEPT ![c] = "rst"] /\ UNCHANGED unread
    /\ UNCHANGED <<life, queue, unsent, asked, over, down>>

Quit == asked' = TRUE /\ UNCHANGED <<life, queue, unsent, unread, peer, over, down>>

\* run() returns only when it was told to.
Return ==
    /\ asked /\ over' = TRUE
    /\ UNCHANGED <<life, queue, unsent, unread, peer, asked, down>>

\* The process ends inside run() only, and only for the three reasons below.
Ended == ~over /\ down' = TRUE /\ UNCHANGED <<life, unsent, unread, peer, asked, over>>

\* A reply meets a client that has gone.
Sigpipe(c) ==
    /\ Ended /\ UNCHANGED queue
    /\ life[c] = "open" /\ unsent[c] > 0 /\ peer[c] = "rst"

\* Two wakeups are one too many; quit() alone makes one.
WakeupAssertion == Ended /\ OtherWakeups /\ UNCHANGED queue

\* on_connect sends.
OpenAssertion ==
    /\ Ended /\ SendOnConnect
    /\ \/ /\ AcceptMode = "direct" /\ UNCHANGED queue
          /\ \E c \in Conns : life[c] = "none" /\ peer[c] # "idle"
       \/ queue # <<>> /\ queue' = Tail(queue)

Next ==
    /\ ~down
    /\ \/ Run \/ Quit \/ Return \/ WakeupAssertion \/ OpenAssertion
       \/ \E c \in Conns : \/ Accept(c) \/ Read(c) \/ Write(c) \/ Error(c)
                           \/ Sigpipe(c) \/ Client(c)

Spec == Init /\ [][Next]_vars
=============================================================================
