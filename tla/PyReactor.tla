------------------------------- MODULE PyReactor -------------------------------
(***************************************************************************)
(* The two Python servers, mult_thread_reactor_server and                   *)
(* mult_thread_tcp_server: one select loop per thread, a pool that the main *)
(* thread starts, and an acceptor on the base loop.  The programs are the   *)
(* same up to SocketBuffer and to what a connection does at end of stream.  *)
(* An exception that nothing catches ends its thread and so its loop.       *)
(***************************************************************************)
EXTENDS Integers, Sequences

CONSTANTS
    Conns,      \* clients, each with the connection accepted for it
    Threads,    \* threads the pool may start
    Base,       \* the base loop, in the main thread
    Listen,     \* the listening socket
    None,       \* no connection
    Chunk,      \* bytes one recv() may return, 1024 in the code
    MaxIn       \* bound: bytes a client sends

ASSUME NamesAssumption ==
    /\ Base \notin Threads /\ Listen \notin Conns /\ None \notin Conns
ASSUME SizesAssumption == Chunk \in Nat \ {0} /\ MaxIn \in Nat

Loops == Threads \cup {Base}

VARIABLES
    program,        \* reactor or tcp
    unstarted,      \* threads start() has still to create
    main,           \* the main thread: start, get_loop, waiting or run
    loop_service,   \* loops of the pool
    index,          \* get_loop's position in them
    published,      \* has the thread set its __loop?
    pc,             \* of each loop, see Steps
    inputs, outputs, handlers,  \* its tables
    functors,       \* its queue of open() callbacks
    rlist, wlist,   \* the batch: what select returned and is not handled yet
    reading,        \* the connection in do_read, or None
    conn,           \* each connection: none, queued, open or closed
    on,             \* and its loop
    client,         \* its client: idle, up, fin (closed) or rst (reset)
    arrived,        \* bytes it has sent
    received,       \* bytes recv() has returned
    recv_buffer, send_buffer,   \* [text, put]
    wire            \* bytes sent back

poolVars == <<program, unstarted, main, loop_service, index, published>>
tables == <<inputs, outputs, handlers>>
batch == <<rlist, wlist, reading>>
network == <<client, arrived>>
data == <<received, recv_buffer, send_buffer, wire>>
vars == <<poolVars, pc, tables, functors, batch, conn, on, network, data>>

\* Of a pool thread before run(): none, publish, notify.  Of a loop: select,
\* read, recv (inside do_read, before another recv()), write, drain, dead.
Steps == {"none", "publish", "notify", "select", "read", "recv", "write", "drain", "dead"}

Empty == [text |-> <<>>, put |-> 0]
Number(from, n) == [i \in 1..n |-> from + i]

Init ==
    /\ program \in {"reactor", "tcp"} /\ unstarted \in SUBSET Threads
    /\ main = "start" /\ loop_service = <<>> /\ index = 0
    /\ published = [t \in Threads |-> FALSE] /\ pc = [l \in Loops |-> "none"]
    /\ inputs = [l \in Loops |-> {}] /\ outputs = [l \in Loops |-> {}]
    /\ handlers = [l \in Loops |-> {}] /\ functors = [l \in Loops |-> <<>>]
    /\ rlist = [l \in Loops |-> {}] /\ wlist = [l \in Loops |-> {}]
    /\ reading = [l \in Loops |-> None]
    /\ conn = [c \in Conns |-> "none"] /\ on = [c \in Conns |-> Base]
    /\ client = [c \in Conns |-> "idle"] /\ arrived = [c \in Conns |-> 0]
    /\ received = [c \in Conns |-> 0] /\ wire = [c \in Conns |-> <<>>]
    /\ recv_buffer = [c \in Conns |-> Empty] /\ send_buffer = [c \in Conns |-> Empty]

(***************************************************************************)
(* The pool: ThpoolServiceLoop.start and ServiceLoopThread.  The condition  *)
(* variable's lock makes the test of __loop and the wait one step.          *)
(***************************************************************************)

StartThread ==
    /\ main = "start" /\ unstarted # {} /\ main' = "get_loop"
    /\ \E t \in unstarted :
        /\ unstarted' = unstarted \ {t} /\ pc' = [pc EXCEPT ![t] = "publish"]
    /\ UNCHANGED <<program, loop_service, index, published, tables, functors, batch, conn, on, network, data>>

\* The thread start() has created and not yet taken the loop of.
Starting(t) == pc[t] # "none" /\ \A i \in 1..Len(loop_service) : loop_service[i] # t

TestLoopVariantNoWait ==
    /\ main = "get_loop" /\ main' = "start"
    /\ \E t \in Threads : Starting(t) /\ loop_service' = Append(loop_service, t)
    /\ UNCHANGED <<program, unstarted, index, published, pc, tables, functors,
                   batch, conn, on, network, data>>

TestLoop ==
    /\ main = "get_loop"
    /\ \E t \in Threads :
        /\ Starting(t)
        /\ main' = IF published[t] THEN "start" ELSE "waiting"
        /\ loop_service' = IF published[t] THEN Append(loop_service, t) ELSE loop_service
    /\ UNCHANGED <<program, unstarted, index, published, pc, tables, functors,
                   batch, conn, on, network, data>>

Publish(t) ==
    /\ pc[t] = "publish" /\ pc' = [pc EXCEPT ![t] = "notify"]
    /\ published' = [published EXCEPT ![t] = TRUE]
    /\ UNCHANGED <<program, unstarted, main, loop_service, index, tables, functors,
                   batch, conn, on, network, data>>

NotifyVariantNone(t) ==
    /\ pc[t] = "notify" /\ pc' = [pc EXCEPT ![t] = "select"]
    /\ UNCHANGED <<poolVars, tables, functors, batch, conn, on, network, data>>

Notify(t) ==
    /\ pc[t] = "notify" /\ pc' = [pc EXCEPT ![t] = "select"]
    /\ main' = IF main = "waiting" /\ Starting(t) THEN "get_loop" ELSE main
    /\ UNCHANGED <<program, unstarted, loop_service, index, published, tables, functors,
                   batch, conn, on, network, data>>

\* TCPAcceptor.open registers the listening socket, and the base loop runs.
RunBase ==
    /\ main = "start" /\ unstarted = {} /\ main' = "run"
    /\ pc' = [pc EXCEPT ![Base] = "select"]
    /\ inputs' = [inputs EXCEPT ![Base] = {Listen}]
    /\ handlers' = [handlers EXCEPT ![Base] = {Listen}]
    /\ UNCHANGED <<program, unstarted, loop_service, index, published, outputs, functors,
                   batch, conn, on, network, data>>

(***************************************************************************)
(* ServiceLoop's tables.                                                   *)
(***************************************************************************)

\* register and modify for one of READ and WRITE.
ModifyVariantAdds(l, c, event) ==
    /\ inputs' = [inputs EXCEPT ![l] = IF event = "READ" THEN @ \cup {c} ELSE @]
    /\ outputs' = [outputs EXCEPT ![l] = IF event = "WRITE" THEN @ \cup {c} ELSE @]
    /\ handlers' = [handlers EXCEPT ![l] = @ \cup {c}]

ModifyVariantSwapped(l, c, event) ==
    /\ inputs' = [inputs EXCEPT ![l] = @ \ {c}]
    /\ outputs' = [outputs EXCEPT ![l] = @ \ {c}]
    /\ handlers' = [handlers EXCEPT ![l] = @ \ {c}]

modify(l, c, event) ==
    /\ inputs' = [inputs EXCEPT ![l] = IF event = "READ" THEN @ \cup {c} ELSE @ \ {c}]
    /\ outputs' = [outputs EXCEPT ![l] = IF event = "WRITE" THEN @ \cup {c} ELSE @ \ {c}]
    /\ handlers' = [handlers EXCEPT ![l] = @ \cup {c}]

unregister(l, c) ==
    /\ inputs' = [inputs EXCEPT ![l] = @ \ {c}] /\ outputs' = [outputs EXCEPT ![l] = @ \ {c}]
    /\ handlers' = [handlers EXCEPT ![l] = @ \ {c}]

(***************************************************************************)
(* SocketBuffer: a BytesIO in reactor, a queue of pieces in tcp.           *)
(***************************************************************************)

\* BytesIO.write goes on at the position, over what stands there.
Overwrite(b, s) ==
    LET end == b.put + Len(s)
    IN  [text |-> [i \in 1..(IF end > Len(b.text) THEN end ELSE Len(b.text)) |->
                      IF b.put < i /\ i <= end THEN s[i - b.put] ELSE b.text[i]],
         put |-> end]

push(b, s) ==
    IF program = "reactor" THEN Overwrite(b, s)
    ELSE [text |-> b.text \o s, put |-> Len(b.text) + Len(s)]

TakenVariantKeeps(b) == [b EXCEPT !.put = 0]

\* What take() leaves: BytesIO keeps its bytes and goes back to position 0.
Taken(b) == IF program = "reactor" THEN [b EXCEPT !.put = 0] ELSE Empty

(***************************************************************************)
(* ServiceLoop.run.                                                        *)
(***************************************************************************)

Available(c) == arrived[c] - received[c]
Backlog == {c \in Conns : client[c] # "idle" /\ conn[c] = "none"}
Readable(c) == IF c = Listen THEN Backlog # {} ELSE Available(c) > 0 \/ client[c] \in {"fin", "rst"}

SelectVariantNoTimeout(l) ==
    /\ pc[l] = "select" /\ pc' = [pc EXCEPT ![l] = "read"]
    /\ (inputs[l] = {} \/ {c \in inputs[l] : Readable(c)} \cup outputs[l] # {})
    /\ rlist' = [rlist EXCEPT ![l] = {c \in inputs[l] : Readable(c)}]
    /\ wlist' = [wlist EXCEPT ![l] = outputs[l]]
    /\ UNCHANGED <<poolVars, tables, functors, reading, conn, on, network, data>>

\* select() returns all that is ready, or nothing after half a second.
Select(l) ==
    /\ pc[l] = "select" /\ pc' = [pc EXCEPT ![l] = "read"]
    /\ rlist' = [rlist EXCEPT ![l] = {c \in inputs[l] : Readable(c)}]
    /\ wlist' = [wlist EXCEPT ![l] = outputs[l]]
    /\ UNCHANGED <<poolVars, tables, functors, reading, conn, on, network, data>>

\* An uncaught exception.
Die(l) ==
    /\ pc' = [pc EXCEPT ![l] = "dead"] /\ rlist' = [rlist EXCEPT ![l] = {}]
    /\ wlist' = [wlist EXCEPT ![l] = {}] /\ reading' = [reading EXCEPT ![l] = None]
    /\ UNCHANGED <<poolVars, tables, functors, conn, on, network, data>>

\* TCPAcceptor.do_read and on_accept: the connection goes to the next loop of the pool.
Accept ==
    /\ pc[Base] = "read" /\ Listen \in rlist[Base]
    /\ rlist' = [rlist EXCEPT ![Base] = @ \ {Listen}]
    /\ \E c \in Backlog :
        LET n == Len(loop_service)
            l == IF n = 0 THEN Base ELSE loop_service[(index % n) + 1]
        IN  /\ conn' = [conn EXCEPT ![c] = "queued"] /\ on' = [on EXCEPT ![c] = l]
            /\ functors' = [functors EXCEPT ![l] = Append(@, c)]
            /\ index' = IF n = 0 THEN index ELSE index + 1
    /\ UNCHANGED <<program, unstarted, main, loop_service, published, pc, tables, wlist, reading,
                   network, data>>

\* do_read begins; __handlers has no entry for what a handler has unregistered.
BeginRead(l) ==
    /\ pc[l] = "read"
    /\ \E c \in rlist[l] \ {Listen} :
        IF c \notin handlers[l] THEN Die(l)
        ELSE /\ rlist' = [rlist EXCEPT ![l] = @ \ {c}]
             /\ reading' = [reading EXCEPT ![l] = c] /\ pc' = [pc EXCEPT ![l] = "recv"]
             /\ UNCHANGED <<poolVars, tables, functors, wlist, conn, on, network, data>>

\* Has do_read received anything yet?  Only then has the buffer been pushed to.
Started(c) == recv_buffer[c].put > 0

\* The socket does not block: after a full chunk, recv() with nothing to read raises,
\* as it does behind the last byte of a client that has reset the connection.
RecvFails(l) ==
    /\ pc[l] = "recv"
    /\ LET c == reading[l]
       IN  Available(c) = 0 /\ client[c] \in {"up", "rst"}
    /\ Die(l)

\* End of stream in the first recv(): reactor closes, tcp calls a close() that
\* TCPConnection does not have.
RecvEof(l) ==
    /\ pc[l] = "recv"
    /\ LET c == reading[l]
       IN  /\ client[c] = "fin" /\ Available(c) = 0 /\ ~Started(c)
           /\ \/ /\ program = "reactor"
                 /\ unregister(l, c) /\ conn' = [conn EXCEPT ![c] = "closed"]
                 /\ pc' = [pc EXCEPT ![l] = "read"] /\ reading' = [reading EXCEPT ![l] = None]
                 /\ UNCHANGED <<poolVars, functors, rlist, wlist, on, network, data>>
              \/ program = "tcp" /\ Die(l)

\* on_read echoes what take() returns: send() pushes it and asks for writability.
Finish(l, c, recvd) ==
    /\ recv_buffer' = [recv_buffer EXCEPT ![c] = Taken(recvd)]
    /\ send_buffer' = [send_buffer EXCEPT ![c] = push(@, recvd.text)]
    /\ modify(l, c, "WRITE")
    /\ pc' = [pc EXCEPT ![l] = "read"] /\ reading' = [reading EXCEPT ![l] = None]

\* recv() returns data; a full chunk makes do_read call it again.
Recv(l) ==
    /\ pc[l] = "recv"
    /\ LET c == reading[l]
           n == IF Available(c) < Chunk THEN Available(c) ELSE Chunk
           recvd == push(recv_buffer[c], Number(received[c], n))
       IN  /\ Available(c) > 0
           /\ received' = [received EXCEPT ![c] = @ + n]
           /\ IF n < Chunk THEN Finish(l, c, recvd)
              ELSE /\ recv_buffer' = [recv_buffer EXCEPT ![c] = recvd]
                   /\ UNCHANGED <<send_buffer, tables, pc, reading>>
    /\ UNCHANGED <<poolVars, functors, rlist, wlist, conn, on, network, wire>>

\* End of stream after a full chunk: the data is handled, the end comes again.
RecvEnd(l) ==
    /\ pc[l] = "recv"
    /\ LET c == reading[l]
       IN  /\ client[c] = "fin" /\ Available(c) = 0 /\ Started(c)
           /\ Finish(l, c, recv_buffer[c])
    /\ UNCHANGED <<poolVars, functors, rlist, wlist, conn, on, network, received, wire>>

EndReads(l) ==
    /\ pc[l] = "read" /\ rlist[l] = {} /\ pc' = [pc EXCEPT ![l] = "write"]
    /\ UNCHANGED <<poolVars, tables, functors, batch, conn, on, network, data>>

WriteVariantStays(l) ==
    /\ pc[l] = "write"
    /\ \E c \in wlist[l] :
        /\ wlist' = [wlist EXCEPT ![l] = @ \ {c}]
        /\ IF c \in handlers[l] /\ client[c] # "rst"
           THEN /\ wire' = [wire EXCEPT ![c] = @ \o send_buffer[c].text]
                /\ send_buffer' = [send_buffer EXCEPT ![c] = Taken(@)]
                /\ unregister(l, c)
           ELSE UNCHANGED <<wire, send_buffer, tables>>
        /\ UNCHANGED <<poolVars, pc, functors, rlist, reading, conn, on, network,
                       received, recv_buffer>>

\* do_write; sendall() raises when the client has reset the connection or does not
\* read what it is sent.
Write(l) ==
    /\ pc[l] = "write"
    /\ \E c \in wlist[l] :
        \/ (c \notin handlers[l] \/ send_buffer[c].text # <<>>) /\ Die(l)
        \/ /\ c \in handlers[l] /\ client[c] # "rst"
           /\ wlist' = [wlist EXCEPT ![l] = @ \ {c}]
           /\ wire' = [wire EXCEPT ![c] = @ \o send_buffer[c].text]
           /\ send_buffer' = [send_buffer EXCEPT ![c] = Taken(@)]
           /\ modify(l, c, "READ")
           /\ UNCHANGED <<poolVars, pc, functors, rlist, reading, conn, on, network,
                          received, recv_buffer>>

EndWrites(l) ==
    /\ pc[l] = "write" /\ wlist[l] = {} /\ pc' = [pc EXCEPT ![l] = "drain"]
    /\ UNCHANGED <<poolVars, tables, functors, batch, conn, on, network, data>>

\* A callback: TCPConnection.open.
RunFunctor(l) ==
    /\ pc[l] = "drain" /\ functors[l] # <<>>
    /\ functors' = [functors EXCEPT ![l] = Tail(@)]
    /\ LET c == Head(functors[l])
       IN  modify(l, c, "READ") /\ conn' = [conn EXCEPT ![c] = "open"]
    /\ UNCHANGED <<poolVars, pc, batch, on, network, data>>

EndDrain(l) ==
    /\ pc[l] = "drain" /\ functors[l] = <<>> /\ pc' = [pc EXCEPT ![l] = "select"]
    /\ UNCHANGED <<poolVars, tables, functors, batch, conn, on, network, data>>

(***************************************************************************)
(* The clients.                                                            *)
(***************************************************************************)

Client(c) ==
    /\ \/ client[c] = "idle" /\ client' = [client EXCEPT ![c] = "up"] /\ UNCHANGED arrived
       \/ /\ client[c] = "up" /\ arrived[c] < MaxIn
          /\ arrived' = [arrived EXCEPT ![c] = @ + 1] /\ UNCHANGED client
       \/ client[c] = "up" /\ client' = [client EXCEPT ![c] = "fin"] /\ UNCHANGED arrived
       \/ client[c] \in {"up", "fin"} /\ client' = [client EXCEPT ![c] = "rst"] /\ UNCHANGED arrived
    /\ UNCHANGED <<poolVars, pc, tables, functors, batch, conn, on, data>>

Main == StartThread \/ TestLoop \/ RunBase

LoopStep(l) ==
    \/ Select(l) \/ BeginRead(l) \/ RecvFails(l) \/ RecvEof(l) \/ Recv(l) \/ RecvEnd(l)
    \/ EndReads(l) \/ Write(l) \/ EndWrites(l) \/ RunFunctor(l) \/ EndDrain(l)
    \/ l = Base /\ Accept
    \/ l \in Threads /\ (Publish(l) \/ Notify(l))

Next == Main \/ (\E l \in Loops : LoopStep(l)) \/ (\E c \in Conns : Client(c))

Spec == Init /\ [][Next]_vars

\* Every thread keeps running.
FairSpec == Spec /\ WF_vars(Main) /\ \A l \in Loops : WF_vars(LoopStep(l))

(***************************************************************************)
(* Properties.                                                             *)
(***************************************************************************)

Buffers == [text : Seq(1..MaxIn), put : Nat]

TypeOK ==
    /\ program \in {"reactor", "tcp"} /\ unstarted \subseteq Threads
    /\ main \in {"start", "get_loop", "waiting", "run"}
    /\ loop_service \in Seq(Threads) /\ index \in Nat
    /\ published \in [Threads -> BOOLEAN] /\ pc \in [Loops -> Steps]
    /\ inputs \in [Loops -> SUBSET (Conns \cup {Listen})] /\ outputs \in [Loops -> SUBSET Conns]
    /\ handlers \in [Loops -> SUBSET (Conns \cup {Listen})]
    /\ functors \in [Loops -> Seq(Conns)]
    /\ rlist \in [Loops -> SUBSET (Conns \cup {Listen})] /\ wlist \in [Loops -> SUBSET Conns]
    /\ reading \in [Loops -> Conns \cup {None}]
    /\ \A l \in Loops : reading[l] = None <=> pc[l] # "recv"
    /\ conn \in [Conns -> {"none", "queued", "open", "closed"}] /\ on \in [Conns -> Loops]
    /\ client \in [Conns -> {"idle", "up", "fin", "rst"}]
    /\ arrived \in [Conns -> 0..MaxIn] /\ received \in [Conns -> 0..MaxIn]
    /\ recv_buffer \in [Conns -> Buffers] /\ send_buffer \in [Conns -> Buffers]
    /\ wire \in [Conns -> Seq(1..MaxIn)]

\* run() finds a handler for everything select returned, although the handlers
\* before it have unregistered and modified: no KeyError ends a loop.
NoKeyError == \A l \in Loops : rlist[l] \cup wlist[l] \subseteq handlers[l]

\* The buffer has something to send.
Pending(c) == IF program = "reactor" THEN send_buffer[c].put > 0 ELSE send_buffer[c].text # <<>>

\* A loop watches each open connection of its own in one direction, for output
\* exactly while a reply is pending, and no other loop knows the connection.
OneDirection ==
    \A c \in Conns, l \in Loops :
        /\ c \in handlers[l] <=> conn[c] = "open" /\ on[c] = l
        /\ c \in handlers[l] => (c \in outputs[l] <=> Pending(c)) /\ (c \in inputs[l] <=> ~Pending(c))

\* tcp: a client gets back what it sent, each byte once and in order.
EchoIsFifo ==
    program = "tcp" => \A c \in Conns : wire[c] = Number(0, Len(wire[c])) /\ Len(wire[c]) <= received[c]

\* Where a thread of the pool is, as its users see it, and the loop get_loop
\* returned last.
Life(t) ==
    CASE pc[t] = "none" -> "none"
      [] pc[t] = "publish" -> "starting"
      [] pc[t] = "dead" -> "gone"
      [] OTHER -> "running"

Lives == [t \in Threads |-> Life(t)]
Last == IF index = 0 THEN 0 ELSE ((index - 1) % Len(loop_service)) + 1

Promise == INSTANCE LoopPool
               WITH stage <- IF main = "run" THEN "serving" ELSE "filling",
                    life <- Lives, pool <- loop_service, last <- Last,
                    LoopsDie <- TRUE, TurnSizes <- Nat

\* The pool keeps the promise of LoopPool but for its last part: loops are taken
\* in one by one and while they run, handed out in turn, and none of them dies
\* before the base loop accepts; but a dead one keeps its turns.
KeepsPoolPromise == Promise!Spec

\* One of the loop's own open connections: its client has reset it; has closed it,
\* with the tcp program; has sent whole chunks and nothing behind them; or has a
\* reply coming that sendall() cannot deliver.
CauseOfDeath(l) ==
    \E c \in Conns :
        /\ conn[c] = "open" /\ on[c] = l
        /\ \/ client[c] = "rst"
           \/ program = "tcp" /\ client[c] = "fin"
           \/ reading[l] = c /\ Started(c) /\ Available(c) = 0
           \/ c \in wlist[l] /\ send_buffer[c].text # <<>>

\* An exception ends a loop for such a connection only: never because the batch
\* or the tables are out of step, nor because a first recv() had nothing to read.
DeathHasCause == [][\A l \in Loops : pc[l] # "dead" /\ pc'[l] = "dead" => CauseOfDeath(l)]_vars

\* start() ends: a main thread in get_loop is woken whenever the thread
\* publishes its loop.
PoolStarts == (main = "get_loop") ~> (main \in {"start", "run"})

\* What the acceptor queues on a loop, which nothing wakes, is opened unless
\* the loop has died.
AcceptedIsOpened == \A c \in Conns : (conn[c] = "queued") ~> (conn[c] = "open" \/ pc[on[c]] = "dead")

\* A client that has left is noticed, also with a reply pending: its connection
\* is closed, or else the exception it causes ends the loop.
GoneIsClosed ==
    \A c \in Conns : (conn[c] = "open" /\ client[c] \in {"fin", "rst"})
                        ~> (conn[c] = "closed" \/ pc[on[c]] = "dead")
=============================================================================
