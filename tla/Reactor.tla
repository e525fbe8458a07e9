------------------------------- MODULE Reactor -------------------------------
(***************************************************************************)
(* One event loop of libolptnet at work: ServiceLoop::run over the epoll   *)
(* dispatcher, the wakeup handler, the acceptor and the connections whose  *)
(* callbacks change the loop's own tables while it iterates over a batch   *)
(* of ready events.  Other threads add functors, wake the loop and quit it.*)
(* A handler runs to completion on the loop's thread, so one callback is   *)
(* one action; the calls of the other threads interleave between them.     *)
(***************************************************************************)
EXTENDS Integers, Sequences, FiniteSets

CONSTANTS
    Conns,          \* connections: one client and one ConnectionHandler each
    ConnFds,        \* descriptors the process may hold for connections
    WakeFd,         \* the eventfd of the WakeupHandler
    ListenFd,       \* the acceptor's listening socket
    Wakeup,         \* the WakeupHandler object
    Acceptor,       \* the AsyncAcceptor object
    Null,           \* a map entry that holds a null pointer
    Absent,         \* no map entry, no descriptor
    AcceptMode,     \* how an accepted connection reaches this loop
    SendOnConnect,  \* may on_connect call send()?
    MaxReply,       \* bound: pieces of a reply handed to one send()
    MaxWakeups      \* bound: calls of wakeup_event() by other threads

(* "direct": on_accept calls open() (example-1); "queued": on_accept hands *)
(* open to add_run of the loop it runs on (acceptor_server, empty pool);   *)
(* "remote": the acceptor lives in another loop's thread (pool).           *)
ASSUME ConstantsAssumption ==
    /\ AcceptMode \in {"direct", "queued", "remote"}
    /\ SendOnConnect \in BOOLEAN
    /\ MaxReply \in Nat \ {0}
    /\ MaxWakeups \in Nat
    /\ IsFiniteSet(ConnFds)
    /\ WakeFd # ListenFd
    /\ {WakeFd, ListenFd, Null, Absent} \cap ConnFds = {}
    /\ {Wakeup, Acceptor, Null, Absent} \cap Conns = {}
    /\ Wakeup # Acceptor
    /\ Null # Absent
    /\ {Wakeup, Acceptor} \cap {Null, Absent} = {}

Fds == ConnFds \cup {WakeFd, ListenFd}
Handlers == Conns \cup {Wakeup, Acceptor}
Events == {"READ", "WRITE", "ERROR"}

VARIABLES
    pc,         \* where run() is: check, poll, dispatch, drain, exited, destroyed
    quit_,      \* ServiceLoop::quit_
    handlers_,  \* ServiceLoop::handlers_, [Fds -> Handlers, Null or Absent]
    epoll,      \* kernel interest list: the single event watched, or "none"
    fd_count_,  \* DispatcherEpoll::fd_count_
    functors_,  \* ServiceLoop::functors_: connections whose open() is queued
    ready,      \* events of this batch not yet dispatched, per descriptor
    current,    \* descriptor whose entries are being dispatched, or Absent
    owner,      \* history: handlers_ as it was when the batch was collected
    eventfd,    \* counter of the wakeup eventfd
    wakeups,    \* wakeup_event() calls made by other threads so far
    quitter,    \* the thread calling quit(): idle, flagged (quit_ set), done
    obj,        \* life of each connection: none, refused, queued, open, deleted
    fdOf,       \* descriptor accepted for each connection, or Absent
    out,        \* pieces in buffer_out_ of each connection
    inq,        \* is there unread data in the socket of each connection?
    peer,       \* the client's side: idle, up, fin (closed), rst (reset)
    crash       \* what brought the process down, or "none"

loopVars == <<pc, quit_, ready, current, owner>>
tables == <<handlers_, epoll, fd_count_>>
conns == <<obj, fdOf, out>>
net == <<inq, peer>>
threads == <<eventfd, wakeups, quitter>>
vars == <<loopVars, tables, functors_, conns, net, threads, crash>>

Init ==
    /\ pc = "check" /\ quit_ = FALSE
    \* WakeupHandler::open, and AsyncAcceptor::open unless it lives elsewhere
    /\ handlers_ = [f \in Fds |-> CASE f = WakeFd -> Wakeup
                                    [] f = ListenFd /\ AcceptMode # "remote" -> Acceptor
                                    [] OTHER -> Absent]
    /\ epoll = [f \in Fds |-> IF handlers_[f] = Absent THEN "none" ELSE "READ"]
    /\ fd_count_ = IF AcceptMode = "remote" THEN 1 ELSE 2
    /\ functors_ = <<>>
    /\ ready = [f \in Fds |-> {}] /\ current = Absent
    /\ owner = [f \in Fds |-> Absent]
    /\ eventfd = 0 /\ wakeups = 0 /\ quitter = "idle"
    /\ obj = [c \in Conns |-> "none"] /\ fdOf = [c \in Conns |-> Absent]
    /\ out = [c \in Conns |-> 0]
    /\ inq = [c \in Conns |-> FALSE] /\ peer = [c \in Conns |-> "idle"]
    /\ crash = "none"

(***************************************************************************)
(* The loop's tables: register_event, modify_event and delete_event with   *)
(* the epoll calls below them.  Each caller asserts that they return 0.    *)
(***************************************************************************)

\* Variants named "...Variant..." are not the code: each is one plausible mistake
\* in the definition that follows it, used to show that a property can fail.

\* add_event and mod_event assign the mask, so EPOLLOUT replaces EPOLLIN.
Mask(readable, writeable) == IF writeable THEN "WRITE" ELSE "READ"

RegisterVariantUncounted(f, readable, writeable, h) ==
    /\ epoll' = [epoll EXCEPT ![f] = Mask(readable, writeable)]
    /\ handlers_' = [handlers_ EXCEPT ![f] = h]
    /\ UNCHANGED <<fd_count_, crash>>

register_event(f, readable, writeable, h) ==
    IF epoll[f] # "none"                        \* EEXIST
    THEN crash' = "register" /\ UNCHANGED tables
    ELSE /\ epoll' = [epoll EXCEPT ![f] = Mask(readable, writeable)]
         /\ fd_count_' = fd_count_ + 1
         /\ handlers_' = [handlers_ EXCEPT ![f] = h]
         /\ UNCHANGED crash

modify_event(f, readable, writeable, h) ==
    IF epoll[f] = "none"                        \* ENOENT
    THEN crash' = "modify" /\ UNCHANGED tables
    ELSE /\ epoll' = [epoll EXCEPT ![f] = Mask(readable, writeable)]
         /\ handlers_' = [handlers_ EXCEPT ![f] = h]
         /\ UNCHANGED <<fd_count_, crash>>

\* del_event tolerates ENOENT and counts up, like add_event.
delete_event(f) ==
    IF handlers_[f] = Absent THEN UNCHANGED tables
    ELSE /\ epoll' = [epoll EXCEPT ![f] = "none"]
         /\ fd_count_' = fd_count_ + 1
         /\ handlers_' = [handlers_ EXCEPT ![f] = Absent]

(***************************************************************************)
(* Connections and their callbacks.                                        *)
(***************************************************************************)

Backlog == {c \in Conns : peer[c] # "idle" /\ obj[c] = "none"}
FreeFds == ConnFds \ {fdOf[c] : c \in Conns}

SendVariantAsksAfterPut(c, n) ==
    /\ out' = [out EXCEPT ![c] = @ + n]
    /\ IF out'[c] = 0 THEN modify_event(fdOf[c], TRUE, TRUE, c)
                      ELSE UNCHANGED <<tables, crash>>

\* ConnectionHandler::send: ask for writability only when the buffer was empty.
send(c, n) ==
    /\ out' = [out EXCEPT ![c] = @ + n]
    /\ IF out[c] = 0 THEN modify_event(fdOf[c], TRUE, TRUE, c)
                     ELSE UNCHANGED <<tables, crash>>

CloseVariantKeepsHandler(c) ==
    /\ obj' = [obj EXCEPT ![c] = "deleted"]
    /\ UNCHANGED <<tables, fdOf, out, crash>>

CloseVariantReleasesFd(c) ==
    /\ delete_event(fdOf[c])
    /\ obj' = [obj EXCEPT ![c] = "deleted"]
    /\ fdOf' = [fdOf EXCEPT ![c] = Absent]
    /\ UNCHANGED <<out, crash>>

\* ConnectionHandler::close deregisters and deletes the object; nothing closes
\* the descriptor, so it stays taken.
close(c) ==
    /\ delete_event(fdOf[c])
    /\ obj' = [obj EXCEPT ![c] = "deleted"]
    /\ UNCHANGED <<fdOf, out, crash>>

\* ConnectionHandler::open: on_connect runs before the descriptor is registered.
open(c, f) ==
    \/ /\ register_event(f, TRUE, FALSE, c)
       /\ obj' = [obj EXCEPT ![c] = "open"]
       /\ out' = [out EXCEPT ![c] = 0]
    \/ /\ SendOnConnect /\ epoll[f] = "none"
       /\ modify_event(f, TRUE, TRUE, c)
       /\ UNCHANGED <<obj, out>>

\* on_accept returns false (too many clients): the descriptor is closed.
refuse(c) ==
    /\ obj' = [obj EXCEPT ![c] = "refused"]
    /\ UNCHANGED <<tables, functors_, fdOf, out, crash>>

\* accept() and on_accept; every queued functor is a bound open().
accept(c, f) ==
    \/ refuse(c)
    \/ /\ fdOf' = [fdOf EXCEPT ![c] = f]
       /\ IF AcceptMode = "direct"
          THEN open(c, f) /\ UNCHANGED functors_
          ELSE /\ obj' = [obj EXCEPT ![c] = "queued"]
               /\ functors_' = Append(functors_, c)
               /\ UNCHANGED <<tables, out, crash>>

\* on_read consumes its input; user code may reply, close another open
\* connection, or do neither.
on_read(c) ==
    \/ UNCHANGED <<tables, conns, crash>>
    \/ \E n \in 1..MaxReply : send(c, n) /\ UNCHANGED <<obj, fdOf>>
    \/ \E v \in Conns \ {c} : obj[v] = "open" /\ close(v)

(***************************************************************************)
(* ServiceLoop::run.                                                       *)
(***************************************************************************)

Readable(f) ==
    CASE f = WakeFd   -> eventfd > 0
      [] f = ListenFd -> Backlog # {}
      [] OTHER        -> \E c \in Conns : fdOf[c] = f /\ (inq[c] \/ peer[c] \in {"fin", "rst"})

Reset(f) == \E c \in Conns : fdOf[c] = f /\ peer[c] = "rst"

\* What epoll reports of a watched descriptor; the peer reads its replies, so a
\* connection that waits for EPOLLOUT is writable.
Reported(f) ==
    IF epoll[f] = "none" THEN {}
    ELSE    (IF epoll[f] = "READ" /\ Readable(f) THEN {"READ"} ELSE {})
       \cup (IF epoll[f] = "WRITE" THEN {"WRITE"} ELSE {})
       \cup (IF Reset(f) THEN {"ERROR"} ELSE {})

Check ==
    /\ pc = "check"
    /\ pc' = IF quit_ THEN "exited" ELSE "poll"
    /\ UNCHANGED <<quit_, ready, current, owner, tables, functors_, conns, net, threads, crash>>

\* epoll_wait returns at most fd_count_ of the ready descriptors, and after 2 ms
\* (or on EINTR) returns none when none is ready.
Collect(batch) ==
    /\ Cardinality(batch) <= fd_count_
    /\ \/ batch = {f \in Fds : Reported(f) # {}}
       \/ Cardinality(batch) = fd_count_

HandleEventsVariantNoTimeout ==
    /\ pc = "poll" /\ \E f \in Fds : Reported(f) # {}
    /\ ready' = [f \in Fds |-> Reported(f)]
    /\ owner' = handlers_
    /\ pc' = "dispatch"
    /\ UNCHANGED <<quit_, current, tables, functors_, conns, net, threads, crash>>

HandleEvents ==
    /\ pc = "poll"
    /\ \E batch \in SUBSET {f \in Fds : Reported(f) # {}} :
         /\ Collect(batch)
         /\ ready' = [f \in Fds |-> IF f \in batch THEN Reported(f) ELSE {}]
    /\ owner' = handlers_
    /\ pc' = "dispatch"
    /\ UNCHANGED <<quit_, current, tables, functors_, conns, net, threads, crash>>

\* The batch lists descriptors in any order, each one's entries together:
\* READ, then WRITE, then ERROR.
TakeEntry(f, ev) ==
    /\ pc = "dispatch" /\ current \in {Absent, f}
    /\ ev \in ready[f]
    /\ ev = "WRITE" => "READ" \notin ready[f]
    /\ ev = "ERROR" => ready[f] = {"ERROR"}
    /\ ready' = [ready EXCEPT ![f] = @ \ {ev}]
    /\ current' = IF ready[f] = {ev} THEN Absent ELSE f
    /\ UNCHANGED <<pc, quit_, owner>>

LookupVariantCached(f) == owner[f]

\* handlers_[fd] is looked up for every entry and creates a null one if the
\* handler is gone.
Lookup(f) == handlers_[f]

DispatchNull ==
    \E f \in Fds, ev \in Events :
        /\ TakeEntry(f, ev) /\ Lookup(f) \in {Null, Absent}
        /\ handlers_' = [handlers_ EXCEPT ![f] = Null]
        /\ UNCHANGED <<epoll, fd_count_, functors_, conns, net, threads, crash>>

\* WakeupHandler::do_handle_read asserts that it read the value 1.
DispatchWakeup ==
    /\ TakeEntry(WakeFd, "READ") /\ Lookup(WakeFd) = Wakeup
    /\ eventfd' = 0
    /\ crash' = IF eventfd = 1 THEN "none" ELSE "wakeup"
    /\ UNCHANGED <<tables, functors_, conns, net, wakeups, quitter>>

\* Out of descriptors, accept() fails and the handler returns.
DispatchAccept ==
    /\ TakeEntry(ListenFd, "READ") /\ Lookup(ListenFd) = Acceptor
    /\ \/ /\ FreeFds = {}
          /\ UNCHANGED <<tables, functors_, conns, crash>>
       \/ \E c \in Backlog, f \in FreeFds : accept(c, f)
    /\ UNCHANGED <<net, threads>>

\* The socket is blocking: with neither data nor end of stream recv() would
\* not return, so no disjunct is enabled then.  The data fits in one recv();
\* input_stream_buffer::read after a full 64 KiB chunk is not modelled here.
DispatchRead(c) ==
    \E f \in ConnFds :
        /\ TakeEntry(f, "READ") /\ Lookup(f) = c
        /\ \/ /\ inq[c]
              /\ inq' = [inq EXCEPT ![c] = FALSE]
              /\ on_read(c)
           \/ /\ ~inq[c] /\ peer[c] \in {"fin", "rst"}
              /\ close(c) /\ UNCHANGED inq
        /\ UNCHANGED <<functors_, peer, threads>>

\* A send() to a reset peer fails and the handler returns, or SIGPIPE ends the
\* process; otherwise some of the pieces go out, all unless it would block.
DispatchWrite(c) ==
    \E f \in ConnFds :
        /\ TakeEntry(f, "WRITE") /\ Lookup(f) = c
        /\ \/ /\ out[c] > 0 => peer[c] = "rst"
              /\ crash' \in IF out[c] > 0 THEN {"none", "sigpipe"} ELSE {"none"}
              /\ UNCHANGED <<tables, out>>
           \/ /\ peer[c] # "rst"
              /\ \E n \in 1..out[c] :
                   /\ out' = [out EXCEPT ![c] = @ - n]
                   /\ IF n = out[c] THEN modify_event(fdOf[c], TRUE, FALSE, c)
                                    ELSE UNCHANGED <<tables, crash>>
        /\ UNCHANGED <<functors_, obj, fdOf, net, threads>>

DispatchErrorVariantIgnored(c) ==
    \E f \in ConnFds :
        /\ TakeEntry(f, "ERROR") /\ Lookup(f) = c
        /\ UNCHANGED <<tables, functors_, conns, net, threads, crash>>

DispatchError(c) ==
    \E f \in ConnFds :
        /\ TakeEntry(f, "ERROR") /\ Lookup(f) = c
        /\ close(c)
        /\ UNCHANGED <<functors_, net, threads>>

EndDispatch ==
    /\ pc = "dispatch" /\ \A f \in Fds : ready[f] = {}
    /\ pc' = "drain"
    /\ UNCHANGED <<quit_, ready, current, owner, tables, functors_, conns, net, threads, crash>>

RunFunctorVariantNewestFirst ==
    /\ pc = "drain" /\ functors_ # <<>>
    /\ functors_' = SubSeq(functors_, 1, Len(functors_) - 1)
    /\ open(functors_[Len(functors_)], fdOf[functors_[Len(functors_)]])
    /\ UNCHANGED <<loopVars, fdOf, net, threads>>

RunFunctor ==
    /\ pc = "drain" /\ functors_ # <<>>
    /\ functors_' = Tail(functors_)
    /\ open(Head(functors_), fdOf[Head(functors_)])
    /\ UNCHANGED <<loopVars, fdOf, net, threads>>

EndDrainVariantSkipsCheck ==
    /\ pc = "drain" /\ functors_ = <<>>
    /\ pc' = "poll"
    /\ UNCHANGED <<quit_, ready, current, owner, tables, functors_, conns, net, threads, crash>>

EndDrain ==
    /\ pc = "drain" /\ functors_ = <<>>
    /\ pc' = "check"
    /\ UNCHANGED <<quit_, ready, current, owner, tables, functors_, conns, net, threads, crash>>

LoopStep ==
    \/ Check \/ HandleEvents \/ EndDispatch \/ RunFunctor \/ EndDrain
    \/ DispatchNull \/ DispatchWakeup \/ DispatchAccept
    \/ \E c \in Conns : DispatchRead(c) \/ DispatchWrite(c) \/ DispatchError(c)

\* ~ServiceLoop, run by the loop's owner once quit() and run() have returned.
Destroy ==
    /\ pc = "exited" /\ quitter = "done"
    /\ pc' = "destroyed"
    /\ handlers_' = [f \in Fds |-> Absent]
    /\ epoll' = [f \in Fds |-> "none"]
    /\ UNCHANGED <<quit_, ready, current, owner, fd_count_, functors_, conns, net, threads, crash>>

(***************************************************************************)
(* The other threads and the clients.                                      *)
(***************************************************************************)

\* quit() sets the flag and then writes the eventfd.
QuitFlag ==
    /\ quitter = "idle"
    /\ quit_' = TRUE /\ quitter' = "flagged"
    /\ UNCHANGED <<pc, ready, current, owner, tables, functors_, conns, net, eventfd, wakeups, crash>>

QuitWakeup ==
    /\ quitter = "flagged"
    /\ eventfd' = eventfd + 1 /\ quitter' = "done"
    /\ UNCHANGED <<loopVars, tables, functors_, conns, net, wakeups, crash>>

\* The owner destroys the loop only after the other users of it are done.
WakeupEvent ==
    /\ pc # "destroyed" /\ wakeups < MaxWakeups
    /\ eventfd' = eventfd + 1 /\ wakeups' = wakeups + 1
    /\ UNCHANGED <<loopVars, tables, functors_, conns, net, quitter, crash>>

\* The acceptor's thread accepts a client and calls add_run on this loop.
RemoteAccept ==
    /\ AcceptMode = "remote" /\ pc # "destroyed"
    /\ \E c \in Backlog, f \in FreeFds : accept(c, f)
    /\ UNCHANGED <<loopVars, net, threads>>

Client(c) ==
    /\ \/ /\ peer[c] = "idle"
          /\ peer' = [peer EXCEPT ![c] = "up"] /\ UNCHANGED inq
       \/ /\ peer[c] = "up"
          /\ inq' = [inq EXCEPT ![c] = TRUE] /\ UNCHANGED peer
       \/ /\ peer[c] = "up"
          /\ peer' = [peer EXCEPT ![c] = "fin"] /\ UNCHANGED inq
       \/ /\ peer[c] \in {"up", "fin"}         \* what has arrived stays readable
          /\ peer' = [peer EXCEPT ![c] = "rst"] /\ UNCHANGED inq
    /\ UNCHANGED <<loopVars, tables, functors_, conns, threads, crash>>

\* A failed assert or SIGPIPE ends the process.
Next ==
    /\ crash = "none"
    /\ \/ LoopStep \/ Destroy \/ QuitFlag \/ QuitWakeup \/ WakeupEvent \/ RemoteAccept
       \/ \E c \in Conns : Client(c)

Spec == Init /\ [][Next]_vars

\* The scheduler keeps running the loop's thread and a thread inside quit().
FairSpec == Spec /\ WF_vars(crash = "none" /\ LoopStep) /\ WF_vars(crash = "none" /\ QuitWakeup)

(***************************************************************************)
(* Properties.                                                             *)
(***************************************************************************)

TablesTyped ==
    /\ handlers_ \in [Fds -> Handlers \cup {Null, Absent}]
    /\ epoll \in [Fds -> {"none", "READ", "WRITE"}]
    /\ fd_count_ \in Nat
    /\ crash \in {"none", "register", "modify", "wakeup", "sigpipe"}

ConnsTyped ==
    /\ obj \in [Conns -> {"none", "refused", "queued", "open", "deleted"}]
    /\ fdOf \in [Conns -> ConnFds \cup {Absent}]
    /\ out \in [Conns -> Nat]

LoopTyped ==
    /\ pc \in {"check", "poll", "dispatch", "drain", "exited", "destroyed"}
    /\ quit_ \in BOOLEAN
    /\ functors_ \in Seq(Conns)
    /\ ready \in [Fds -> SUBSET Events]
    /\ current \in Fds \cup {Absent}
    /\ owner \in [Fds -> Handlers \cup {Null, Absent}]

OthersTyped ==
    /\ eventfd \in Nat /\ wakeups \in 0..MaxWakeups
    /\ quitter \in {"idle", "flagged", "done"}
    /\ inq \in [Conns -> BOOLEAN]
    /\ peer \in [Conns -> {"idle", "up", "fin", "rst"}]

\* Every variable keeps its type; an interest is never both, because the mask
\* that add_event and mod_event build holds one event.
TypeOK == TablesTyped /\ ConnsTyped /\ LoopTyped /\ OthersTyped

\* The loop never calls into a freed object: while it runs, the connections in
\* handlers_ are exactly the open ones, each under its own descriptor, although
\* callbacks close connections (their own or another's) that still have entries
\* in the batch being dispatched.
HandlersAreLive ==
    pc # "destroyed" =>
        \A c \in Conns : \A f \in Fds :
            handlers_[f] = c <=> (obj[c] = "open" /\ fdOf[c] = f)

\* The kernel watches exactly the descriptors that have a handler, and a
\* connection waits for EPOLLOUT exactly while buffer_out_ holds something: a
\* reply is never left in the buffer unwatched, and a drained connection always
\* goes back to reading.
InterestFollowsBuffer ==
    (crash = "none" /\ pc # "destroyed") =>
        /\ \A f \in Fds : epoll[f] = "none" <=> handlers_[f] \in {Null, Absent}
        /\ \A c \in Conns : obj[c] = "open" =>
              epoll[fdOf[c]] = IF out[c] > 0 THEN "WRITE" ELSE "READ"

\* An event collected for one handler is never delivered to another one, even
\* when the first is closed and new connections are registered before the
\* entry's turn comes.
NoMisdelivery ==
    (pc = "dispatch") =>
        \A f \in Fds : ready[f] # {} => handlers_[f] \in {owner[f], Null, Absent}

\* The first recv() of do_handle_read on the blocking sockets does not wait: a
\* connection about to handle a READ entry has data or the end of its stream to
\* read, although other callbacks ran since epoll_wait reported it.
FirstRecvReturns ==
    \A c \in Conns : \A f \in ConnFds :
        ("READ" \in ready[f] /\ handlers_[f] = c) => (inq[c] \/ peer[c] \in {"fin", "rst"})

Watched == {f \in Fds : epoll[f] # "none"}

\* fd_count_, which del_event increments as well, always leaves epoll_wait room
\* for every watched descriptor, and is never the 0 that epoll_wait rejects.
CapacityCoversWatched == Cardinality(Watched) <= fd_count_ /\ fd_count_ > 0

\* The asserts that register_event and modify_event return 0 hold in every
\* interleaving, as long as on_connect does not send.
TableAssertsHold == crash # "register" /\ (~SendOnConnect => crash # "modify")

\* WakeupHandler::do_handle_read: assert(1==one).
WakeupReadsOne == crash # "wakeup"

Stopped == quit_ \/ crash # "none"

\* add_run does not wake the loop, yet every queued functor is run: the poll
\* timeout is enough, unless the loop is told to quit.
FunctorsRun == \A c \in Conns : obj[c] = "queued" ~> (obj[c] # "queued" \/ Stopped)

\* A connection whose client has closed or reset it is deleted in the end, also
\* when the loop was only waiting to write to it.
GonePeersAreClosed ==
    \A c \in Conns : (obj[c] = "open" /\ peer[c] \in {"fin", "rst"}) ~> (obj[c] = "deleted" \/ Stopped)

\* Everything handed to send() leaves the buffer or its connection is closed.
RepliesFlushed ==
    \A c \in Conns : (obj[c] = "open" /\ out[c] > 0) ~> (obj[c] = "deleted" \/ out[c] = 0 \/ Stopped)

\* quit() from another thread ends run().
QuitStops == quit_ ~> (pc \in {"exited", "destroyed"} \/ crash # "none")

Promise == INSTANCE EventLoop
               WITH life <- obj, queue <- functors_, unsent <- out, unread <- inq, asked <- quit_,
                    over <- pc \in {"exited", "destroyed"}, down <- crash # "none",
                    OtherWakeups <- MaxWakeups > 0

\* run() with its batch of ready descriptors, its lookups and its tables, changed
\* by callbacks in the middle of a batch, keeps the promise of EventLoop: functors
\* run once each in the order of add_run, only open connections are called, a
\* read finds nothing unsent and a write something to send.
KeepsPromise == Promise!Spec
=============================================================================
