------------------------------- MODULE Sockets -------------------------------
(***************************************************************************)
(* The descriptors of one process and the calls that open and close them:  *)
(* net_base.cc, AsyncAcceptor::open and close, and tcp_connector of the    *)
(* client.  Every system call is a step and may fail; the other threads go *)
(* on in between and may be handed a number that has just been closed.     *)
(***************************************************************************)
EXTENDS Integers

CONSTANTS
    Fds,        \* the numbers the kernel may hand out, lowest free one first
    Threads,    \* the threads of the process
    Acceptor    \* the one that opens, closes and serves the AsyncAcceptor

ASSUME ThreadsAssumption == Acceptor \in Threads

\* Standard input is open: the code takes descriptor 0 for none.
ASSUME FdsAssumption == Fds \subseteq Nat \ {0}

VARIABLES
    pool,      \* the threads of the pool, chosen at the start
    state,     \* what each descriptor is
    nonblock,  \* the descriptors with O_NONBLOCK
    at,        \* where each thread is
    sock,      \* the local sock of a call in progress
    held,      \* listen_fd_ of the acceptor, sock_fd_ of each connector
    handlers_, \* the descriptors of acceptors the loop knows
    crash      \* a failed assertion

\* The other threads own a tcp_connector each.
Connectors == Threads \ (pool \cup {Acceptor})

sockVars == <<pool, state, nonblock, sock, held, handlers_, crash>>

Kinds == {"closed", "socket", "bound", "listening", "connecting", "connected", "accepted"}

Go(t, from, to) == at[t] = from /\ at' = [at EXCEPT ![t] = to]

SetState(f, kind) == state' = [state EXCEPT ![f] = kind]

\* The kernel hands out the lowest free number; it may also refuse.
Lowest(f) == state[f] = "closed" /\ \A g \in Fds : g < f => state[g] # "closed"

\* ::close, and epoll forgets the descriptor with it
CloseFd(f) == SetState(f, "closed") /\ nonblock' = nonblock \ {f}

\* The result of net_tcp_listen or net_tcp_connect, in its owner's field.
\* open() goes on to register_event, unless the result is negative.
Return(t, fd) ==
    /\ held' = [held EXCEPT ![t] = fd] /\ sock' = [sock EXCEPT ![t] = -1]
    /\ at' = [at EXCEPT ![t] = IF t = Acceptor /\ fd >= 0 THEN "register" ELSE "idle"]

ErrorVariantLeaks(t) == Return(t, -1) /\ UNCHANGED <<state, nonblock>>

\* the error label: close what was opened and return -1
Error(t) == CloseFd(sock[t]) /\ Return(t, -1)

---------------------------------------------------------------------------
(* Both kinds of socket.  A new descriptor has no flags.                    *)

\* AsyncAcceptor::open, tcp_connector::connect; the latter may return at once
\* from net_ip_sockaddr.
Begin(t) ==
    /\ held[t] = -1
    /\ Go(t, "idle", "socket")
    /\ UNCHANGED sockVars

Unresolved(c) ==
    /\ at[c] = "socket" /\ Return(c, -1)
    /\ UNCHANGED <<pool, state, nonblock, handlers_, crash>>

Socket(t) ==
    /\ \/ \E f \in Fds :
            /\ Lowest(f) /\ SetState(f, "socket")
            /\ sock' = [sock EXCEPT ![t] = f]
            /\ IF t = Acceptor THEN Go(t, "socket", "bind")
               ELSE \E nb \in {"fcntl", "connect"} : Go(t, "socket", nb)
            /\ UNCHANGED held
       \/ at[t] = "socket" /\ Return(t, -1) /\ UNCHANGED state
    /\ UNCHANGED <<pool, nonblock, handlers_, crash>>

\* the two branches of a call on sock: it succeeds, or the error label
Calls(t, from, Success) ==
    /\ at[t] = from
    /\ Success \/ Error(t)
    /\ UNCHANGED <<pool, handlers_, crash>>

---------------------------------------------------------------------------
(* The acceptor.                                                            *)

Bind ==
    Calls(Acceptor, "bind", /\ SetState(sock[Acceptor], "bound")
                            /\ at' = [at EXCEPT ![Acceptor] = "listen"]
                            /\ UNCHANGED <<nonblock, sock, held>>)

Listen ==
    Calls(Acceptor, "listen", /\ SetState(sock[Acceptor], "listening")
                              /\ Return(Acceptor, sock[Acceptor])
                              /\ UNCHANGED nonblock)

\* register_event fails for a descriptor the loop knows; open() asserts not.
Register ==
    /\ Go(Acceptor, "register", "idle")
    /\ crash' = (held[Acceptor] \in handlers_)
    /\ handlers_' = handlers_ \cup {held[Acceptor]}
    /\ UNCHANGED <<pool, state, nonblock, sock, held>>

\* AsyncAcceptor::close: delete_event asserts that the loop knows the
\* descriptor and epoll still watches it; ::close comes after it.
Unregister ==
    /\ held[Acceptor] > 0 /\ Go(Acceptor, "idle", "close")
    /\ crash' = ~(held[Acceptor] \in handlers_ /\ state[held[Acceptor]] = "listening")
    /\ handlers_' = handlers_ \ {held[Acceptor]}
    /\ UNCHANGED <<pool, state, nonblock, sock, held>>

CloseListener ==
    /\ Go(Acceptor, "close", "idle")
    /\ CloseFd(held[Acceptor])
    /\ held' = [held EXCEPT ![Acceptor] = -1]
    /\ UNCHANGED <<pool, sock, handlers_, crash>>

---------------------------------------------------------------------------
(* The connectors, through net_tcp_connect or net_tcp_connect_nonblock.     *)

SetNonblock(c) ==
    Calls(c, "fcntl", /\ nonblock' = nonblock \cup {sock[c]}
                      /\ at' = [at EXCEPT ![c] = "connect"]
                      /\ UNCHANGED <<state, sock, held>>)

\* EINPROGRESS is success on a non-blocking socket only.
Connect(c) ==
    Calls(c, "connect",
          /\ \/ SetState(sock[c], "connected")
             \/ sock[c] \in nonblock /\ SetState(sock[c], "connecting")
          /\ Return(c, sock[c])
          /\ UNCHANGED nonblock)

\* tcp_connector::close keeps the number in sock_fd_: it is not used again.
Disconnect(c) ==
    /\ held[c] > 0 /\ Go(c, "idle", "done")
    /\ CloseFd(held[c])
    /\ UNCHANGED <<pool, sock, held, handlers_, crash>>

---------------------------------------------------------------------------
SocketInit ==
    /\ pool \in SUBSET (Threads \ {Acceptor})
    /\ state = [f \in Fds |-> "closed"] /\ nonblock = {}
    /\ at = [t \in Threads |-> "idle"]
    /\ sock = [t \in Threads |-> -1] /\ held = [t \in Threads |-> -1]
    /\ handlers_ = {} /\ crash = FALSE

\* a call of the acceptor goes on
AcceptorCall == Socket(Acceptor) \/ Bind \/ Listen \/ Register \/ CloseListener

SocketNext ==
    \/ Begin(Acceptor) \/ AcceptorCall \/ Unregister
    \/ \E c \in Connectors :
        \/ Begin(c) \/ Unresolved(c) \/ Socket(c) \/ SetNonblock(c) \/ Connect(c) \/ Disconnect(c)
=============================================================================
