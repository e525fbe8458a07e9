------------------------ MODULE AcceptorServerProofs ------------------------
(***************************************************************************)
(* AcceptorServer for any threads, descriptors, handlers and clones: who   *)
(* owns a descriptor, who owns a functor's clone and which clones are      *)
(* lost, that functors are run once and in order, and which slots of       *)
(* clients_ are taken.                                                     *)
(***************************************************************************)
EXTENDS AcceptorServer, SequenceTheorems, FiniteSetTheorems, WellFoundedInduction, TLAPS

USE ThreadsAssumption, FdsAssumption, ServerAssumption

-----------------------------------------------------------------------------
(* Descriptors.                                                             *)

WhoIsWhere ==
    /\ \A c \in Connectors : at[c] \in {"idle", "socket", "fcntl", "connect", "done"}
    /\ \A l \in pool : at[l] \in {"idle", "pop", "popping", "call", "removing"} /\ held[l] = -1
    /\ at[Acceptor] \notin {"fcntl", "connect", "done"}

\* A call holds a descriptor exactly from socket() or accept() on, and its
\* owner's field is empty meanwhile.
CallsHold ==
    /\ \A t \in Threads : sock[t] # -1 <=> at[t] \in InCall
    /\ \A t \in Threads : held[t] # -1 => at[t] \notin {"socket", "bind", "listen", "fcntl", "connect"}
    /\ at[Acceptor] \in {"register", "close"} => held[Acceptor] # -1

\* A call that goes on finds its descriptor as the last step of it left it.
CallsFind ==
    /\ at[Acceptor] = "bind" => state[sock[Acceptor]] = "socket"
    /\ at[Acceptor] = "listen" => state[sock[Acceptor]] = "bound"
    /\ at[Acceptor] = "accepted" => state[sock[Acceptor]] = "accepted"
    /\ held[Acceptor] # -1 => state[held[Acceptor]] = "listening"

ConnectorsReady ==
    \A c \in Connectors :
        /\ at[c] \in {"fcntl", "connect"} => state[sock[c]] = "socket"
        /\ held[c] # -1 /\ at[c] # "done" =>
            \/ state[held[c]] = "connected"
            \/ state[held[c]] = "connecting" /\ held[c] \in nonblock

OneOwnerEach ==
    \A s \in Fds :
        /\ \A t, u \in Threads : Owns(t, s) /\ Owns(u, s) => t = u
        /\ \A t \in Threads : Owns(t, s) => state[s] # "closed" /\ handlerOf[s] = 0
        /\ state[s] # "closed" /\ handlerOf[s] = 0 => \E t \in Threads : Owns(t, s)
        /\ handlerOf[s] # 0 => state[s] # "closed"

LoopKnowsListener ==
    /\ handlers_ = IF held[Acceptor] = -1 \/ at[Acceptor] \in {"register", "close"} THEN {}
                   ELSE {held[Acceptor]}
    /\ ~crash

SocketInv ==
    /\ SocketsTyped /\ WhoIsWhere /\ CallsHold /\ CallsFind
    /\ ConnectorsReady /\ OneOwnerEach /\ LoopKnowsListener

USE DEF Connectors

LEMMA SocketInitInv == ASSUME Init PROVE SocketInv
<1> SUFFICES ASSUME SocketInit, handlerOf = [s \in Fds |-> 0]
             PROVE  SocketInv
  BY DEF Init
<1>1. SocketsTyped
  BY DEF SocketInit, SocketsTyped, At, Kinds
<1>2. WhoIsWhere
  BY DEF SocketInit, WhoIsWhere
<1>3. CallsHold /\ CallsFind
  BY DEF SocketInit, CallsHold, CallsFind, InCall
<1>4. ConnectorsReady /\ LoopKnowsListener
  BY DEF SocketInit, ConnectorsReady, LoopKnowsListener
<1>5. \A s \in Fds, t \in Threads : state[s] = "closed" /\ ~Owns(t, s)
  BY DEF SocketInit, Owns
<1>6. OneOwnerEach
  BY <1>5 DEF OneOwnerEach
<1> QED
  BY <1>1, <1>2, <1>3, <1>4, <1>6 DEF SocketInv

LEMMA BeginInv ==
  ASSUME SocketInv, NEW t \in Connectors \cup {Acceptor}, Begin(t), handlerOf' = handlerOf
  PROVE  SocketInv'
BY DEF Begin, Go, sockVars, SocketInv, SocketsTyped, WhoIsWhere, CallsHold, CallsFind, ConnectorsReady,
       OneOwnerEach, LoopKnowsListener, Owns, InCall, At

\* The descriptor of a call is the caller's alone.
LEMMA CallHolds ==
  ASSUME SocketInv, NEW t \in Threads, at[t] \in InCall
  PROVE  /\ sock[t] \in Fds /\ Owns(t, sock[t]) /\ handlerOf[sock[t]] = 0 /\ state[sock[t]] # "closed"
         /\ at[t] # "accepted" => held[t] = -1
         /\ \A u \in Threads : Owns(u, sock[t]) => u = t
         /\ \A u \in Threads : u # t => sock[u] # sock[t]
         /\ \A u \in Threads : at[u] # "done" => held[u] # sock[t]
<1>1. sock[t] \in Fds
  BY DEF SocketInv, SocketsTyped, CallsHold
<1>2. Owns(t, sock[t])
  BY DEF Owns
<1>3. at[t] # "accepted" => held[t] = -1
  BY DEF SocketInv, CallsHold, InCall
<1>4. /\ handlerOf[sock[t]] = 0 /\ state[sock[t]] # "closed"
      /\ \A u \in Threads : Owns(u, sock[t]) => u = t
  BY <1>1, <1>2 DEF SocketInv, OneOwnerEach
<1>5. ASSUME NEW u \in Threads, u # t PROVE sock[u] # sock[t] /\ (at[u] # "done" => held[u] # sock[t])
  <2>1. ~Owns(u, sock[t])
    BY <1>4, <1>5
  <2>2. at[u] \notin InCall => sock[u] = -1
    BY DEF SocketInv, CallsHold
  <2> QED
    BY <1>1, <2>1, <2>2 DEF Owns
<1>6. held[t] # sock[t]
  <2>1. CASE at[t] = "accepted"
    <3>1. t = Acceptor
      BY <2>1 DEF SocketInv, SocketsTyped, WhoIsWhere
    <3> QED
      BY <1>1, <2>1, <3>1 DEF SocketInv, CallsFind
  <2> QED
    BY <1>1, <1>3, <2>1
<1> QED
  BY <1>1, <1>2, <1>3, <1>4, <1>5, <1>6

\* A call that fails after socket() closes what it has opened.
LEMMA ErrorInv ==
  ASSUME SocketInv, NEW t \in Connectors \cup {Acceptor}, at[t] \in {"bind", "listen", "fcntl", "connect"},
         Error(t), UNCHANGED <<pool, handlers_, crash, handlerOf>>
  PROVE  SocketInv'
<1>0. t \in Threads /\ at[t] \in InCall /\ at[t] # "accepted"
  BY DEF InCall
<1>1. /\ sock[t] \in Fds /\ handlerOf[sock[t]] = 0 /\ held[t] = -1
      /\ \A u \in Threads : Owns(u, sock[t]) => u = t
      /\ \A u \in Threads : u # t => sock[u] # sock[t]
      /\ \A u \in Threads : at[u] # "done" => held[u] # sock[t]
  BY <1>0, CallHolds
<1>2. /\ state' = [state EXCEPT ![sock[t]] = "closed"] /\ nonblock' = nonblock \ {sock[t]}
      /\ held' = [held EXCEPT ![t] = -1] /\ sock' = [sock EXCEPT ![t] = -1]
      /\ at' = [at EXCEPT ![t] = "idle"]
  BY DEF Error, Return, CloseFd, SetState
<1>3. SocketsTyped'
  BY <1>1, <1>2 DEF SocketInv, SocketsTyped, At, Kinds
<1>4. WhoIsWhere' /\ CallsHold'
  BY <1>1, <1>2 DEF SocketInv, SocketsTyped, WhoIsWhere, CallsHold, InCall
<1>5. CallsFind'
  BY <1>0, <1>1, <1>2 DEF SocketInv, SocketsTyped, CallsHold, CallsFind, WhoIsWhere, InCall
<1>6. ConnectorsReady'
  BY <1>0, <1>1, <1>2 DEF SocketInv, SocketsTyped, CallsHold, ConnectorsReady, InCall
<1>7. OneOwnerEach'
  BY <1>1, <1>2 DEF SocketInv, SocketsTyped, OneOwnerEach, CallsHold, Owns, InCall
<1>8. LoopKnowsListener'
  BY <1>1, <1>2 DEF SocketInv, SocketsTyped, LoopKnowsListener
<1> QED
  BY <1>3, <1>4, <1>5, <1>6, <1>7, <1>8 DEF SocketInv

\* Every other step of a call changes what its own descriptor is.
LEMMA BindInv ==
  ASSUME SocketInv, Bind, handlerOf' = handlerOf
  PROVE  SocketInv'
<1>0. Acceptor \in Threads /\ at[Acceptor] = "bind" /\ at[Acceptor] \in InCall
  BY DEF Bind, Calls, InCall
<1>1. CASE Error(Acceptor)
  BY <1>0, <1>1, ErrorInv DEF Bind, Calls
<1>2. CASE /\ SetState(sock[Acceptor], "bound") /\ at' = [at EXCEPT ![Acceptor] = "listen"]
           /\ UNCHANGED <<nonblock, sock, held>>
  <2>1. /\ sock[Acceptor] \in Fds /\ handlerOf[sock[Acceptor]] = 0 /\ held[Acceptor] = -1
        /\ state[sock[Acceptor]] # "closed"
        /\ \A u \in Threads : u # Acceptor => sock[u] # sock[Acceptor]
        /\ \A u \in Threads : at[u] # "done" => held[u] # sock[Acceptor]
    BY <1>0, CallHolds
  <2>2. /\ state' = [state EXCEPT ![sock[Acceptor]] = "bound"]
        /\ UNCHANGED <<pool, nonblock, sock, held, handlers_, crash>>
    BY <1>2 DEF SetState, Bind, Calls
  <2>3. SocketsTyped' /\ WhoIsWhere' /\ CallsHold'
    BY <1>0, <1>2, <2>1, <2>2 DEF SocketInv, SocketsTyped, WhoIsWhere, CallsHold, InCall, At, Kinds
  <2>4. CallsFind' /\ ConnectorsReady'
    BY <1>0, <1>2, <2>1, <2>2 DEF SocketInv, SocketsTyped, CallsFind, ConnectorsReady
  <2>5. OneOwnerEach' /\ LoopKnowsListener'
    BY <1>0, <1>2, <2>1, <2>2 DEF SocketInv, SocketsTyped, OneOwnerEach, LoopKnowsListener, Owns, InCall
  <2> QED
    BY <2>3, <2>4, <2>5 DEF SocketInv
<1> QED
  BY <1>1, <1>2 DEF Bind, Calls

LEMMA SetNonblockInv ==
  ASSUME SocketInv, NEW c \in Connectors, SetNonblock(c), handlerOf' = handlerOf
  PROVE  SocketInv'
<1>0. c \in Threads /\ at[c] = "fcntl" /\ at[c] \in InCall
  BY DEF SetNonblock, Calls, InCall
<1>1. CASE Error(c)
  BY <1>0, <1>1, ErrorInv DEF SetNonblock, Calls
<1>2. CASE /\ nonblock' = nonblock \cup {sock[c]} /\ at' = [at EXCEPT ![c] = "connect"]
           /\ UNCHANGED <<state, sock, held>>
  <2>1. sock[c] \in Fds /\ held[c] = -1
    BY <1>0, CallHolds
  <2>2. UNCHANGED <<pool, handlers_, crash>>
    BY DEF SetNonblock, Calls
  <2>3. SocketsTyped' /\ WhoIsWhere' /\ CallsHold'
    BY <1>0, <1>2, <2>1, <2>2 DEF SocketInv, SocketsTyped, WhoIsWhere, CallsHold, InCall, At
  <2>4. CallsFind' /\ ConnectorsReady'
    BY <1>0, <1>2, <2>1, <2>2 DEF SocketInv, SocketsTyped, CallsFind, ConnectorsReady
  <2>5. OneOwnerEach' /\ LoopKnowsListener'
    BY <1>0, <1>2, <2>1, <2>2 DEF SocketInv, SocketsTyped, OneOwnerEach, LoopKnowsListener, Owns, InCall
  <2> QED
    BY <2>3, <2>4, <2>5 DEF SocketInv
<1> QED
  BY <1>1, <1>2 DEF SetNonblock, Calls

\* The two calls that succeed hand the descriptor over to their owner's field.
LEMMA ListenInv ==
  ASSUME SocketInv, Listen, handlerOf' = handlerOf
  PROVE  SocketInv'
<1>0. Acceptor \in Threads /\ at[Acceptor] = "listen" /\ at[Acceptor] \in InCall
  BY DEF Listen, Calls, InCall
<1>1. CASE Error(Acceptor)
  BY <1>0, <1>1, ErrorInv DEF Listen, Calls
<1>2. CASE SetState(sock[Acceptor], "listening") /\ Return(Acceptor, sock[Acceptor]) /\ UNCHANGED nonblock
  <2>1. /\ sock[Acceptor] \in Fds /\ handlerOf[sock[Acceptor]] = 0 /\ held[Acceptor] = -1
        /\ state[sock[Acceptor]] # "closed" /\ Owns(Acceptor, sock[Acceptor])
        /\ \A u \in Threads : u # Acceptor => sock[u] # sock[Acceptor]
        /\ \A u \in Threads : at[u] # "done" => held[u] # sock[Acceptor]
    BY <1>0, CallHolds
  <2>2. /\ state' = [state EXCEPT ![sock[Acceptor]] = "listening"]
        /\ held' = [held EXCEPT ![Acceptor] = sock[Acceptor]] /\ sock' = [sock EXCEPT ![Acceptor] = -1]
        /\ at' = [at EXCEPT ![Acceptor] = "register"]
        /\ UNCHANGED <<pool, nonblock, handlers_, crash>>
    <3>1. sock[Acceptor] \in Nat
      BY <2>1
    <3>2. sock[Acceptor] >= 0
      BY <3>1
    <3> QED
      BY <1>2, <3>2 DEF SetState, Return, Listen, Calls
  <2>3. SocketsTyped' /\ WhoIsWhere' /\ CallsHold'
    BY <1>0, <2>1, <2>2 DEF SocketInv, SocketsTyped, WhoIsWhere, CallsHold, InCall, At, Kinds
  <2>4. CallsFind'
    BY <1>0, <2>1, <2>2 DEF SocketInv, SocketsTyped, CallsFind
  <2>8. ConnectorsReady'
    BY <1>0, <2>1, <2>2 DEF SocketInv, SocketsTyped, ConnectorsReady
  <2>5. \A t \in Threads, s \in Fds : Owns(t, s)' <=> Owns(t, s)
    BY <1>0, <2>1, <2>2 DEF SocketInv, SocketsTyped, Owns, InCall
  <2>6. OneOwnerEach'
    BY <2>1, <2>2, <2>5 DEF SocketInv, SocketsTyped, OneOwnerEach
  <2>7. LoopKnowsListener'
    BY <2>1, <2>2 DEF SocketInv, SocketsTyped, LoopKnowsListener
  <2> QED
    BY <2>3, <2>4, <2>6, <2>7, <2>8 DEF SocketInv
<1> QED
  BY <1>1, <1>2 DEF Listen, Calls

LEMMA ConnectInv ==
  ASSUME SocketInv, NEW c \in Connectors, Connect(c), handlerOf' = handlerOf
  PROVE  SocketInv'
<1>0. c \in Threads /\ c # Acceptor /\ c \notin pool /\ at[c] = "connect" /\ at[c] \in InCall
  BY DEF Connect, Calls, InCall
<1>1. CASE Error(c)
  BY <1>0, <1>1, ErrorInv DEF Connect, Calls
<1>2. CASE /\ \/ SetState(sock[c], "connected")
              \/ sock[c] \in nonblock /\ SetState(sock[c], "connecting")
           /\ Return(c, sock[c]) /\ UNCHANGED nonblock
  <2>1. /\ sock[c] \in Fds /\ handlerOf[sock[c]] = 0 /\ held[c] = -1
        /\ state[sock[c]] # "closed" /\ Owns(c, sock[c])
        /\ \A u \in Threads : u # c => sock[u] # sock[c]
        /\ \A u \in Threads : at[u] # "done" => held[u] # sock[c]
    BY <1>0, CallHolds
  <2>2. PICK kind \in {"connected", "connecting"} :
            state' = [state EXCEPT ![sock[c]] = kind] /\ (kind = "connecting" => sock[c] \in nonblock)
    BY <1>2 DEF SetState
  <2>3. /\ held' = [held EXCEPT ![c] = sock[c]] /\ sock' = [sock EXCEPT ![c] = -1]
        /\ at' = [at EXCEPT ![c] = "idle"]
        /\ UNCHANGED <<pool, nonblock, handlers_, crash>>
    BY <1>0, <1>2 DEF Return, Connect, Calls
  <2>4. SocketsTyped' /\ WhoIsWhere' /\ CallsHold'
    BY <1>0, <2>1, <2>2, <2>3 DEF SocketInv, SocketsTyped, WhoIsWhere, CallsHold, InCall, At, Kinds
  <2>5. CallsFind'
    BY <1>0, <2>1, <2>2, <2>3 DEF SocketInv, SocketsTyped, WhoIsWhere, CallsHold, CallsFind, InCall
  <2>6. ConnectorsReady'
    BY <1>0, <2>1, <2>2, <2>3 DEF SocketInv, SocketsTyped, ConnectorsReady
  <2>7. \A t \in Threads, s \in Fds : Owns(t, s)' <=> Owns(t, s)
    BY <1>0, <2>1, <2>3 DEF SocketInv, SocketsTyped, Owns, InCall
  <2>8. OneOwnerEach'
    BY <2>1, <2>2, <2>7 DEF SocketInv, SocketsTyped, OneOwnerEach
  <2>9. LoopKnowsListener'
    BY <1>0, <2>3 DEF SocketInv, SocketsTyped, LoopKnowsListener
  <2> QED
    BY <2>4, <2>5, <2>6, <2>8, <2>9 DEF SocketInv
<1> QED
  BY <1>1, <1>2 DEF Connect, Calls

\* A call that has nothing to close yet.
LEMMA FailInv ==
  ASSUME SocketInv, NEW t \in Connectors \cup {Acceptor}, at[t] = "socket", Return(t, -1),
         UNCHANGED <<pool, state, nonblock, handlers_, crash, handlerOf>>
  PROVE  SocketInv'
<1>1. /\ t \in Threads /\ held[t] = -1 /\ sock[t] = -1
  BY DEF SocketInv, SocketsTyped, CallsHold, InCall
<1>2. held' = held /\ sock' = sock /\ at' = [at EXCEPT ![t] = "idle"]
  BY <1>1 DEF Return, SocketInv, SocketsTyped
<1> QED
  BY <1>1, <1>2 DEF SocketInv, SocketsTyped, WhoIsWhere, CallsHold, CallsFind, ConnectorsReady,
                    OneOwnerEach, LoopKnowsListener, Owns, InCall, At

LEMMA SocketOpensInv ==
  ASSUME SocketInv, NEW t \in Connectors \cup {Acceptor}, Socket(t), handlerOf' = handlerOf
  PROVE  SocketInv'
<1>0. t \in Threads /\ at[t] = "socket"
  BY DEF Socket, Go
<1>1. CASE Return(t, -1) /\ UNCHANGED state
  BY <1>0, <1>1, FailInv DEF Socket
<1>2. CASE \E s \in Fds :
             /\ Lowest(s) /\ SetState(s, "socket") /\ sock' = [sock EXCEPT ![t] = s]
             /\ IF t = Acceptor THEN Go(t, "socket", "bind")
                ELSE \E nb \in {"fcntl", "connect"} : Go(t, "socket", nb)
             /\ UNCHANGED held
  <2>1. PICK s \in Fds :
             /\ Lowest(s) /\ SetState(s, "socket") /\ sock' = [sock EXCEPT ![t] = s]
             /\ IF t = Acceptor THEN Go(t, "socket", "bind")
                ELSE \E nb \in {"fcntl", "connect"} : Go(t, "socket", nb)
    BY <1>2
  <2>2. PICK next \in {"bind", "fcntl", "connect"} :
             at' = [at EXCEPT ![t] = next] /\ (t = Acceptor <=> next = "bind")
    BY <2>1 DEF Go
  <2>3. /\ state[s] = "closed" /\ state' = [state EXCEPT ![s] = "socket"]
        /\ UNCHANGED <<pool, nonblock, held, handlers_, crash>>
    BY <1>2, <2>1 DEF Lowest, SetState, Socket
  <2>4. /\ held[t] = -1 /\ handlerOf[s] = 0 /\ \A u \in Threads : ~Owns(u, s)
    BY <1>0, <2>3 DEF SocketInv, CallsHold, OneOwnerEach
  <2>5. SocketsTyped' /\ WhoIsWhere' /\ CallsHold'
    BY <1>0, <2>1, <2>2, <2>3, <2>4 DEF SocketInv, SocketsTyped, WhoIsWhere, CallsHold, InCall, At, Kinds
  <2>6. CallsFind'
    BY <1>0, <2>1, <2>2, <2>3, <2>4 DEF SocketInv, SocketsTyped, CallsFind
  <2>7. ConnectorsReady'
    BY <1>0, <2>1, <2>2, <2>3, <2>4 DEF SocketInv, SocketsTyped, ConnectorsReady
  <2>8. \A u \in Threads, r \in Fds : Owns(u, r)' <=> Owns(u, r) \/ (u = t /\ r = s)
    BY <1>0, <2>1, <2>2, <2>3, <2>4 DEF SocketInv, SocketsTyped, Owns, InCall
  <2>9. OneOwnerEach'
    BY <2>3, <2>4, <2>8 DEF SocketInv, SocketsTyped, OneOwnerEach
  <2>10. LoopKnowsListener'
    BY <1>0, <2>2, <2>3, <2>4 DEF SocketInv, SocketsTyped, LoopKnowsListener
  <2> QED
    BY <2>5, <2>6, <2>7, <2>9, <2>10 DEF SocketInv
<1> QED
  BY <1>1, <1>2 DEF Socket

-----------------------------------------------------------------------------
(* The acceptor's own steps.                                                *)

LEMMA RegisterInv ==
  ASSUME SocketInv, Register, handlerOf' = handlerOf
  PROVE  SocketInv'
<1>0. /\ Acceptor \in Threads /\ at[Acceptor] = "register" /\ at' = [at EXCEPT ![Acceptor] = "idle"]
      /\ UNCHANGED <<pool, state, nonblock, sock, held>>
  BY DEF Register, Go
<1>1. held[Acceptor] \in Fds /\ handlers_ = {}
  BY <1>0 DEF SocketInv, SocketsTyped, CallsHold, LoopKnowsListener
<1>2. handlers_' = {held[Acceptor]} /\ ~crash'
  <2>1. handlers_' = handlers_ \cup {held[Acceptor]} /\ crash' = (held[Acceptor] \in handlers_)
    BY DEF Register
  <2>2. ~crash'
    BY <1>1, <2>1
  <2> QED
    BY <1>1, <2>1, <2>2
<1>3. SocketsTyped' /\ WhoIsWhere' /\ CallsHold'
  BY <1>0, <1>1, <1>2 DEF Register, SocketInv, SocketsTyped, WhoIsWhere, CallsHold, InCall, At
<1>4. CallsFind' /\ ConnectorsReady'
  BY <1>0 DEF SocketInv, SocketsTyped, CallsFind, ConnectorsReady
<1>5. OneOwnerEach'
  BY <1>0 DEF SocketInv, SocketsTyped, OneOwnerEach, Owns, InCall
<1>6. LoopKnowsListener'
  BY <1>0, <1>1, <1>2 DEF SocketInv, SocketsTyped, LoopKnowsListener
<1> QED
  BY <1>3, <1>4, <1>5, <1>6 DEF SocketInv

LEMMA UnregisterInv ==
  ASSUME SocketInv, Unregister, handlerOf' = handlerOf
  PROVE  SocketInv'
<1>0. /\ Acceptor \in Threads /\ at[Acceptor] = "idle" /\ at' = [at EXCEPT ![Acceptor] = "close"]
      /\ UNCHANGED <<pool, state, nonblock, sock, held>>
  BY DEF Unregister, Go
<1>1. held[Acceptor] \in Fds /\ held[Acceptor] # -1
  BY DEF Unregister, SocketInv, SocketsTyped
<1>2. handlers_ = {held[Acceptor]} /\ state[held[Acceptor]] = "listening"
  BY <1>0, <1>1 DEF SocketInv, CallsFind, LoopKnowsListener
<1>3. handlers_' = {} /\ crash' = FALSE
  BY <1>2 DEF Unregister
<1>4. SocketsTyped' /\ WhoIsWhere' /\ CallsHold'
  BY <1>0, <1>1, <1>3 DEF SocketInv, SocketsTyped, WhoIsWhere, CallsHold, InCall, At
<1>5. CallsFind' /\ ConnectorsReady'
  BY <1>0 DEF SocketInv, SocketsTyped, CallsFind, ConnectorsReady
<1>6. OneOwnerEach'
  BY <1>0 DEF SocketInv, SocketsTyped, OneOwnerEach, Owns, InCall
<1>7. LoopKnowsListener'
  BY <1>0, <1>1, <1>3 DEF SocketInv, SocketsTyped, LoopKnowsListener
<1> QED
  BY <1>4, <1>5, <1>6, <1>7 DEF SocketInv

\* What a field holds is its owner's alone.
LEMMA FieldHolds ==
  ASSUME SocketInv, NEW t \in Threads, held[t] \in Fds, at[t] # "done"
  PROVE  /\ Owns(t, held[t]) /\ handlerOf[held[t]] = 0 /\ state[held[t]] # "closed"
         /\ \A u \in Threads : Owns(u, held[t]) => u = t
         /\ \A u \in Threads : sock[u] # held[t]
         /\ \A u \in Threads : u # t /\ at[u] # "done" => held[u] # held[t]
<1>1. Owns(t, held[t])
  BY DEF Owns
<1>2. /\ handlerOf[held[t]] = 0 /\ state[held[t]] # "closed"
      /\ \A u \in Threads : Owns(u, held[t]) => u = t
  BY <1>1 DEF SocketInv, OneOwnerEach
<1>3. \A u \in Threads : u # t /\ at[u] # "done" => held[u] # held[t]
  BY <1>2 DEF Owns
<1>4. ASSUME NEW u \in Threads, sock[u] = held[t] PROVE FALSE
  <2>1. at[u] \in InCall
    <3>1. sock[u] # -1
      BY <1>4
    <3> QED
      BY <3>1 DEF SocketInv, CallsHold
  <2> QED
    BY <1>4, <2>1, CallHolds
<1> QED
  BY <1>1, <1>2, <1>3, <1>4

LEMMA CloseListenerInv ==
  ASSUME SocketInv, CloseListener, handlerOf' = handlerOf
  PROVE  SocketInv'
<1>0. /\ Acceptor \in Threads /\ at[Acceptor] = "close" /\ at' = [at EXCEPT ![Acceptor] = "idle"]
      /\ state' = [state EXCEPT ![held[Acceptor]] = "closed"] /\ nonblock' = nonblock \ {held[Acceptor]}
      /\ held' = [held EXCEPT ![Acceptor] = -1]
      /\ UNCHANGED <<pool, sock, handlers_, crash>>
  BY DEF CloseListener, Go, CloseFd, SetState
<1>1. held[Acceptor] \in Fds
  BY <1>0 DEF SocketInv, SocketsTyped, CallsHold
<1>2. /\ \A u \in Threads : Owns(u, held[Acceptor]) => u = Acceptor
      /\ handlerOf[held[Acceptor]] = 0
      /\ \A u \in Threads : sock[u] # held[Acceptor]
      /\ \A u \in Threads : u # Acceptor /\ at[u] # "done" => held[u] # held[Acceptor]
  BY <1>0, <1>1, FieldHolds
<1>3. SocketsTyped' /\ WhoIsWhere' /\ CallsHold'
  BY <1>0, <1>1 DEF SocketInv, SocketsTyped, WhoIsWhere, CallsHold, InCall, At, Kinds
<1>4. CallsFind'
  BY <1>0, <1>1, <1>2 DEF SocketInv, SocketsTyped, CallsFind
<1>5. ConnectorsReady'
  BY <1>0, <1>1, <1>2 DEF SocketInv, SocketsTyped, ConnectorsReady
<1>6. \A u \in Threads, s \in Fds : Owns(u, s)' <=> Owns(u, s) /\ s # held[Acceptor]
  BY <1>0, <1>1, <1>2 DEF SocketInv, SocketsTyped, Owns, InCall
<1>7. OneOwnerEach'
  BY <1>0, <1>1, <1>2, <1>6 DEF SocketInv, SocketsTyped, OneOwnerEach
<1>8. LoopKnowsListener'
  BY <1>0 DEF SocketInv, SocketsTyped, LoopKnowsListener
<1> QED
  BY <1>3, <1>4, <1>5, <1>7, <1>8 DEF SocketInv

LEMMA DisconnectInv ==
  ASSUME SocketInv, NEW c \in Connectors, Disconnect(c), handlerOf' = handlerOf
  PROVE  SocketInv'
<1>0. /\ c \in Threads /\ c # Acceptor /\ c \notin pool
      /\ at[c] = "idle" /\ at' = [at EXCEPT ![c] = "done"]
      /\ state' = [state EXCEPT ![held[c]] = "closed"] /\ nonblock' = nonblock \ {held[c]}
      /\ UNCHANGED <<pool, sock, held, handlers_, crash>>
  BY DEF Disconnect, Go, CloseFd, SetState
<1>1. held[c] \in Fds
  BY DEF Disconnect, SocketInv, SocketsTyped
<1>2. /\ \A u \in Threads : Owns(u, held[c]) => u = c
      /\ handlerOf[held[c]] = 0
      /\ \A u \in Threads : sock[u] # held[c]
      /\ \A u \in Threads : u # c /\ at[u] # "done" => held[u] # held[c]
  BY <1>0, <1>1, FieldHolds
<1>3. SocketsTyped' /\ WhoIsWhere' /\ CallsHold'
  BY <1>0, <1>1 DEF SocketInv, SocketsTyped, WhoIsWhere, CallsHold, InCall, At, Kinds
<1>4. CallsFind'
  BY <1>0, <1>1, <1>2 DEF SocketInv, SocketsTyped, CallsFind, WhoIsWhere
<1>5. ConnectorsReady'
  BY <1>0, <1>1, <1>2 DEF SocketInv, SocketsTyped, ConnectorsReady
<1>6. \A u \in Threads, s \in Fds : Owns(u, s)' <=> Owns(u, s) /\ s # held[c]
  BY <1>0, <1>1, <1>2 DEF SocketInv, SocketsTyped, Owns, InCall
<1>7. OneOwnerEach'
  BY <1>0, <1>1, <1>2, <1>6 DEF SocketInv, SocketsTyped, OneOwnerEach
<1>8. LoopKnowsListener'
  BY <1>0 DEF SocketInv, SocketsTyped, LoopKnowsListener
<1> QED
  BY <1>3, <1>4, <1>5, <1>7, <1>8 DEF SocketInv

LEMMA AcceptInv ==
  ASSUME SocketInv, Accept
  PROVE  SocketInv'
<1>0. PICK s \in Fds : Lowest(s) /\ SetState(s, "accepted") /\ sock' = [sock EXCEPT ![Acceptor] = s]
  BY DEF Accept
<1>1. /\ Acceptor \in Threads /\ at[Acceptor] = "idle" /\ at' = [at EXCEPT ![Acceptor] = "accepted"]
      /\ state[s] = "closed" /\ state' = [state EXCEPT ![s] = "accepted"]
      /\ UNCHANGED <<pool, nonblock, held, handlers_, crash, handlerOf>>
  BY <1>0 DEF Accept, Go, Lowest, SetState, clientVars
<1>2. /\ handlerOf[s] = 0 /\ \A u \in Threads : ~Owns(u, s)
  BY <1>1 DEF SocketInv, OneOwnerEach
<1>3. SocketsTyped' /\ WhoIsWhere' /\ CallsHold'
  BY <1>0, <1>1 DEF SocketInv, SocketsTyped, WhoIsWhere, CallsHold, InCall, At, Kinds
<1>4. CallsFind'
  BY <1>0, <1>1 DEF SocketInv, SocketsTyped, CallsFind
<1>5. ConnectorsReady'
  BY <1>0, <1>1 DEF SocketInv, SocketsTyped, ConnectorsReady
<1>6. \A u \in Threads, r \in Fds : Owns(u, r)' <=> Owns(u, r) \/ (u = Acceptor /\ r = s)
  BY <1>0, <1>1, <1>2 DEF SocketInv, SocketsTyped, Owns, InCall
<1>7. OneOwnerEach'
  BY <1>1, <1>2, <1>6 DEF SocketInv, SocketsTyped, OneOwnerEach
<1>8. LoopKnowsListener'
  BY <1>1 DEF SocketInv, SocketsTyped, LoopKnowsListener
<1> QED
  BY <1>3, <1>4, <1>5, <1>7, <1>8 DEF SocketInv

LEMMA RefuseInv ==
  ASSUME SocketInv, Refuse
  PROVE  SocketInv'
<1>0. /\ Acceptor \in Threads /\ at[Acceptor] = "accepted" /\ at[Acceptor] \in InCall
      /\ at' = [at EXCEPT ![Acceptor] = "idle"]
      /\ state' = [state EXCEPT ![sock[Acceptor]] = "closed"] /\ nonblock' = nonblock \ {sock[Acceptor]}
      /\ sock' = [sock EXCEPT ![Acceptor] = -1]
      /\ UNCHANGED <<pool, held, handlers_, crash, handlerOf>>
  BY DEF Refuse, Go, CloseFd, SetState, clientVars, InCall
<1>1. /\ sock[Acceptor] \in Fds /\ handlerOf[sock[Acceptor]] = 0
      /\ \A u \in Threads : Owns(u, sock[Acceptor]) => u = Acceptor
      /\ \A u \in Threads : u # Acceptor => sock[u] # sock[Acceptor]
      /\ \A u \in Threads : at[u] # "done" => held[u] # sock[Acceptor]
  BY <1>0, CallHolds
<1>2. SocketsTyped' /\ WhoIsWhere' /\ CallsHold'
  <2>1. SocketsTyped'
    BY <1>0, <1>1 DEF SocketInv, SocketsTyped, At, Kinds
  <2>2. WhoIsWhere'
    BY <1>0 DEF SocketInv, SocketsTyped, WhoIsWhere, At
  <2>3. CallsHold'
    BY <1>0, <1>1 DEF SocketInv, SocketsTyped, CallsHold, InCall
  <2> QED
    BY <2>1, <2>2, <2>3
<1>3. CallsFind'
  BY <1>0, <1>1 DEF SocketInv, SocketsTyped, CallsFind
<1>4. ConnectorsReady'
  BY <1>0, <1>1 DEF SocketInv, SocketsTyped, ConnectorsReady
<1>5. \A u \in Threads, r \in Fds : Owns(u, r)' <=> Owns(u, r) /\ r # sock[Acceptor]
  BY <1>0, <1>1 DEF SocketInv, SocketsTyped, Owns, InCall
<1>6. OneOwnerEach'
  BY <1>0, <1>1, <1>5 DEF SocketInv, SocketsTyped, OneOwnerEach
<1>7. LoopKnowsListener'
  BY <1>0 DEF SocketInv, SocketsTyped, LoopKnowsListener
<1> QED
  BY <1>2, <1>3, <1>4, <1>6, <1>7 DEF SocketInv

\* The descriptor goes over to a handler.
LEMMA MakeHandlerInv ==
  ASSUME SocketInv, MakeHandler
  PROVE  SocketInv'
<1>0. PICK h \in Handlers : handlerOf' = [handlerOf EXCEPT ![sock[Acceptor]] = h]
  BY DEF MakeHandler
<1>1. /\ Acceptor \in Threads /\ at[Acceptor] = "accepted" /\ at[Acceptor] \in InCall
      /\ at' = [at EXCEPT ![Acceptor] = "push"] /\ sock' = [sock EXCEPT ![Acceptor] = -1]
      /\ UNCHANGED <<pool, state, nonblock, held, handlers_, crash>>
  BY DEF MakeHandler, Go, InCall
<1>2. /\ sock[Acceptor] \in Fds /\ state[sock[Acceptor]] # "closed"
      /\ \A u \in Threads : Owns(u, sock[Acceptor]) => u = Acceptor
      /\ \A u \in Threads : at[u] # "done" => held[u] # sock[Acceptor]
  BY <1>1, CallHolds
<1>3. SocketsTyped' /\ WhoIsWhere' /\ CallsHold'
  BY <1>0, <1>1, <1>2 DEF SocketInv, SocketsTyped, WhoIsWhere, CallsHold, InCall, At
<1>4. CallsFind' /\ ConnectorsReady'
  BY <1>1 DEF SocketInv, SocketsTyped, CallsFind, ConnectorsReady
<1>5. \A u \in Threads, r \in Fds : Owns(u, r)' <=> Owns(u, r) /\ r # sock[Acceptor]
  BY <1>1, <1>2 DEF SocketInv, SocketsTyped, Owns, InCall
<1>6. h # 0
  OBVIOUS
<1>7. OneOwnerEach'
  BY <1>0, <1>1, <1>2, <1>5, <1>6 DEF SocketInv, SocketsTyped, OneOwnerEach
<1>8. LoopKnowsListener'
  BY <1>1 DEF SocketInv, SocketsTyped, LoopKnowsListener
<1> QED
  BY <1>3, <1>4, <1>7, <1>8 DEF SocketInv

\* Elsewhere the acceptor and the pool only move on.
Moves(t) ==
    \E from, to_ \in {"idle", "push", "pushing", "append", "appending", "pop", "popping", "call", "removing"} :
        /\ t \in pool => to_ \in {"idle", "pop", "popping", "call", "removing"}
        /\ at[t] = from /\ at' = [at EXCEPT ![t] = to_]

LEMMA MovesInv ==
  ASSUME SocketInv, NEW t \in pool \cup {Acceptor}, Moves(t), UNCHANGED <<sockVars, handlerOf>>
  PROVE  SocketInv'
<1>1. PICK next \in {"idle", "push", "pushing", "append", "appending", "pop", "popping", "call", "removing"} :
        /\ t \in pool => next \in {"idle", "pop", "popping", "call", "removing"}
        /\ at[t] \in {"idle", "push", "pushing", "append", "appending", "pop", "popping", "call", "removing"}
        /\ at' = [at EXCEPT ![t] = next]
  BY DEF Moves
<1>2. t \in Threads /\ t \notin Connectors
  BY DEF SocketInv, SocketsTyped
<1>3. UNCHANGED <<pool, state, nonblock, sock, held, handlers_, crash, handlerOf>>
  BY DEF sockVars
<1>4. SocketsTyped' /\ WhoIsWhere' /\ CallsHold'
  BY <1>1, <1>2, <1>3 DEF SocketInv, SocketsTyped, WhoIsWhere, CallsHold, InCall, At
<1>5. CallsFind' /\ ConnectorsReady'
  BY <1>1, <1>2, <1>3 DEF SocketInv, SocketsTyped, CallsFind, ConnectorsReady
<1>6. \A u \in Threads, r \in Fds : Owns(u, r)' <=> Owns(u, r)
  BY <1>1, <1>2, <1>3 DEF SocketInv, SocketsTyped, Owns, InCall
<1>7. OneOwnerEach'
  BY <1>3, <1>6 DEF SocketInv, OneOwnerEach
<1>8. LoopKnowsListener'
  BY <1>1, <1>2, <1>3 DEF SocketInv, SocketsTyped, LoopKnowsListener
<1> QED
  BY <1>4, <1>5, <1>7, <1>8 DEF SocketInv

LEMMA SocketStepInv ==
  ASSUME SocketInv, [Next]_vars
  PROVE  SocketInv'
<1>1. CASE UNCHANGED vars
  BY <1>1 DEF vars, sockVars, clientVars, SocketInv, SocketsTyped, WhoIsWhere, CallsHold, CallsFind,
              ConnectorsReady, OneOwnerEach, LoopKnowsListener, Owns
<1>2. ASSUME SocketNext, UNCHANGED clientVars PROVE SocketInv'
  <2>0. handlerOf' = handlerOf
    BY <1>2 DEF clientVars
  <2> QED
    BY <1>2, <2>0, BeginInv, BindInv, ListenInv, RegisterInv, CloseListenerInv, UnregisterInv,
       SocketOpensInv, SetNonblockInv, ConnectInv, DisconnectInv, FailInv
       DEF SocketNext, AcceptorCall, Unresolved
<1>3. ASSUME AcceptorStep PROVE SocketInv'
  <2>1. CASE Refuse \/ MakeHandler
    BY <2>1, RefuseInv, MakeHandlerInv
  <2>2. CASE PushBegin \/ PushEnd \/ AppendBegin \/ AppendEnd
    <3>1. Acceptor \notin pool
      BY DEF SocketInv, SocketsTyped
    <3>2. Moves(Acceptor) /\ UNCHANGED <<sockVars, handlerOf>>
      BY <2>2, <3>1 DEF Moves, PushBegin, PushEnd, AppendBegin, AppendEnd, Go, clientVars
    <3> QED
      BY <3>2, MovesInv
  <2> QED
    BY <1>3, <2>1, <2>2 DEF AcceptorStep
<1>4. ASSUME NEW l \in Loops, LoopStep(l) \/ RemoveBegin(l) PROVE SocketInv'
  <2>1. l \in pool \cup {Acceptor}
    BY DEF Loops
  <2>2. Moves(l) /\ UNCHANGED <<sockVars, handlerOf>>
    BY <1>4 DEF Moves, LoopStep, DrainBegin, PopBegin, PopTakes, PopEmpty, Call, RemoveBegin, RemoveEnd, Go, clientVars
  <2> QED
    BY <2>1, <2>2, MovesInv
<1> QED
  BY <1>1, <1>2, <1>3, <1>4, AcceptInv DEF Next, LoopStep

\* No failing system call leaks a descriptor, each open one has one owner, and
\* the assertions of AsyncAcceptor hold.
THEOREM NoDescriptorLeaks == Spec => []DescriptorsOwned
<1>1. SocketInv => DescriptorsOwned
  <2> SUFFICES ASSUME SocketInv PROVE DescriptorsOwned
    OBVIOUS
  <2>1. ASSUME NEW s \in Fds, state[s] # "closed"
        PROVE  \/ handlerOf[s] # 0 /\ \A t \in Threads : ~Owns(t, s)
               \/ handlerOf[s] = 0 /\ \E t \in Threads : \A u \in Threads : Owns(u, s) <=> u = t
    BY <2>1 DEF SocketInv, OneOwnerEach
  <2> QED
    BY <2>1 DEF DescriptorsOwned, SocketInv, CallsFind, ConnectorsReady, LoopKnowsListener
<1> QED
  BY <1>1, SocketInitInv, SocketStepInv, PTL DEF Spec

-----------------------------------------------------------------------------
(* Functors.                                                                *)

\* Who is inside push or pop of l's queue.
Inside(t, l) == \/ t = Acceptor /\ at[t] = "pushing" /\ l = to
                \/ t = l /\ at[t] = "popping"

FunctorsWhere ==
    /\ f # 0 <=> at[Acceptor] \in {"push", "pushing", "append", "appending"}
    /\ \A l \in Threads : fun[l] # 0 <=> at[l] \in {"pop", "popping", "call"}

\* The lock is what keeps two threads out of one queue.
Locked == \A t, l \in Threads : Inside(t, l) => mutex[l] = t /\ seen[t] = functors_[l]

\* What may be called is bound to a descriptor; what is held is not deleted.
Bound ==
    /\ f # 0 => heap[f] \in Fds
    /\ \A l \in Threads : \A i \in DOMAIN functors_[l] : heap[functors_[l][i]] \in Fds
    /\ \A l \in Threads : /\ at[l] = "call" => heap[fun[l]] \in Fds
                          /\ fun[l] # 0 => heap[fun[l]] # Free

\* OneOwner, position by position.
Apart ==
    /\ \A l, k \in Threads : fun[l] # 0 => fun[l] # f /\ (fun[l] = fun[k] => l = k)
    /\ \A l, k \in Threads : \A i \in DOMAIN functors_[l] :
            /\ functors_[l][i] # f /\ functors_[l][i] # fun[k]
            /\ \A j \in DOMAIN functors_[k] : functors_[l][i] = functors_[k][j] => l = k /\ i = j

FunctorInv == FunctorsTyped /\ FunctorsWhere /\ Locked /\ Bound /\ Apart

LEMMA FreeIsNone == Free \notin Fds \cup {0}
BY DEF Free

LEMMA FunctorInitInv == ASSUME Init PROVE FunctorInv
<1>1. /\ heap = [c \in Clones |-> Free] /\ f = 0 /\ fun = [l \in Threads |-> 0]
      /\ functors_ = [l \in Threads |-> <<>>] /\ mutex = [l \in Threads |-> Null]
      /\ seen = [l \in Threads |-> <<>>] /\ to = Acceptor /\ at = [t \in Threads |-> "idle"]
      /\ pushed = [l \in Threads |-> <<>>] /\ called = [l \in Threads |-> <<>>]
  BY DEF Init, SocketInit
<1>2. FunctorsTyped
  BY <1>1 DEF FunctorsTyped
<1>3. FunctorsWhere /\ Locked
  BY <1>1 DEF FunctorsWhere, Locked, Inside
<1>4. Bound
  BY <1>1 DEF Bound
<1>5. Apart
  BY <1>1 DEF Apart
<1> QED
  BY <1>2, <1>3, <1>4, <1>5 DEF FunctorInv

FunctorSteps == {"push", "pushing", "append", "appending", "pop", "popping", "call"}

LEMMA ElsewhereFunctors ==
  ASSUME FunctorInv, UNCHANGED functorVars, NEW t \in Threads, NEW next,
         at \in [Threads -> At], at' = [at EXCEPT ![t] = next],
         at[t] \notin FunctorSteps, next \notin FunctorSteps
  PROVE  FunctorInv'
<1>1. UNCHANGED <<heap, f, fun, functors_, mutex, seen, to, pushed, called>>
  BY DEF functorVars
<1>2. \A u \in Threads : at'[u] = at[u] \/ (at[u] \notin FunctorSteps /\ at'[u] \notin FunctorSteps)
  OBVIOUS
<1>3. FunctorsTyped'
  BY <1>1 DEF FunctorInv, FunctorsTyped
<1>4. FunctorsWhere'
  BY <1>1, <1>2 DEF FunctorInv, FunctorsWhere, FunctorSteps
<1>5. Locked'
  BY <1>1, <1>2 DEF FunctorInv, Locked, Inside, FunctorSteps
<1>6. Bound' /\ Apart'
  BY <1>1, <1>2 DEF FunctorInv, Bound, Apart, FunctorSteps
<1> QED
  BY <1>3, <1>4, <1>5, <1>6 DEF FunctorInv

LEMMA MakeHandlerFunctors ==
  ASSUME SocketInv, FunctorInv, MakeHandler
  PROVE  FunctorInv'
<1>0. PICK c \in Clones : Fresh(c) /\ f' = c /\ heap' = [heap EXCEPT ![c] = sock[Acceptor]]
  BY DEF MakeHandler
<1>1. /\ Acceptor \in Threads /\ at[Acceptor] = "accepted" /\ at' = [at EXCEPT ![Acceptor] = "push"]
      /\ to' \in Threads /\ heap[c] = Free
      /\ UNCHANGED <<fun, functors_, mutex, seen, pushed, called>>
  BY <1>0 DEF MakeHandler, Go, Fresh, Loops, SocketInv, SocketsTyped
<1>2. sock[Acceptor] \in Fds
  BY <1>1, CallHolds DEF InCall
<1>3. f = 0 /\ at \in [Threads -> At]
  BY <1>1 DEF FunctorInv, FunctorsWhere, SocketInv, SocketsTyped
<1>4. /\ \A l \in Threads : fun[l] # c
      /\ \A l \in Threads : \A i \in DOMAIN functors_[l] : functors_[l][i] # c
  <2>1. ASSUME NEW l \in Threads PROVE fun[l] # c
    BY <1>1 DEF FunctorInv, Bound
  <2>2. ASSUME NEW l \in Threads, NEW i \in DOMAIN functors_[l] PROVE functors_[l][i] # c
    BY <1>1, FreeIsNone DEF FunctorInv, Bound
  <2> QED
    BY <2>1, <2>2
<1>5. FunctorsTyped'
  BY <1>0, <1>1, <1>2 DEF FunctorInv, FunctorsTyped
<1>6. FunctorsWhere'
  BY <1>0, <1>1, <1>3 DEF FunctorInv, FunctorsWhere
<1>7. Locked'
  BY <1>1, <1>3 DEF FunctorInv, Locked, Inside
<1>8. Bound'
  BY <1>0, <1>1, <1>2, <1>3, <1>4, SMTT(30) DEF FunctorInv, Bound, FunctorsTyped
<1>9. Apart'
  BY <1>0, <1>1, <1>4 DEF FunctorInv, Apart
<1> QED
  BY <1>5, <1>6, <1>7, <1>8, <1>9 DEF FunctorInv

\* A clone the allocator returns is held by nobody.
LEMMA FreshIsUnheld ==
  ASSUME FunctorInv, NEW c \in Clones, Fresh(c)
  PROVE  /\ c # 0 /\ heap[c] = Free /\ f # c
         /\ \A l \in Threads : fun[l] # c
         /\ \A l \in Threads : \A i \in DOMAIN functors_[l] : functors_[l][i] # c
<1>1. heap[c] = Free /\ c # 0
  BY DEF Fresh
<1>2. f # c
  BY <1>1, FreeIsNone DEF FunctorInv, Bound
<1>3. ASSUME NEW l \in Threads PROVE fun[l] # c
  BY <1>1 DEF FunctorInv, Bound
<1>4. ASSUME NEW l \in Threads, NEW i \in DOMAIN functors_[l] PROVE functors_[l][i] # c
  BY <1>1, FreeIsNone DEF FunctorInv, Bound
<1> QED
  BY <1>1, <1>2, <1>3, <1>4

\* Entering push or pop: the lock is free, so nobody is inside.
LEMMA EnterFunctors ==
  ASSUME FunctorInv, NEW t \in Threads, NEW l \in Threads, at \in [Threads -> At], Enter(t, l),
         \/ t = Acceptor /\ l = to /\ at[t] = "push" /\ at' = [at EXCEPT ![t] = "pushing"]
         \/ t = l /\ at[t] = "pop" /\ at' = [at EXCEPT ![t] = "popping"],
         UNCHANGED <<heap, f, fun, functors_, to, pushed, called>>
  PROVE  FunctorInv'
<1>1. /\ mutex[l] = Null /\ mutex' = [mutex EXCEPT ![l] = t]
      /\ seen' = [seen EXCEPT ![t] = functors_[l]]
  BY DEF Enter, Lock
<1>2. FunctorsTyped'
  BY <1>1 DEF FunctorInv, FunctorsTyped
<1>3. FunctorsWhere'
  BY DEF FunctorInv, FunctorsWhere
<1>4. ASSUME NEW u \in Threads, NEW k \in Threads, Inside(u, k)' PROVE mutex'[k] = u /\ seen'[u] = functors_'[k]
  <2>1. CASE u = t
    <3>1. k = l
      BY <1>4, <2>1 DEF Inside
    <3> QED
      BY <1>1, <2>1, <3>1 DEF FunctorInv, FunctorsTyped
  <2>2. CASE u # t
    <3>1. Inside(u, k)
      BY <1>4, <2>2 DEF Inside
    <3>2. mutex[k] = u /\ seen[u] = functors_[k]
      BY <3>1 DEF FunctorInv, Locked
    <3>3. k # l
      BY <1>1, <3>2
    <3> QED
      BY <1>1, <2>2, <3>2, <3>3 DEF FunctorInv, FunctorsTyped
  <2> QED
    BY <2>1, <2>2
<1>5. Locked'
  BY <1>4 DEF Locked
<1>6. Bound'
  BY DEF FunctorInv, Bound
<1>7. Apart'
  BY DEF FunctorInv, Apart
<1> QED
  BY <1>2, <1>3, <1>5, <1>6, <1>7 DEF FunctorInv

\* Leaving: whatever is done to the queue inside, no other thread has seen it.
LEMMA LeaveLocked ==
  ASSUME FunctorInv, NEW t \in Threads, NEW l \in Threads, Inside(t, l), Leave(t, l),
         at'[t] \notin {"pushing", "popping"}, \A u \in Threads : u # t => at'[u] = at[u],
         to' = to, \A k \in Threads : k # l => functors_'[k] = functors_[k]
  PROVE  Locked'
<1>1. mutex[l] = t /\ mutex' = [mutex EXCEPT ![l] = Null] /\ seen' = [seen EXCEPT ![t] = <<>>]
  BY DEF FunctorInv, Locked, Leave, Unlock
<1>2. ASSUME NEW u \in Threads, NEW k \in Threads, Inside(u, k)' PROVE mutex'[k] = u /\ seen'[u] = functors_'[k]
  <2>1. u # t
    BY <1>2 DEF Inside
  <2>2. Inside(u, k)
    BY <1>2, <2>1 DEF Inside
  <2>3. mutex[k] = u /\ seen[u] = functors_[k]
    BY <2>2 DEF FunctorInv, Locked
  <2>4. k # l
    BY <1>1, <2>1, <2>3
  <2> QED
    BY <1>1, <2>1, <2>3, <2>4 DEF FunctorInv, FunctorsTyped
<1> QED
  BY <1>2 DEF Locked

LEMMA PushFunctors ==
  ASSUME SocketInv, FunctorInv, PushEnd
  PROVE  FunctorInv'
<1>0. PICK c \in Clones : /\ Fresh(c) /\ heap' = Copied(c, f, {})
                          /\ functors_' = [functors_ EXCEPT ![to] = Append(seen[Acceptor], c)]
  BY DEF PushEnd
<1>1. /\ Acceptor \in Threads /\ to \in Threads /\ at \in [Threads -> At]
      /\ at[Acceptor] = "pushing" /\ at' = [at EXCEPT ![Acceptor] = "append"]
      /\ UNCHANGED <<f, fun, to, called>> /\ Leave(Acceptor, to)
      /\ pushed' = [pushed EXCEPT ![to] = Append(@, heap[f])]
  BY DEF PushEnd, Go, SocketInv, SocketsTyped, FunctorInv, FunctorsTyped
<1>2. /\ Inside(Acceptor, to) /\ seen[Acceptor] = functors_[to] /\ f \in Clones /\ heap[f] \in Fds
  <2>1. Inside(Acceptor, to)
    BY <1>1 DEF Inside
  <2>2. seen[Acceptor] = functors_[to]
    BY <1>1, <2>1 DEF FunctorInv, Locked
  <2>3. f # 0
    BY <1>1 DEF FunctorInv, FunctorsWhere
  <2> QED
    BY <2>1, <2>2, <2>3 DEF FunctorInv, FunctorsTyped, Bound
<1>3. /\ c # 0 /\ heap[c] = Free /\ f # c
      /\ \A l \in Threads : fun[l] # c
      /\ \A l \in Threads : \A i \in DOMAIN functors_[l] : functors_[l][i] # c
  BY <1>0, FreshIsUnheld
<1>4. heap' = [heap EXCEPT ![c] = heap[f]]
  BY <1>0 DEF Copied, FunctorInv, FunctorsTyped
<1>5. /\ functors_'[to] = Append(functors_[to], c) /\ functors_[to] \in Seq(Clones)
      /\ DOMAIN functors_'[to] = 1..(Len(functors_[to]) + 1)
      /\ DOMAIN functors_[to] = 1..Len(functors_[to])
      /\ functors_'[to][Len(functors_[to]) + 1] = c
      /\ \A i \in DOMAIN functors_[to] : functors_'[to][i] = functors_[to][i]
  BY <1>0, <1>1, <1>2 DEF FunctorInv, FunctorsTyped
<1>6. \A k \in Threads : k # to => functors_'[k] = functors_[k]
  BY <1>0, <1>1 DEF FunctorInv, FunctorsTyped
<1>7. FunctorsTyped'
  <2>1. heap' \in [Clones -> Fds \cup {0, Free}]
    BY <1>2, <1>4 DEF FunctorInv, FunctorsTyped
  <2>2. functors_' \in [Threads -> Seq(Clones)]
    BY <1>0, <1>1, <1>2 DEF FunctorInv, FunctorsTyped
  <2>3. mutex' \in [Threads -> Threads \cup {Null}] /\ seen' \in [Threads -> Seq(Clones)]
    BY <1>1 DEF FunctorInv, FunctorsTyped, Leave, Unlock
  <2>4. pushed' \in [Threads -> Seq(Fds)]
    BY <1>1, <1>2 DEF FunctorInv, FunctorsTyped
  <2> QED
    BY <1>1, <2>1, <2>2, <2>3, <2>4 DEF FunctorInv, FunctorsTyped
<1>8. FunctorsWhere'
  BY <1>1 DEF FunctorInv, FunctorsWhere
<1>9. Locked'
  <2>1. at'[Acceptor] = "append" /\ \A u \in Threads : u # Acceptor => at'[u] = at[u]
    BY <1>1
  <2> QED
    BY <1>1, <1>2, <1>6, <2>1, LeaveLocked
<1>10. Bound'
  <2>1. f' # 0 => heap'[f'] \in Fds
    BY <1>1, <1>2, <1>3, <1>4 DEF FunctorInv, FunctorsTyped
  <2>2. ASSUME NEW l \in Threads, NEW i \in DOMAIN functors_'[l] PROVE heap'[functors_'[l][i]] \in Fds
    <3>1. CASE i \in DOMAIN functors_[l] /\ functors_'[l][i] = functors_[l][i]
      BY <1>3, <1>4, <3>1 DEF FunctorInv, FunctorsTyped, Bound
    <3>2. CASE functors_'[l][i] = c
      BY <1>2, <1>4, <3>2 DEF FunctorInv, FunctorsTyped
    <3> QED
      BY <1>5, <1>6, <2>2, <3>1, <3>2
  <2>3. \A l \in Threads : /\ at'[l] = "call" => heap'[fun'[l]] \in Fds
                           /\ fun'[l] # 0 => heap'[fun'[l]] # Free
    BY <1>1, <1>3, <1>4 DEF FunctorInv, FunctorsTyped, Bound
  <2> QED
    BY <2>1, <2>2, <2>3 DEF Bound
<1>11. Apart'
  <2>1. \A l, k \in Threads : fun'[l] # 0 => fun'[l] # f' /\ (fun'[l] = fun'[k] => l = k)
    BY <1>1 DEF FunctorInv, Apart
  <2>2. ASSUME NEW l \in Threads, NEW i \in DOMAIN functors_'[l]
        PROVE  \/ i \in DOMAIN functors_[l] /\ functors_'[l][i] = functors_[l][i]
               \/ functors_'[l][i] = c /\ l = to /\ i = Len(functors_[to]) + 1
    BY <1>5, <1>6, <2>2
  <2>3. ASSUME NEW l \in Threads, NEW k \in Threads, NEW i \in DOMAIN functors_'[l]
        PROVE  functors_'[l][i] # f' /\ functors_'[l][i] # fun'[k]
    BY <1>1, <1>3, <2>2 DEF FunctorInv, Apart
  <2>4. ASSUME NEW l \in Threads, NEW k \in Threads, NEW i \in DOMAIN functors_'[l], NEW j \in DOMAIN functors_'[k],
               functors_'[l][i] = functors_'[k][j]
        PROVE  l = k /\ i = j
    BY <1>3, <2>2, <2>4 DEF FunctorInv, Apart
  <2> QED
    BY <2>1, <2>3, <2>4 DEF Apart
<1> QED
  BY <1>7, <1>8, <1>9, <1>10, <1>11 DEF FunctorInv

LEMMA AppendFunctors ==
  ASSUME SocketInv, FunctorInv, AppendBegin \/ AppendEnd
  PROVE  FunctorInv'
<1>0. Acceptor \in Threads /\ at \in [Threads -> At]
  BY DEF SocketInv, SocketsTyped
<1>1. CASE AppendBegin
  <2>1. /\ at[Acceptor] = "append" /\ at' = [at EXCEPT ![Acceptor] = "appending"]
        /\ UNCHANGED <<heap, f, fun, functors_, mutex, seen, to, pushed, called>>
    BY <1>1 DEF AppendBegin, Go, functorVars
  <2>2. FunctorsTyped' /\ FunctorsWhere'
    BY <1>0, <2>1 DEF FunctorInv, FunctorsTyped, FunctorsWhere
  <2>3. Locked' /\ Bound' /\ Apart'
    BY <1>0, <2>1 DEF FunctorInv, Locked, Inside, Bound, Apart
  <2> QED
    BY <2>2, <2>3 DEF FunctorInv
<1>2. CASE AppendEnd
  <2>1. /\ at[Acceptor] = "appending" /\ at' = [at EXCEPT ![Acceptor] = "idle"]
        /\ f' = 0 /\ heap' = [heap EXCEPT ![f] = Free] /\ to' = Acceptor
        /\ UNCHANGED <<fun, functors_, mutex, seen, pushed, called>>
    BY <1>2 DEF AppendEnd, Go
  <2>2. f # 0 /\ f \in Clones
    BY <1>0, <2>1 DEF FunctorInv, FunctorsWhere, FunctorsTyped
  <2>3. FunctorsTyped'
    BY <1>0, <2>1 DEF FunctorInv, FunctorsTyped
  <2>4. FunctorsWhere'
    BY <1>0, <2>1 DEF FunctorInv, FunctorsWhere
  <2>5. Locked'
    BY <1>0, <2>1 DEF FunctorInv, Locked, Inside
  <2>6. Bound'
    <3>1. \A l \in Threads : \A i \in DOMAIN functors_[l] : heap'[functors_[l][i]] \in Fds
      BY <1>0, <2>1, <2>2 DEF FunctorInv, FunctorsTyped, Bound, Apart
    <3>2. \A l \in Threads : fun[l] # 0 => fun[l] # f /\ fun[l] \in Clones
      BY DEF FunctorInv, FunctorsTyped, Apart
    <3>3. \A l \in Threads : fun[l] # 0 => heap'[fun[l]] = heap[fun[l]]
      BY <2>1, <3>2 DEF FunctorInv, FunctorsTyped
    <3>4. \A l \in Threads : at'[l] = "call" => at[l] = "call" /\ fun[l] # 0
      BY <1>0, <2>1 DEF FunctorInv, FunctorsWhere
    <3> QED
      BY <2>1, <3>1, <3>3, <3>4 DEF FunctorInv, Bound
  <2>7. Apart'
    <3>1. \A l \in Threads : \A i \in DOMAIN functors_[l] : functors_[l][i] # 0
      BY DEF FunctorInv, FunctorsTyped
    <3> QED
      BY <2>1, <3>1 DEF FunctorInv, Apart
  <2> QED
    BY <2>3, <2>4, <2>5, <2>6, <2>7 DEF FunctorInv
<1> QED
  BY <1>1, <1>2

LEMMA DrainFunctors ==
  ASSUME SocketInv, FunctorInv, NEW l \in Threads, DrainBegin(l)
  PROVE  FunctorInv'
<1>0. PICK c \in Clones : Fresh(c) /\ heap' = [heap EXCEPT ![c] = 0] /\ fun' = [fun EXCEPT ![l] = c]
  BY DEF DrainBegin
<1>1. /\ at[l] = "idle" /\ at' = [at EXCEPT ![l] = "pop"] /\ at \in [Threads -> At]
      /\ UNCHANGED <<f, functors_, mutex, seen, to, pushed, called>>
  BY DEF DrainBegin, Go, SocketInv, SocketsTyped
<1>2. /\ c # 0 /\ f # c
      /\ \A k \in Threads : fun[k] # c
      /\ \A k \in Threads : \A i \in DOMAIN functors_[k] : functors_[k][i] # c
  BY <1>0, FreshIsUnheld
<1>3. FunctorsTyped'
  BY <1>0, <1>1 DEF FunctorInv, FunctorsTyped
<1>4. FunctorsWhere'
  BY <1>0, <1>1, <1>2 DEF FunctorInv, FunctorsTyped, FunctorsWhere
<1>5. Locked'
  BY <1>1 DEF FunctorInv, Locked, Inside
<1>6. Bound'
  BY <1>0, <1>1, <1>2, FreeIsNone, SMTT(30) DEF FunctorInv, FunctorsTyped, Bound
<1>7. Apart'
  <2>1. \A k \in Threads : fun'[k] = IF k = l THEN c ELSE fun[k]
    BY <1>0 DEF FunctorInv, FunctorsTyped
  <2>2. \A k, m \in Threads : fun'[k] # 0 => fun'[k] # f' /\ (fun'[k] = fun'[m] => k = m)
    BY <1>1, <1>2, <2>1 DEF FunctorInv, Apart
  <2>3. \A k, m \in Threads : \A i \in DOMAIN functors_[k] : functors_[k][i] # fun'[m]
    BY <1>2, <2>1 DEF FunctorInv, Apart
  <2> QED
    BY <1>1, <2>2, <2>3 DEF FunctorInv, Apart
<1> QED
  BY <1>3, <1>4, <1>5, <1>6, <1>7 DEF FunctorInv

\* The front's clone is freed, and the copy of it is another one.
LEMMA PopTakesFunctors ==
  ASSUME SocketInv, FunctorInv, NEW l \in Threads, PopTakes(l)
  PROVE  FunctorInv'
<1>0. PICK c \in Clones : /\ Fresh(c) /\ heap' = Copied(c, Head(seen[l]), {Head(seen[l])})
                          /\ fun' = [fun EXCEPT ![l] = c]
  BY DEF PopTakes
<1>1. /\ at[l] = "popping" /\ at' = [at EXCEPT ![l] = "call"] /\ at \in [Threads -> At]
      /\ seen[l] # <<>> /\ functors_' = [functors_ EXCEPT ![l] = Tail(seen[l])]
      /\ UNCHANGED <<f, to, pushed, called>> /\ Leave(l, l)
  BY DEF PopTakes, Go, SocketInv, SocketsTyped
<1>2. Inside(l, l) /\ seen[l] = functors_[l]
  <2>1. Inside(l, l)
    BY <1>1 DEF Inside
  <2> QED
    BY <2>1 DEF FunctorInv, Locked
<1>3. /\ c # 0 /\ heap[c] = Free /\ f # c
      /\ \A k \in Threads : fun[k] # c
      /\ \A k \in Threads : \A i \in DOMAIN functors_[k] : functors_[k][i] # c
  BY <1>0, FreshIsUnheld
<1> DEFINE front == Head(functors_[l])
<1>4. /\ functors_[l] \in Seq(Clones) /\ functors_[l] # <<>>
      /\ 1 \in DOMAIN functors_[l] /\ front = functors_[l][1] /\ front \in Clones /\ front # c
      /\ heap[front] \in Fds
  <2>1. functors_[l] \in Seq(Clones) /\ functors_[l] # <<>>
    BY <1>1, <1>2 DEF FunctorInv, FunctorsTyped
  <2>2. 1 \in DOMAIN functors_[l] /\ front = functors_[l][1] /\ front \in Clones
    BY <2>1
  <2> QED
    BY <1>3, <2>1, <2>2 DEF FunctorInv, Bound
<1>5. heap' = [d \in Clones |-> IF d = front THEN Free ELSE IF d = c THEN heap[front] ELSE heap[d]]
  BY <1>0, <1>2 DEF Copied
<1>6. /\ functors_'[l] = Tail(functors_[l]) /\ DOMAIN functors_'[l] = 1..(Len(functors_[l]) - 1)
      /\ DOMAIN functors_[l] = 1..Len(functors_[l])
      /\ \A i \in DOMAIN functors_'[l] : functors_'[l][i] = functors_[l][i + 1] /\ i + 1 \in DOMAIN functors_[l]
  BY <1>1, <1>2, <1>4 DEF FunctorInv, FunctorsTyped
<1>7. \A k \in Threads : k # l => functors_'[k] = functors_[k]
  BY <1>1 DEF FunctorInv, FunctorsTyped
\* Every entry was there before, and is not the front.
<1>8. ASSUME NEW k \in Threads, NEW i \in DOMAIN functors_'[k]
      PROVE  \E j \in DOMAIN functors_[k] :
                /\ functors_'[k][i] = functors_[k][j] /\ functors_[k][j] # front
                /\ j = IF k = l THEN i + 1 ELSE i
  <2>1. CASE k = l
    <3>0. i \in DOMAIN functors_'[l] /\ i \in 1..(Len(functors_[l]) - 1)
      BY <1>6, <1>8, <2>1
    <3>1. i + 1 \in DOMAIN functors_[l] /\ functors_'[l][i] = functors_[l][i + 1] /\ i + 1 # 1
      BY <1>4, <1>6, <3>0
    <3>2. functors_[l][i + 1] # front
      BY <1>4, <3>1 DEF FunctorInv, Apart
    <3> QED
      BY <2>1, <3>1, <3>2
  <2>2. CASE k # l
    BY <1>4, <1>7, <1>8, <2>2 DEF FunctorInv, Apart
  <2> QED
    BY <2>1, <2>2
<1>9. FunctorsTyped'
  <2>1. heap' \in [Clones -> Fds \cup {0, Free}]
    BY <1>4, <1>5 DEF FunctorInv, FunctorsTyped
  <2>2. functors_' \in [Threads -> Seq(Clones)] /\ fun' \in [Threads -> Clones \cup {0}]
    <3>1. functors_ \in [Threads -> Seq(Clones)] /\ fun \in [Threads -> Clones \cup {0}]
      BY DEF FunctorInv, FunctorsTyped
    <3>2. functors_[l] \in Seq(Clones) /\ c \in Clones
      BY <1>0, <3>1
    <3>3. Tail(functors_[l]) \in Seq(Clones)
      BY <1>4, <3>2
    <3>4. functors_' \in [Threads -> Seq(Clones)]
      BY <1>1, <1>2, <3>1, <3>3
    <3>5. fun' \in [Threads -> Clones \cup {0}]
      BY <1>0, <3>1, <3>2
    <3> QED
      BY <3>4, <3>5
  <2>3. mutex' \in [Threads -> Threads \cup {Null}] /\ seen' \in [Threads -> Seq(Clones)]
    BY <1>1 DEF FunctorInv, FunctorsTyped, Leave, Unlock
  <2> QED
    BY <1>1, <2>1, <2>2, <2>3 DEF FunctorInv, FunctorsTyped
<1>10. FunctorsWhere'
  BY <1>0, <1>1, <1>3 DEF FunctorInv, FunctorsTyped, FunctorsWhere
<1>11. Locked'
  <2>1. at'[l] = "call" /\ \A u \in Threads : u # l => at'[u] = at[u]
    BY <1>1
  <2> QED
    BY <1>1, <1>2, <1>7, <2>1, LeaveLocked
<1>12. Bound'
  <2>1. f' # 0 => heap'[f'] \in Fds
    BY <1>1, <1>3, <1>4, <1>5 DEF FunctorInv, FunctorsTyped, Bound, Apart
  <2>2. ASSUME NEW k \in Threads, NEW i \in DOMAIN functors_'[k] PROVE heap'[functors_'[k][i]] \in Fds
    <3>1. PICK j \in DOMAIN functors_[k] : functors_'[k][i] = functors_[k][j] /\ functors_[k][j] # front
      BY <1>8, <2>2
    <3>2. functors_[k] \in Seq(Clones)
      BY DEF FunctorInv, FunctorsTyped
    <3>3. functors_[k][j] \in Clones
      BY <3>2
    <3>4. heap[functors_[k][j]] \in Fds
      BY DEF FunctorInv, Bound
    <3>5. functors_[k][j] # c
      BY <1>3, <3>4, FreeIsNone
    <3> QED
      BY <1>5, <3>1, <3>3, <3>4, <3>5
  <2>3. heap'[c] \in Fds /\ fun'[l] = c
    BY <1>0, <1>4, <1>5 DEF FunctorInv, FunctorsTyped
  <2>4. ASSUME NEW k \in Threads, k # l, fun[k] # 0 PROVE heap'[fun[k]] = heap[fun[k]]
    <3>1. fun[k] \in Clones /\ fun[k] # front /\ fun[k] # c
      BY <1>3, <1>4, <2>4 DEF FunctorInv, FunctorsTyped, Apart
    <3> QED
      BY <1>5, <3>1
  <2>5. ASSUME NEW k \in Threads
        PROVE  /\ at'[k] = "call" => heap'[fun'[k]] \in Fds
               /\ fun'[k] # 0 => heap'[fun'[k]] # Free
    <3>1. CASE k = l
      BY <2>3, <3>1, FreeIsNone
    <3>2. CASE k # l
      <4>1. at'[k] = at[k] /\ fun'[k] = fun[k]
        BY <1>0, <1>1, <3>2 DEF FunctorInv, FunctorsTyped
      <4>2. at[k] = "call" => fun[k] # 0
        BY DEF FunctorInv, FunctorsWhere
      <4> QED
        BY <2>4, <3>2, <4>1, <4>2 DEF FunctorInv, Bound
    <3> QED
      BY <3>1, <3>2
  <2> QED
    BY <2>1, <2>2, <2>5 DEF Bound
<1>13. Apart'
  <2>1. \A k \in Threads : fun'[k] = IF k = l THEN c ELSE fun[k]
    BY <1>0 DEF FunctorInv, FunctorsTyped
  <2>2. \A k, m \in Threads : fun'[k] # 0 => fun'[k] # f' /\ (fun'[k] = fun'[m] => k = m)
    BY <1>1, <1>3, <2>1 DEF FunctorInv, Apart
  <2>3. ASSUME NEW k \in Threads, NEW m \in Threads, NEW i \in DOMAIN functors_'[k]
        PROVE  functors_'[k][i] # f' /\ functors_'[k][i] # fun'[m]
    <3>1. PICK j \in DOMAIN functors_[k] : functors_'[k][i] = functors_[k][j]
      BY <1>8
    <3> QED
      BY <1>1, <1>3, <2>1, <3>1 DEF FunctorInv, Apart
  <2>4. ASSUME NEW k \in Threads, NEW m \in Threads, NEW i \in DOMAIN functors_'[k], NEW j \in DOMAIN functors_'[m],
               functors_'[k][i] = functors_'[m][j]
        PROVE  k = m /\ i = j
    <3>1. PICK i0 \in DOMAIN functors_[k] : functors_'[k][i] = functors_[k][i0] /\ i0 = IF k = l THEN i + 1 ELSE i
      BY <1>8
    <3>2. PICK j0 \in DOMAIN functors_[m] : functors_'[m][j] = functors_[m][j0] /\ j0 = IF m = l THEN j + 1 ELSE j
      BY <1>8
    <3>3. functors_[k][i0] = functors_[m][j0]
      BY <2>4, <3>1, <3>2
    <3>4. k = m /\ i0 = j0
      BY <3>3 DEF FunctorInv, Apart
    <3>5. CASE k = l
      <4>1. i \in 1..(Len(functors_[l]) - 1) /\ j \in 1..(Len(functors_[l]) - 1)
        BY <1>6, <3>4, <3>5
      <4>2. i + 1 = j + 1
        BY <3>1, <3>2, <3>4, <3>5
      <4> QED
        BY <3>4, <4>1, <4>2
    <3>6. CASE k # l
      BY <3>1, <3>2, <3>4, <3>6
    <3> QED
      BY <3>5, <3>6
  <2> QED
    BY <2>2, <2>3, <2>4 DEF Apart
<1> QED
  BY <1>9, <1>10, <1>11, <1>12, <1>13 DEF FunctorInv

LEMMA PopEmptyFunctors ==
  ASSUME SocketInv, FunctorInv, NEW l \in Threads, PopEmpty(l)
  PROVE  FunctorInv'
<1>0. /\ at[l] = "popping" /\ at' = [at EXCEPT ![l] = "idle"] /\ at \in [Threads -> At]
      /\ heap' = [heap EXCEPT ![fun[l]] = Free] /\ fun' = [fun EXCEPT ![l] = 0]
      /\ UNCHANGED <<f, functors_, to, pushed, called>> /\ Leave(l, l)
  BY DEF PopEmpty, Go, SocketInv, SocketsTyped
<1>1. Inside(l, l) /\ fun[l] # 0 /\ fun[l] \in Clones /\ fun[l] # f
  <2>1. Inside(l, l)
    BY <1>0 DEF Inside
  <2>2. fun[l] # 0
    BY <1>0 DEF FunctorInv, FunctorsWhere
  <2>3. fun[l] \in Clones
    BY <2>2 DEF FunctorInv, FunctorsTyped
  <2>4. fun[l] # f
    BY <2>2 DEF FunctorInv, Apart
  <2> QED
    BY <2>1, <2>2, <2>3, <2>4
<1>2. FunctorsTyped'
  <2>1. heap' \in [Clones -> Fds \cup {0, Free}] /\ fun' \in [Threads -> Clones \cup {0}]
    BY <1>0 DEF FunctorInv, FunctorsTyped
  <2>2. mutex' \in [Threads -> Threads \cup {Null}] /\ seen' \in [Threads -> Seq(Clones)]
    BY <1>0 DEF FunctorInv, FunctorsTyped, Leave, Unlock
  <2> QED
    BY <1>0, <2>1, <2>2 DEF FunctorInv, FunctorsTyped
<1>3. FunctorsWhere'
  BY <1>0 DEF FunctorInv, FunctorsTyped, FunctorsWhere
<1>4. Locked'
  <2>1. at'[l] = "idle" /\ \A u \in Threads : u # l => at'[u] = at[u]
    BY <1>0
  <2> QED
    BY <1>0, <1>1, <2>1, LeaveLocked
<1>5. \A d \in Clones : d # fun[l] => heap'[d] = heap[d]
  BY <1>0 DEF FunctorInv, FunctorsTyped
<1>6. Bound'
  <2>1. f' # 0 => heap'[f'] \in Fds
    BY <1>0, <1>1, <1>5 DEF FunctorInv, FunctorsTyped, Bound
  <2>2. \A k \in Threads : \A i \in DOMAIN functors_[k] : heap'[functors_[k][i]] \in Fds
    <3>1. \A k \in Threads : \A i \in DOMAIN functors_[k] :
            functors_[k][i] \in Clones /\ functors_[k][i] # fun[l]
      BY DEF FunctorInv, FunctorsTyped, Apart
    <3> QED
      BY <1>5, <3>1 DEF FunctorInv, Bound
  <2>3. ASSUME NEW k \in Threads
        PROVE  /\ at'[k] = "call" => heap'[fun'[k]] \in Fds
               /\ fun'[k] # 0 => heap'[fun'[k]] # Free
    <3>1. CASE k = l
      BY <1>0, <3>1 DEF FunctorInv, FunctorsTyped
    <3>2. CASE k # l
      <4>1. at'[k] = at[k] /\ fun'[k] = fun[k]
        BY <1>0, <3>2 DEF FunctorInv, FunctorsTyped
      <4>2. at[k] = "call" => fun[k] # 0
        BY DEF FunctorInv, FunctorsWhere
      <4>3. fun[k] # 0 => fun[k] \in Clones /\ fun[k] # fun[l]
        BY <3>2 DEF FunctorInv, FunctorsTyped, Apart
      <4> QED
        BY <1>5, <4>1, <4>2, <4>3 DEF FunctorInv, Bound
    <3> QED
      BY <3>1, <3>2
  <2> QED
    BY <1>0, <2>1, <2>2, <2>3 DEF Bound
<1>7. Apart'
  <2>1. \A k \in Threads : fun'[k] = IF k = l THEN 0 ELSE fun[k]
    BY <1>0 DEF FunctorInv, FunctorsTyped
  <2>2. \A k, m \in Threads : fun'[k] # 0 => fun'[k] # f' /\ (fun'[k] = fun'[m] => k = m)
    BY <1>0, <2>1 DEF FunctorInv, Apart
  <2>3. \A k, m \in Threads : \A i \in DOMAIN functors_[k] : functors_[k][i] # 0 /\ functors_[k][i] # fun[m]
    BY SMTT(30) DEF FunctorInv, FunctorsTyped, Apart
  <2> QED
    BY <1>0, <2>1, <2>2, <2>3 DEF FunctorInv, Apart
<1> QED
  BY <1>2, <1>3, <1>4, <1>6, <1>7 DEF FunctorInv

LEMMA CallFunctors ==
  ASSUME SocketInv, FunctorInv, NEW l \in Threads, Call(l)
  PROVE  FunctorInv'
<1>0. /\ at[l] = "call" /\ at' = [at EXCEPT ![l] = "pop"] /\ at \in [Threads -> At]
      /\ called' = [called EXCEPT ![l] = Append(@, heap[fun[l]])]
      /\ UNCHANGED <<heap, f, fun, functors_, mutex, seen, to, pushed>>
  BY DEF Call, Go, SocketInv, SocketsTyped
<1>1. heap[fun[l]] \in Fds
  BY <1>0 DEF FunctorInv, Bound
<1>2. FunctorsTyped'
  BY <1>0, <1>1 DEF FunctorInv, FunctorsTyped
<1>3. FunctorsWhere' /\ Locked'
  BY <1>0 DEF FunctorInv, FunctorsWhere, Locked, Inside
<1>4. Bound' /\ Apart'
  BY <1>0 DEF FunctorInv, Bound, Apart
<1> QED
  BY <1>2, <1>3, <1>4 DEF FunctorInv

\* Steps of the sockets leave the functors alone, and are not among theirs.
LEMMA SocketNextFunctors ==
  ASSUME SocketInv, FunctorInv, SocketNext, UNCHANGED functorVars
  PROVE  FunctorInv'
<1>1. PICK t \in Connectors \cup {Acceptor} :
        \/ Begin(t) \/ Socket(t) \/ (t = Acceptor /\ (Bind \/ Listen \/ Register \/ CloseListener \/ Unregister))
        \/ t \in Connectors /\ (Unresolved(t) \/ SetNonblock(t) \/ Connect(t) \/ Disconnect(t))
  BY DEF SocketNext, AcceptorCall
<1>2. PICK next \in {"idle", "socket", "bind", "listen", "register", "close", "fcntl", "connect", "done"} :
        /\ at[t] \in {"idle", "socket", "bind", "listen", "register", "close", "fcntl", "connect"}
        /\ at' = [at EXCEPT ![t] = next]
  BY <1>1 DEF Begin, Socket, Bind, Listen, Register, CloseListener, Unregister, Unresolved, SetNonblock,
              Connect, Disconnect, Calls, Error, Return, Go
<1>3. at \in [Threads -> At] /\ t \in Threads
  BY DEF SocketInv, SocketsTyped
<1> QED
  BY <1>2, <1>3, ElsewhereFunctors DEF FunctorSteps

LEMMA FunctorStepInv ==
  ASSUME SocketInv, FunctorInv, [Next]_vars
  PROVE  FunctorInv'
<1>0. at \in [Threads -> At] /\ Acceptor \in Threads /\ Loops \subseteq Threads
  BY DEF SocketInv, SocketsTyped, Loops
<1>1. CASE UNCHANGED vars
  BY <1>1 DEF vars, functorVars, FunctorInv, FunctorsTyped, FunctorsWhere, Locked, Inside, Bound, Apart
<1>2. CASE SocketNext /\ UNCHANGED <<functorVars, clientVars>>
  BY <1>2, SocketNextFunctors
<1>3. CASE Accept \/ Refuse
  <2>1. PICK next \in {"accepted", "idle"} :
          at[Acceptor] \in {"accepted", "idle"} /\ at' = [at EXCEPT ![Acceptor] = next]
    BY <1>3 DEF Accept, Refuse, Go
  <2>2. UNCHANGED functorVars
    BY <1>3 DEF Accept, Refuse
  <2> QED
    BY <1>0, <2>1, <2>2, ElsewhereFunctors DEF FunctorSteps
<1>4. CASE PushBegin
  <2>1. to \in Threads
    BY DEF FunctorInv, FunctorsTyped
  <2> QED
    BY <1>0, <1>4, <2>1, EnterFunctors DEF PushBegin, Go
<1>5. ASSUME NEW l \in Threads, RemoveBegin(l) \/ RemoveEnd(l) PROVE FunctorInv'
  <2>1. PICK next \in {"removing", "idle"} :
          at[l] \in {"removing", "idle"} /\ at' = [at EXCEPT ![l] = next]
    BY <1>5 DEF RemoveBegin, RemoveEnd, Go
  <2>2. UNCHANGED functorVars
    BY <1>5 DEF RemoveBegin, RemoveEnd
  <2> QED
    BY <1>0, <2>1, <2>2, ElsewhereFunctors DEF FunctorSteps
<1>6. ASSUME NEW l \in Threads, PopBegin(l) PROVE FunctorInv'
  BY <1>0, <1>6, EnterFunctors DEF PopBegin, Go
<1>7. ASSUME NEW l \in Threads, LoopStep(l) \/ RemoveBegin(l) PROVE FunctorInv'
  BY <1>5, <1>6, <1>7, DrainFunctors, PopTakesFunctors, PopEmptyFunctors, CallFunctors DEF LoopStep
<1> QED
  BY <1>1, <1>2, <1>3, <1>4, <1>7, MakeHandlerFunctors, PushFunctors, AppendFunctors DEF Next, AcceptorStep

\* Functors, queued, popped and called in any interleaving, never share a clone
\* and never hold a deleted one.
THEOREM ClonesOwned == Spec => []OneOwner
<1>1. ASSUME SocketInv, FunctorInv PROVE OneOwner
  <2>1. \A l \in Threads : functors_[l] \in Seq(Clones)
    BY <1>1 DEF FunctorInv, FunctorsTyped
  <2>2. ASSUME NEW c \in Held PROVE heap[c] # Free
    BY <1>1, <2>2, FreeIsNone DEF Held, FunctorInv, Bound
  <2>3. ASSUME NEW c \in Queued PROVE heap[c] # Free /\ c \notin Held
    <3>1. PICK l \in Threads : c \in Range(functors_[l])
      BY <2>3 DEF Queued
    <3>2. PICK i \in DOMAIN functors_[l] : c = functors_[l][i]
      BY <3>1 DEF Range
    <3> QED
      BY <1>1, <3>2, FreeIsNone DEF Held, FunctorInv, Bound, Apart
  <2>4. \A l \in Threads : fun[l] # 0 => fun[l] # f /\ \A k \in Threads : fun[k] = fun[l] => k = l
    BY <1>1 DEF FunctorInv, Apart
  <2>5. \A l \in Threads : IsInjective(functors_[l])
    BY <1>1 DEF FunctorInv, Apart, IsInjective
  <2>6. \A l, k \in Threads : k # l => Range(functors_[l]) \cap Range(functors_[k]) = {}
    BY <1>1 DEF FunctorInv, Apart, Range
  <2> QED
    BY <2>2, <2>3, <2>4, <2>5, <2>6 DEF OneOwner
<1> QED
  BY <1>1, SocketInitInv, SocketStepInv, FunctorInitInv, FunctorStepInv, PTL DEF Spec

-----------------------------------------------------------------------------
(* Order.                                                                   *)

Bindings(l) == [i \in DOMAIN functors_[l] |-> heap[functors_[l][i]]]
Taken(l) == IF at[l] = "call" THEN <<heap[fun[l]]>> ELSE <<>>
Ordered(l) == pushed[l] = called[l] \o Taken(l) \o Bindings(l)

LEMMA HeadThenRest ==
  ASSUME NEW S, NEW a \in Seq(S), Len(a) # 0
  PROVE  /\ [i \in 1..(Len(a) - 1) |-> a[i + 1]] \in Seq(S)
         /\ a = <<a[1]>> \o [i \in 1..(Len(a) - 1) |-> a[i + 1]]
<1> DEFINE b == [i \in 1..(Len(a) - 1) |-> a[i + 1]]
<1>1. Len(a) \in Nat /\ DOMAIN a = 1..Len(a) /\ a[1] \in S
  BY LenProperties, ElementOfSeq
<1>2. b \in Seq(S) /\ Len(b) = Len(a) - 1
  <2>1. \A i \in 1..(Len(a) - 1) : a[i + 1] \in S
    BY <1>1
  <2>2. b \in Seq(S)
    BY <1>1, <2>1
  <2> QED
    BY <1>1, <2>2, LenProperties
<1> QED
  BY <1>1, <1>2, SeqEqual, ConcatProperties

LEMMA OrderedTyped ==
  ASSUME FunctorInv, NEW l \in Threads
  PROVE  /\ Bindings(l) \in Seq(Fds) /\ Taken(l) \in Seq(Fds)
         /\ pushed[l] \in Seq(Fds) /\ called[l] \in Seq(Fds)
<1>1. functors_[l] \in Seq(Clones) /\ pushed[l] \in Seq(Fds) /\ called[l] \in Seq(Fds)
  BY DEF FunctorInv, FunctorsTyped
<1>2. \A i \in DOMAIN functors_[l] : heap[functors_[l][i]] \in Fds
  BY DEF FunctorInv, Bound
<1>3. DOMAIN functors_[l] = 1..Len(functors_[l]) /\ Len(functors_[l]) \in Nat
  BY <1>1
<1>4. Bindings(l) \in Seq(Fds)
  BY <1>2, <1>3 DEF Bindings
<1>5. Taken(l) \in Seq(Fds)
  BY DEF Taken, FunctorInv, Bound
<1> QED
  BY <1>1, <1>4, <1>5

\* A step that neither calls nor queues, and frees nothing a queue holds.
LEMMA OrderedFrame ==
  ASSUME FunctorInv, CallsInOrder, NEW l \in Threads,
         pushed'[l] = pushed[l], called'[l] = called[l], functors_'[l] = functors_[l],
         at'[l] = "call" <=> at[l] = "call",
         at[l] = "call" => fun'[l] = fun[l] /\ heap'[fun[l]] = heap[fun[l]],
         \A i \in DOMAIN functors_[l] : heap'[functors_[l][i]] = heap[functors_[l][i]]
  PROVE  Ordered(l)'
<1>1. Ordered(l)
  BY DEF CallsInOrder, Ordered, Taken, Bindings
<1>2. Taken(l)' = Taken(l)
  BY DEF Taken
<1>3. Bindings(l)' = Bindings(l)
  BY DEF Bindings
<1> QED
  BY <1>1, <1>2, <1>3 DEF Ordered

\* One clone that no queue or call holds is written.
LEMMA OrderedWrites ==
  ASSUME FunctorInv, CallsInOrder, NEW c \in Clones,
         \A d \in Clones : d # c => heap'[d] = heap[d],
         \A k \in Threads : at[k] = "call" => fun[k] # c /\ fun'[k] = fun[k],
         \A k \in Threads : \A i \in DOMAIN functors_[k] : functors_[k][i] # c,
         \A k \in Threads : at'[k] = "call" <=> at[k] = "call",
         UNCHANGED <<functors_, pushed, called>>
  PROVE  \A l \in Threads : Ordered(l)'
<1>1. SUFFICES ASSUME NEW l \in Threads PROVE Ordered(l)'
  OBVIOUS
<1>2. at[l] = "call" => fun[l] \in Clones
  BY DEF FunctorInv, FunctorsTyped, FunctorsWhere
<1>3. \A i \in DOMAIN functors_[l] : functors_[l][i] \in Clones
  BY DEF FunctorInv, FunctorsTyped
<1>4. \A i \in DOMAIN functors_[l] : heap'[functors_[l][i]] = heap[functors_[l][i]]
  BY <1>3
<1>5. at[l] = "call" => fun'[l] = fun[l] /\ heap'[fun[l]] = heap[fun[l]]
  BY <1>2
<1> QED
  BY <1>4, <1>5, OrderedFrame

LEMMA PushOrdered ==
  ASSUME SocketInv, FunctorInv, CallsInOrder, PushEnd
  PROVE  \A l \in Threads : Ordered(l)'
<1>0. PICK c \in Clones : /\ Fresh(c) /\ heap' = Copied(c, f, {})
                          /\ functors_' = [functors_ EXCEPT ![to] = Append(seen[Acceptor], c)]
  BY DEF PushEnd
<1>1. /\ Acceptor \in Threads /\ to \in Threads
      /\ at[Acceptor] = "pushing" /\ \A k \in Threads : at'[k] = "call" <=> at[k] = "call"
      /\ UNCHANGED <<f, fun, to, called>>
      /\ pushed' = [pushed EXCEPT ![to] = Append(@, heap[f])]
  BY DEF PushEnd, Go, SocketInv, SocketsTyped, FunctorInv, FunctorsTyped
<1>2. seen[Acceptor] = functors_[to] /\ f \in Clones /\ heap[f] \in Fds
  <2>1. Inside(Acceptor, to)
    BY <1>1 DEF Inside
  <2>2. seen[Acceptor] = functors_[to]
    BY <1>1, <2>1 DEF FunctorInv, Locked
  <2>3. f # 0
    BY <1>1 DEF FunctorInv, FunctorsWhere
  <2> QED
    BY <2>2, <2>3 DEF FunctorInv, FunctorsTyped, Bound
<1>3. /\ \A l \in Threads : fun[l] # c
      /\ \A l \in Threads : \A i \in DOMAIN functors_[l] : functors_[l][i] # c
  BY <1>0, FreshIsUnheld
<1>4. heap'[c] = heap[f] /\ \A d \in Clones : d # c => heap'[d] = heap[d]
  BY <1>0 DEF Copied
<1>5. \A l \in Threads : at[l] = "call" => fun[l] \in Clones
  BY DEF FunctorInv, FunctorsTyped, FunctorsWhere
<1>6. \A l \in Threads : functors_[l] \in Seq(Clones)
  BY DEF FunctorInv, FunctorsTyped
<1>7. SUFFICES ASSUME NEW l \in Threads PROVE Ordered(l)'
  OBVIOUS
<1>8. \A i \in DOMAIN functors_[l] : heap'[functors_[l][i]] = heap[functors_[l][i]]
  <2>1. \A i \in DOMAIN functors_[l] : functors_[l][i] \in Clones /\ functors_[l][i] # c
    BY <1>3, <1>6
  <2> QED
    BY <1>4, <2>1
<1>9. at[l] = "call" => fun'[l] = fun[l] /\ heap'[fun[l]] = heap[fun[l]]
  BY <1>1, <1>3, <1>4, <1>5
<1>10. CASE l # to
  <2>1. functors_'[l] = functors_[l] /\ pushed'[l] = pushed[l] /\ called'[l] = called[l]
    BY <1>0, <1>1, <1>10 DEF FunctorInv, FunctorsTyped
  <2> QED
    BY <1>1, <1>8, <1>9, <2>1, OrderedFrame
<1>11. CASE l = to
  <2>1. /\ functors_'[l] = Append(functors_[l], c) /\ pushed'[l] = Append(pushed[l], heap[f])
        /\ called'[l] = called[l]
    BY <1>0, <1>1, <1>2, <1>11 DEF FunctorInv, FunctorsTyped
  <2>2. Taken(l)' = Taken(l)
    BY <1>1, <1>9 DEF Taken
  <2>3. Bindings(l)' = Append(Bindings(l), heap[f])
    <3>1. DOMAIN functors_[l] = 1..Len(functors_[l]) /\ Len(functors_[l]) \in Nat
      BY <1>6
    <3>2. DOMAIN functors_'[l] = 1..(Len(functors_[l]) + 1)
      BY <1>6, <2>1
    <3>3. \A i \in 1..Len(functors_[l]) : functors_'[l][i] = functors_[l][i]
      BY <1>6, <2>1
    <3>4. functors_'[l][Len(functors_[l]) + 1] = c
      BY <1>6, <2>1
    <3>5. Bindings(l) \in Seq(Fds) /\ Len(Bindings(l)) = Len(functors_[l])
      <4>1. Bindings(l) \in Seq(Fds)
        BY OrderedTyped
      <4>2. DOMAIN Bindings(l) = 1..Len(functors_[l])
        BY <3>1 DEF Bindings
      <4> QED
        BY <3>1, <4>1, <4>2, LenProperties
    <3>6. Bindings(l)' = [i \in 1..(Len(functors_[l]) + 1) |-> heap'[functors_'[l][i]]]
      BY <3>2 DEF Bindings
    <3>7. \A i \in 1..(Len(functors_[l]) + 1) :
            heap'[functors_'[l][i]] = IF i <= Len(functors_[l]) THEN Bindings(l)[i] ELSE heap[f]
      BY <1>4, <1>8, <3>1, <3>3, <3>4, SMTT(30) DEF Bindings
    <3>8. Append(Bindings(l), heap[f]) = [i \in 1..(Len(functors_[l]) + 1) |->
            IF i <= Len(functors_[l]) THEN Bindings(l)[i] ELSE heap[f]]
      BY <1>2, <3>1, <3>5
    <3> QED
      BY <3>6, <3>7, <3>8
  <2>4. Ordered(l) /\ called[l] \o Taken(l) \in Seq(Fds) /\ Bindings(l) \in Seq(Fds)
    <3>1. Ordered(l)
      BY DEF CallsInOrder, Ordered, Taken, Bindings
    <3>2. called[l] \in Seq(Fds) /\ Taken(l) \in Seq(Fds) /\ Bindings(l) \in Seq(Fds)
      BY OrderedTyped
    <3> QED
      BY <3>1, <3>2, ConcatProperties
  <2>5. Append(called[l] \o Taken(l) \o Bindings(l), heap[f]) = called[l] \o Taken(l) \o Append(Bindings(l), heap[f])
    <3>1. PICK a \in Seq(Fds) : a = called[l] \o Taken(l)
      BY <2>4
    <3>2. PICK b \in Seq(Fds) : b = Bindings(l)
      BY <2>4
    <3>3. Append(a \o b, heap[f]) = a \o Append(b, heap[f])
      BY <1>2, SMTT(30)
    <3> QED
      BY <3>1, <3>2, <3>3, Zenon
  <2> QED
    BY <2>1, <2>2, <2>3, <2>4, <2>5 DEF Ordered
<1> QED
  BY <1>10, <1>11

LEMMA PopTakesOrdered ==
  ASSUME SocketInv, FunctorInv, CallsInOrder, NEW p \in Threads, PopTakes(p)
  PROVE  \A l \in Threads : Ordered(l)'
<1>0. PICK c \in Clones : /\ Fresh(c) /\ heap' = Copied(c, Head(seen[p]), {Head(seen[p])})
                          /\ fun' = [fun EXCEPT ![p] = c]
  BY DEF PopTakes
<1>1. /\ at[p] = "popping" /\ at' = [at EXCEPT ![p] = "call"] /\ at \in [Threads -> At]
      /\ seen[p] # <<>> /\ functors_' = [functors_ EXCEPT ![p] = Tail(seen[p])]
      /\ UNCHANGED <<pushed, called>>
  BY DEF PopTakes, Go, SocketInv, SocketsTyped
<1>2. seen[p] = functors_[p]
  <2>1. Inside(p, p)
    BY <1>1 DEF Inside
  <2> QED
    BY <2>1 DEF FunctorInv, Locked
<1>3. /\ \A k \in Threads : fun[k] # c
      /\ \A k \in Threads : \A i \in DOMAIN functors_[k] : functors_[k][i] # c
  BY <1>0, FreshIsUnheld
<1> DEFINE front == Head(functors_[p])
<1>4. \A k \in Threads : functors_[k] \in Seq(Clones)
  BY DEF FunctorInv, FunctorsTyped
<1>5. functors_[p] # <<>> /\ 1 \in DOMAIN functors_[p] /\ front = functors_[p][1] /\ front \in Clones
  BY <1>1, <1>2, <1>4
<1>6. front # c
  BY <1>3, <1>5
<1>7. heap'[c] = heap[front] /\ \A d \in Clones : d # c /\ d # front => heap'[d] = heap[d]
  BY <1>0, <1>2, <1>6 DEF Copied
<1>8. SUFFICES ASSUME NEW l \in Threads PROVE Ordered(l)'
  OBVIOUS
<1>9. CASE l # p
  <2>1. /\ functors_'[l] = functors_[l] /\ pushed'[l] = pushed[l] /\ called'[l] = called[l]
        /\ at'[l] = at[l] /\ fun'[l] = fun[l]
    BY <1>0, <1>1, <1>9 DEF FunctorInv, FunctorsTyped
  <2>2. \A i \in DOMAIN functors_[l] : functors_[l][i] \in Clones /\ functors_[l][i] # c /\ functors_[l][i] # front
    <3>1. \A i \in DOMAIN functors_[l] : functors_[l][i] # front
      BY <1>5, <1>9 DEF FunctorInv, Apart
    <3> QED
      BY <1>3, <1>4, <3>1
  <2>3. \A i \in DOMAIN functors_[l] : heap'[functors_[l][i]] = heap[functors_[l][i]]
    BY <1>7, <2>2
  <2>4. at[l] = "call" => fun[l] \in Clones /\ fun[l] # c /\ fun[l] # front
    BY <1>3, <1>5, SMTT(30) DEF FunctorInv, FunctorsTyped, FunctorsWhere, Apart
  <2>5. at[l] = "call" => fun'[l] = fun[l] /\ heap'[fun[l]] = heap[fun[l]]
    BY <1>7, <2>1, <2>4
  <2> QED
    BY <2>1, <2>3, <2>5, OrderedFrame
<1>10. CASE l = p
  <2>1. functors_'[p] = Tail(functors_[p]) /\ pushed'[p] = pushed[p] /\ called'[p] = called[p]
    BY <1>1, <1>2 DEF FunctorInv, FunctorsTyped
  <2>2. Taken(p) = <<>>
    BY <1>1 DEF Taken
  <2>3. Taken(p)' = <<heap[front]>>
    BY <1>0, <1>1, <1>7 DEF Taken, FunctorInv, FunctorsTyped
  <2>4. Bindings(p) = <<heap[front]>> \o Bindings(p)' /\ Bindings(p)' \in Seq(Fds) /\ heap[front] \in Fds
    <3>1. DOMAIN functors_[p] = 1..Len(functors_[p]) /\ Len(functors_[p]) \in Nat /\ Len(functors_[p]) # 0
      BY <1>4, <1>5
    <3>2. DOMAIN functors_'[p] = 1..(Len(functors_[p]) - 1)
      BY <1>4, <1>5, <2>1
    <3>3. \A i \in 1..(Len(functors_[p]) - 1) : functors_'[p][i] = functors_[p][i + 1]
      BY <1>4, <1>5, <2>1
    <3>4. \A i \in 1..(Len(functors_[p]) - 1) : heap'[functors_'[p][i]] = heap[functors_[p][i + 1]]
      <4>1. ASSUME NEW i \in 1..(Len(functors_[p]) - 1) PROVE heap'[functors_'[p][i]] = heap[functors_[p][i + 1]]
        <5>1. i + 1 \in DOMAIN functors_[p] /\ i + 1 # 1
          BY <3>1
        <5>2. functors_[p][i + 1] \in Clones /\ functors_[p][i + 1] # c
          BY <1>3, <1>4, <5>1
        <5>3. functors_[p][i + 1] # front
          BY <1>5, <5>1 DEF FunctorInv, Apart
        <5> QED
          BY <1>7, <3>3, <5>2, <5>3
      <4> QED
        BY <4>1
    <3>5. Bindings(p)' = [i \in 1..(Len(functors_[p]) - 1) |-> Bindings(p)[i + 1]]
      <4>1. Bindings(p)' = [i \in 1..(Len(functors_[p]) - 1) |-> heap'[functors_'[p][i]]]
        BY <3>2 DEF Bindings
      <4>2. \A i \in 1..(Len(functors_[p]) - 1) : Bindings(p)[i + 1] = heap[functors_[p][i + 1]]
        BY <3>1 DEF Bindings
      <4> QED
        BY <3>4, <4>1, <4>2
    <3>6. Bindings(p) \in Seq(Fds) /\ Len(Bindings(p)) = Len(functors_[p]) /\ Bindings(p)[1] = heap[front]
      <4>1. Bindings(p) \in Seq(Fds)
        BY OrderedTyped
      <4>2. DOMAIN Bindings(p) = 1..Len(functors_[p]) /\ Bindings(p)[1] = heap[front]
        BY <1>5, <3>1 DEF Bindings
      <4> QED
        BY <3>1, <4>1, <4>2, LenProperties
    <3>7. heap[front] \in Fds
      BY <1>5 DEF FunctorInv, Bound
    <3> QED
      BY <3>1, <3>5, <3>6, <3>7, HeadThenRest
  <2>5. called[p] \in Seq(Fds)
    BY OrderedTyped
  <2>6. pushed[p] = called[p] \o Bindings(p)
    BY <2>2, <2>5, ConcatEmptySeq DEF CallsInOrder, Taken, Bindings
  <2>7. called[p] \o (<<heap[front]>> \o Bindings(p)') = (called[p] \o <<heap[front]>>) \o Bindings(p)'
    <3>1. PICK a \in Seq(Fds) : a = called[p]
      BY <2>5
    <3>2. PICK b \in Seq(Fds) : b = Bindings(p)'
      BY <2>4
    <3>3. a \o (<<heap[front]>> \o b) = (a \o <<heap[front]>>) \o b
      BY <2>4
    <3> QED
      BY <3>1, <3>2, <3>3, Zenon
  <2> QED
    BY <1>10, <2>1, <2>3, <2>4, <2>6, <2>7 DEF Ordered
<1> QED
  BY <1>9, <1>10

LEMMA CallOrdered ==
  ASSUME SocketInv, FunctorInv, CallsInOrder, NEW p \in Threads, Call(p)
  PROVE  \A l \in Threads : Ordered(l)'
<1>1. /\ at[p] = "call" /\ at' = [at EXCEPT ![p] = "pop"] /\ at \in [Threads -> At]
      /\ called' = [called EXCEPT ![p] = Append(@, heap[fun[p]])]
      /\ UNCHANGED <<heap, fun, functors_, pushed>>
  BY DEF Call, Go, SocketInv, SocketsTyped
<1>2. SUFFICES ASSUME NEW l \in Threads PROVE Ordered(l)'
  OBVIOUS
<1>3. CASE l # p
  BY <1>1, <1>3, OrderedFrame DEF FunctorInv, FunctorsTyped
<1>4. CASE l = p
  <2>1. called'[p] = Append(called[p], heap[fun[p]]) /\ pushed'[p] = pushed[p] /\ Bindings(p)' = Bindings(p)
    BY <1>1 DEF FunctorInv, FunctorsTyped, Bindings
  <2>2. Taken(p) = <<heap[fun[p]]>> /\ Taken(p)' = <<>>
    BY <1>1 DEF Taken
  <2>3. PICK a \in Seq(Fds), b \in Seq(Fds) : a = called[p] /\ b = Bindings(p)
    BY OrderedTyped
  <2>4. heap[fun[p]] \in Fds
    BY <1>1 DEF FunctorInv, Bound
  <2>5. a \o <<heap[fun[p]]>> \o b = Append(a, heap[fun[p]]) \o <<>> \o b
    BY <2>3, <2>4
  <2>6. Ordered(p)
    BY DEF CallsInOrder, Ordered, Taken, Bindings
  <2>7. pushed'[p] = a \o <<heap[fun[p]]>> \o b
    BY <2>1, <2>2, <2>3, <2>6 DEF Ordered
  <2>8. called'[p] \o Taken(p)' \o Bindings(p)' = Append(a, heap[fun[p]]) \o <<>> \o b
    BY <2>1, <2>2, <2>3
  <2> QED
    BY <1>4, <2>5, <2>7, <2>8, Zenon DEF Ordered
<1> QED
  BY <1>3, <1>4

LEMMA OrderStep ==
  ASSUME SocketInv, FunctorInv, CallsInOrder, [Next]_vars
  PROVE  CallsInOrder'
<1>0. at \in [Threads -> At] /\ Acceptor \in Threads /\ Loops \subseteq Threads
  BY DEF SocketInv, SocketsTyped, Loops
<1>1. SUFFICES \A l \in Threads : Ordered(l)'
  BY DEF CallsInOrder, Ordered, Taken, Bindings
<1>2. CASE UNCHANGED functorVars /\ \A l \in Threads : at'[l] = "call" <=> at[l] = "call"
  BY <1>2, OrderedFrame DEF functorVars
<1>3. CASE UNCHANGED vars
  BY <1>2, <1>3 DEF vars
<1>4. CASE SocketNext /\ UNCHANGED <<functorVars, clientVars>>
  <2>1. PICK t \in Connectors \cup {Acceptor} :
          \/ Begin(t) \/ Socket(t) \/ (t = Acceptor /\ (Bind \/ Listen \/ Register \/ CloseListener \/ Unregister))
          \/ t \in Connectors /\ (Unresolved(t) \/ SetNonblock(t) \/ Connect(t) \/ Disconnect(t))
    BY <1>4 DEF SocketNext, AcceptorCall
  <2>2. PICK next \in {"idle", "socket", "bind", "listen", "register", "close", "fcntl", "connect", "done"} :
          /\ at[t] \in {"idle", "socket", "bind", "listen", "register", "close", "fcntl", "connect"}
          /\ at' = [at EXCEPT ![t] = next]
    BY <2>1 DEF Begin, Socket, Bind, Listen, Register, CloseListener, Unregister, Unresolved, SetNonblock,
                Connect, Disconnect, Calls, Error, Return, Go
  <2>3. \A l \in Threads : at'[l] = "call" <=> at[l] = "call"
    BY <1>0, <2>2
  <2> QED
    BY <1>2, <1>4, <2>3
<1>5. CASE Accept \/ Refuse
  <2>1. UNCHANGED functorVars /\ \A l \in Threads : at'[l] = "call" <=> at[l] = "call"
    BY <1>0, <1>5 DEF Accept, Refuse, Go
  <2> QED
    BY <1>2, <2>1
<1>6. ASSUME NEW l \in Threads, RemoveBegin(l) \/ RemoveEnd(l) PROVE \A k \in Threads : Ordered(k)'
  <2>1. UNCHANGED functorVars /\ \A k \in Threads : at'[k] = "call" <=> at[k] = "call"
    BY <1>0, <1>6 DEF RemoveBegin, RemoveEnd, Go
  <2> QED
    BY <1>2, <2>1
<1>7. CASE PushBegin \/ AppendBegin
  BY <1>0, <1>7, OrderedFrame DEF PushBegin, AppendBegin, Go, functorVars
<1>8. ASSUME NEW l \in Threads, PopBegin(l) PROVE \A k \in Threads : Ordered(k)'
  BY <1>0, <1>8, OrderedFrame DEF PopBegin, Go
<1>9. CASE MakeHandler
  <2>1. PICK c \in Clones : Fresh(c) /\ heap' = [heap EXCEPT ![c] = sock[Acceptor]]
    BY <1>9 DEF MakeHandler
  <2>2. \A d \in Clones : d # c => heap'[d] = heap[d]
    BY <2>1 DEF FunctorInv, FunctorsTyped
  <2>3. /\ UNCHANGED <<fun, functors_, pushed, called>>
        /\ \A k \in Threads : at'[k] = "call" <=> at[k] = "call"
    BY <1>0, <1>9 DEF MakeHandler, Go
  <2> QED
    BY <2>1, <2>2, <2>3, FreshIsUnheld, OrderedWrites
<1>10. CASE AppendEnd
  <2>1. /\ heap' = [heap EXCEPT ![f] = Free] /\ at[Acceptor] = "appending"
        /\ UNCHANGED <<fun, functors_, pushed, called>>
        /\ \A k \in Threads : at'[k] = "call" <=> at[k] = "call"
    BY <1>0, <1>10 DEF AppendEnd, Go
  <2>2. f # 0 /\ f \in Clones
    BY <1>0, <2>1 DEF FunctorInv, FunctorsWhere, FunctorsTyped
  <2>3. \A d \in Clones : d # f => heap'[d] = heap[d]
    BY <2>1 DEF FunctorInv, FunctorsTyped
  <2>4. \A k \in Threads : at[k] = "call" => fun[k] # f /\ fun'[k] = fun[k]
    BY <2>1, <2>2 DEF FunctorInv, FunctorsWhere, Apart
  <2>5. \A k \in Threads : \A i \in DOMAIN functors_[k] : functors_[k][i] # f
    BY DEF FunctorInv, Apart
  <2> QED
    BY <2>1, <2>2, <2>3, <2>4, <2>5, OrderedWrites
<1>11. ASSUME NEW l \in Threads, DrainBegin(l) PROVE \A k \in Threads : Ordered(k)'
  <2>1. PICK c \in Clones : Fresh(c) /\ heap' = [heap EXCEPT ![c] = 0] /\ fun' = [fun EXCEPT ![l] = c]
    BY <1>11 DEF DrainBegin
  <2>2. \A d \in Clones : d # c => heap'[d] = heap[d]
    BY <2>1 DEF FunctorInv, FunctorsTyped
  <2>3. /\ UNCHANGED <<functors_, pushed, called>> /\ at[l] = "idle"
        /\ \A k \in Threads : at'[k] = "call" <=> at[k] = "call"
    BY <1>0, <1>11 DEF DrainBegin, Go
  <2>4. \A k \in Threads : at[k] = "call" => fun[k] # c /\ fun'[k] = fun[k]
    BY <2>1, <2>3, FreshIsUnheld DEF FunctorInv, FunctorsTyped
  <2> QED
    BY <2>1, <2>2, <2>3, <2>4, FreshIsUnheld, OrderedWrites
<1>12. ASSUME NEW l \in Threads, PopEmpty(l) PROVE \A k \in Threads : Ordered(k)'
  <2>1. /\ heap' = [heap EXCEPT ![fun[l]] = Free] /\ fun' = [fun EXCEPT ![l] = 0] /\ at[l] = "popping"
        /\ UNCHANGED <<functors_, pushed, called>>
        /\ \A k \in Threads : at'[k] = "call" <=> at[k] = "call"
    BY <1>0, <1>12 DEF PopEmpty, Go
  <2>2. fun[l] # 0
    BY <2>1 DEF FunctorInv, FunctorsWhere
  <2>3. fun[l] \in Clones
    BY <2>2 DEF FunctorInv, FunctorsTyped
  <2>4. \A d \in Clones : d # fun[l] => heap'[d] = heap[d]
    BY <2>1 DEF FunctorInv, FunctorsTyped
  <2>5. \A k \in Threads : at[k] = "call" => fun[k] # fun[l] /\ fun'[k] = fun[k]
    <3>1. \A k \in Threads : at[k] = "call" => k # l
      BY <2>1
    <3>2. \A k \in Threads : k # l => fun[k] # fun[l]
      BY <2>2 DEF FunctorInv, Apart
    <3> QED
      BY <2>1, <3>1, <3>2 DEF FunctorInv, FunctorsTyped
  <2>6. \A k \in Threads : \A i \in DOMAIN functors_[k] : functors_[k][i] # fun[l]
    BY DEF FunctorInv, Apart
  <2> QED
    BY <2>1, <2>3, <2>4, <2>5, <2>6, OrderedWrites
<1>13. ASSUME NEW l \in Threads, LoopStep(l) \/ RemoveBegin(l) PROVE \A k \in Threads : Ordered(k)'
  BY <1>6, <1>8, <1>11, <1>12, <1>13, PopTakesOrdered, CallOrdered DEF LoopStep
<1> QED
  BY <1>3, <1>4, <1>5, <1>7, <1>9, <1>10, <1>13, PushOrdered DEF Next, AcceptorStep

\* A loop runs the functors it is given, each once and in the order they were
\* given, whatever the number of loops and functors.
THEOREM FunctorsInOrder == Spec => []CallsInOrder
<1>1. ASSUME Init PROVE CallsInOrder
  <2>1. ASSUME NEW l \in Threads PROVE pushed[l] = <<>> /\ called[l] = <<>> /\ Taken(l) = <<>> /\ Bindings(l) = <<>>
    BY <1>1 DEF Init, SocketInit, Taken, Bindings
  <2>2. \A l \in Threads : Ordered(l)
    <3>1. <<>> \o <<>> \o <<>> = <<>>
      OBVIOUS
    <3> QED
      BY <2>1, <3>1, Zenon DEF Ordered
  <2> QED
    BY <2>2 DEF CallsInOrder, Ordered, Taken, Bindings
<1> QED
  BY <1>1, SocketInitInv, SocketStepInv, FunctorInitInv, FunctorStepInv, OrderStep, PTL DEF Spec

-----------------------------------------------------------------------------
(* Slots.                                                                   *)

InSeq(g, s) == \E i \in 1..Len(s) : s[i] = g

\* The entry that RemoveFirst removes.
LEMMA FirstOne ==
  ASSUME NEW S, NEW s \in Seq(S), NEW e, InSeq(e, s)
  PROVE  \E k \in 1..Len(s) : s[k] = e /\ RemoveFirst(s, e) = RemoveAt(s, k)
<1> DEFINE I == {i \in 1..Len(s) : s[i] = e}
<1>1. I # {} /\ I \subseteq Nat
  BY DEF InSeq
<1>2. PICK k \in I : \A n \in I : k <= n
  <2> DEFINE R == OpToRel(<, Nat)
  <2>1. IsWellFoundedOn(R, Nat)
    BY NatLessThanWellFounded
  <2>2. \A m, n \in Nat : <<m, n>> \in R <=> m < n
    BY DEF OpToRel
  <2> HIDE DEF I, R
  <2>3. PICK k \in I : \A n \in I : ~(<<n, k>> \in R)
    BY <1>1, <2>1, WFMin
  <2>4. \A n \in I : ~(n < k) /\ n \in Nat /\ k \in Nat
    BY <1>1, <2>2, <2>3
  <2> QED
    BY <2>4
<1>3. Min(I) \in I
  BY <1>2 DEF Min
<1>4. RemoveFirst(s, e) = RemoveAt(s, Min(I))
  BY <1>1 DEF RemoveFirst, SelectInSeq, InSeq
<1> QED
  BY <1>3, <1>4

\* remove_handler takes one entry away if there is one, and no other handler's last.
LEMMA RemoveFirstFacts ==
  ASSUME NEW S, NEW s \in Seq(S), NEW e
  PROVE  /\ RemoveFirst(s, e) \in Seq(S)
         /\ InSeq(e, s) => Len(RemoveFirst(s, e)) = Len(s) - 1
         /\ ~InSeq(e, s) => RemoveFirst(s, e) = s
         /\ \A g : g # e /\ InSeq(g, s) => InSeq(g, RemoveFirst(s, e))
<1>1. CASE ~InSeq(e, s)
  BY <1>1 DEF RemoveFirst, InSeq
<1>2. CASE InSeq(e, s)
  <2>1. PICK k \in 1..Len(s) : s[k] = e /\ RemoveFirst(s, e) = RemoveAt(s, k)
    BY <1>2, FirstOne
  <2>0. Len(s) \in Nat /\ k \in Nat /\ 1 <= k /\ k <= Len(s)
    BY LenProperties
  <2>2. PICK a \in Seq(S) : a = SubSeq(s, 1, k - 1) /\ Len(a) = k - 1 /\ \A i \in 1..(k - 1) : a[i] = s[i]
    <3>1. SubSeq(s, 1, k - 1) \in Seq(S) /\ Len(SubSeq(s, 1, k - 1)) = k - 1
      BY <2>0
    <3>2. \A i \in 1..(k - 1) : SubSeq(s, 1, k - 1)[i] = s[i]
      BY <2>0
    <3> QED
      BY <3>1, <3>2
  <2>3. PICK b \in Seq(S) : b = SubSeq(s, k + 1, Len(s)) /\ Len(b) = Len(s) - k /\ \A i \in 1..(Len(s) - k) : b[i] = s[k + i]
    <3>1. SubSeq(s, k + 1, Len(s)) \in Seq(S) /\ Len(SubSeq(s, k + 1, Len(s))) = Len(s) - k
      BY <2>0
    <3>2. \A i \in 1..(Len(s) - k) : SubSeq(s, k + 1, Len(s))[i] = s[k + i]
      BY <2>0
    <3> QED
      BY <3>1, <3>2
  <2>4. RemoveFirst(s, e) = a \o b
    BY <2>1, <2>2, <2>3 DEF RemoveAt
  <2>5. a \o b \in Seq(S) /\ Len(a \o b) = Len(s) - 1
    <3>1. a \o b \in Seq(S) /\ Len(a \o b) = Len(a) + Len(b)
      OBVIOUS
    <3>2. Len(a) = k - 1
      BY <2>2, Zenon
    <3>3. Len(b) = Len(s) - k
      BY <2>3, Zenon
    <3>4. Len(a) + Len(b) = Len(s) - 1
      BY <2>0, <3>2, <3>3
    <3> QED
      BY <3>1, <3>4
  <2>6. ASSUME NEW g, g # e, NEW i \in 1..Len(s), s[i] = g PROVE InSeq(g, a \o b)
    <3>1. CASE i < k
      <4>1. i \in 1..Len(a \o b) /\ (a \o b)[i] = g
        BY <2>2, <2>5, <2>6, <3>1
      <4> QED BY <4>1 DEF InSeq
    <3>2. CASE i > k
      <4>1. i - 1 \in 1..Len(a \o b) /\ i - k \in 1..(Len(s) - k) /\ ~(i - 1 <= Len(a)) /\ i - 1 - Len(a) = i - k
        BY <2>2, <2>5, <3>2
      <4>2. (a \o b)[i - 1] = b[i - k]
        <5>1. \A j \in 1..(Len(a) + Len(b)) : (a \o b)[j] = IF j <= Len(a) THEN a[j] ELSE b[j - Len(a)]
          OBVIOUS
        <5>2. PICK j \in 1..(Len(a) + Len(b)) : j = i - 1
          <6>1. Len(a \o b) = Len(a) + Len(b)
            OBVIOUS
          <6> QED
            BY <4>1, <6>1
        <5>3. ~(j <= Len(a)) /\ j - Len(a) = i - k
          BY <4>1, <5>2
        <5>4. (a \o b)[j] = b[j - Len(a)]
          BY <5>1, <5>3
        <5> QED
          BY <5>2, <5>3, <5>4
      <4>3. b[i - k] = s[k + (i - k)] /\ k + (i - k) = i
        BY <2>3, <4>1
      <4> QED BY <2>6, <4>1, <4>2, <4>3 DEF InSeq
    <3>3. CASE i = k
      BY <2>1, <2>6, <3>3
    <3> QED BY <3>1, <3>2, <3>3
  <2> QED
    BY <1>2, <2>4, <2>5, <2>6 DEF InSeq
<1> QED
  BY <1>1, <1>2

Pend == at[Acceptor] \in {"push", "pushing", "append", "appending"}
Live == {h \in Handlers : life[h] # "free"}
Target(l, i) == handlerOf[pushed[l][i]]
Open(l, i) == i \in DOMAIN pushed[l] /\ i > Len(called[l])

\* A functor that is still to run is bound to a handler not yet open, its own.
Waiting ==
    /\ \A l \in Threads : \A i \in Nat : Open(l, i) => Target(l, i) \in Handlers /\ life[Target(l, i)] = "new"
    /\ \A l, k \in Threads : \A i, j \in Nat :
        Open(l, i) /\ Open(k, j) /\ Target(l, i) = Target(k, j) => l = k /\ i = j

\* on_accept has room for the handler it makes, which no queue knows yet.
Making ==
    /\ Pend => cur[Acceptor] \in Handlers /\ Len(clients_) < MaxClients
    /\ at[Acceptor] \in {"push", "pushing"} =>
        /\ handlerOf[heap[f]] = cur[Acceptor] /\ life[cur[Acceptor]] = "new"
        /\ \A l \in Threads : \A i \in Nat : Open(l, i) => Target(l, i) # cur[Acceptor]

\* A handler that closes is open on the loop that closes it.
Removing == \A l \in Threads : at[l] = "removing" => cur[l] \in Handlers /\ life[cur[l]] = l

Counted ==
    /\ IsFiniteSet(Live) /\ Len(clients_) + (IF Pend THEN 1 ELSE 0) = Cardinality(Live) + stale
    /\ Len(clients_) <= MaxClients

\* On one thread every live handler has its slot, or is about to get it.
OneThread ==
    pool = {} => /\ stale = 0
                 /\ \A h \in Live : InSeq(h, clients_) \/ (Pend /\ h = cur[Acceptor])

SlotInv == ClientsTyped /\ Waiting /\ Making /\ Removing /\ Counted /\ OneThread

LEMMA SlotInitInv == ASSUME Init PROVE SlotInv
<1>1. /\ life = [h \in Handlers |-> "free"] /\ cur = [l \in Threads |-> 0] /\ clients_ = <<>>
      /\ touching = {} /\ raced = FALSE /\ stale = 0 /\ pushed = [l \in Threads |-> <<>>]
      /\ at = [t \in Threads |-> "idle"]
  BY DEF Init, SocketInit
<1>2. ClientsTyped
  <2>1. life \in [Handlers -> {"free", "new"} \cup Threads]
    BY <1>1
  <2>2. cur \in [Threads -> Handlers \cup {0}]
    BY <1>1
  <2>3. clients_ \in Seq(Handlers)
    BY <1>1
  <2>4. touching \in SUBSET Threads /\ stale \in Nat
    BY <1>1
  <2>5. raced \in BOOLEAN
    BY <1>1
  <2> QED
    BY <2>1, <2>2, <2>3, <2>4, <2>5 DEF ClientsTyped
<1>3. Live = {} /\ ~Pend
  BY <1>1 DEF Live, Pend
<1>4. Waiting /\ Making /\ Removing
  BY <1>1, <1>3 DEF Waiting, Making, Removing, Open, Pend
<1>5. Counted
  <2>1. Len(clients_) = 0 /\ MaxClients \in Nat
    BY <1>1
  <2> QED
    BY <1>1, <1>3, <2>1, FS_EmptySet DEF Counted
<1>6. OneThread
  BY <1>1, <1>3 DEF OneThread
<1> QED
  BY <1>2, <1>4, <1>5, <1>6 DEF SlotInv

\* A step that touches neither handlers nor slots nor what the loops have to run.
LEMMA SlotFrame ==
  ASSUME SlotInv, UNCHANGED <<pool, handlerOf, life, cur, clients_, stale, pushed, called>>, ClientsTyped',
         Pend' <=> Pend, \A l \in Threads : at'[l] = "removing" => at[l] = "removing",
         at'[Acceptor] \in {"push", "pushing"} => at[Acceptor] \in {"push", "pushing"} /\ heap'[f'] = heap[f]
  PROVE  SlotInv'
<1>1. Live' = Live
  BY DEF Live
<1>2. \A l, i : Target(l, i)' = Target(l, i) /\ (Open(l, i)' <=> Open(l, i))
  BY DEF Target, Open
<1>3. Waiting'
  BY <1>2 DEF SlotInv, Waiting
<1>4. Making'
  <2>1. Pend' => cur'[Acceptor] \in Handlers /\ Len(clients_') < MaxClients
    BY DEF SlotInv, Making
  <2>2. ASSUME at'[Acceptor] \in {"push", "pushing"}
        PROVE  /\ handlerOf'[heap'[f']] = cur'[Acceptor] /\ life'[cur'[Acceptor]] = "new"
               /\ \A l \in Threads : \A i \in Nat : Open(l, i)' => Target(l, i)' # cur'[Acceptor]
    BY <1>2, <2>2 DEF SlotInv, Making
  <2> QED
    BY <2>1, <2>2 DEF Making
<1>5. Removing'
  BY DEF SlotInv, Removing
<1>6. Counted'
  BY <1>1 DEF SlotInv, Counted
<1>7. OneThread'
  <2>1. OneThread
    BY DEF SlotInv
  <2> QED
    BY <1>1, <2>1 DEF OneThread, InSeq
<1> QED
  BY <1>3, <1>4, <1>5, <1>6, <1>7 DEF SlotInv

LEMMA MakeHandlerSlots ==
  ASSUME SocketInv, FunctorInv, SlotInv, MakeHandler
  PROVE  SlotInv'
<1> DEFINE s == sock[Acceptor]
<1>0. PICK h \in Handlers : /\ FreeAddress(h) /\ life' = [life EXCEPT ![h] = "new"]
                            /\ handlerOf' = [handlerOf EXCEPT ![s] = h]
                            /\ cur' = [cur EXCEPT ![Acceptor] = h]
  BY DEF MakeHandler
<1>1. /\ Acceptor \in Threads /\ at[Acceptor] = "accepted" /\ at' = [at EXCEPT ![Acceptor] = "push"]
      /\ at \in [Threads -> At] /\ ~Full
      /\ UNCHANGED <<pool, pushed, called, clients_, touching, raced, stale>>
  BY DEF MakeHandler, Go, SocketInv, SocketsTyped
<1>2. s \in Fds /\ handlerOf[s] = 0 /\ handlerOf \in [Fds -> Handlers \cup {0}]
  BY <1>1, CallHolds DEF InCall, SocketInv, SocketsTyped
<1>3. /\ life[h] = "free" /\ \A g \in Handlers : life'[g] = IF g = h THEN "new" ELSE life[g]
      /\ \A l \in Threads : cur'[l] = IF l = Acceptor THEN h ELSE cur[l]
  BY <1>0 DEF FreeAddress, SlotInv, ClientsTyped
<1>4. heap'[f'] = s
  <2>1. PICK c \in Clones : f' = c /\ heap' = [heap EXCEPT ![c] = s]
    BY DEF MakeHandler
  <2> QED
    BY <2>1 DEF FunctorInv, FunctorsTyped
<1> HIDE DEF s
<1>5. ASSUME NEW l \in Threads, NEW i \in Nat, Open(l, i)'
      PROVE  /\ Open(l, i) /\ Target(l, i)' = Target(l, i) /\ Target(l, i) \in Handlers
             /\ Target(l, i) # h /\ life'[Target(l, i)] = "new"
  <2>1. Open(l, i)
    BY <1>1, <1>5 DEF Open
  <2>2. Target(l, i) \in Handlers /\ life[Target(l, i)] = "new"
    BY <2>1 DEF SlotInv, Waiting
  <2>3. pushed[l][i] \in Fds
    <3>1. pushed[l] \in Seq(Fds)
      BY DEF FunctorInv, FunctorsTyped
    <3> QED
      BY <2>1, <3>1, ElementOfSeq DEF Open
  <2>4. pushed[l][i] # s
    BY <1>2, <2>2 DEF Target
  <2>5. Target(l, i)' = Target(l, i)
    BY <1>0, <1>1, <1>2, <2>3, <2>4 DEF Target
  <2> QED
    BY <1>3, <2>1, <2>2, <2>5
<1>6. ClientsTyped'
  BY <1>0, <1>1 DEF SlotInv, ClientsTyped
<1>7. Waiting'
  <2>1. ASSUME NEW l \in Threads, NEW i \in Nat, Open(l, i)'
        PROVE  Target(l, i)' \in Handlers /\ life'[Target(l, i)'] = "new"
    BY <1>5, <2>1
  <2>2. ASSUME NEW l \in Threads, NEW k \in Threads, NEW i \in Nat, NEW j \in Nat,
               Open(l, i)', Open(k, j)', Target(l, i)' = Target(k, j)'
        PROVE  l = k /\ i = j
    <3>1. Open(l, i) /\ Open(k, j) /\ Target(l, i) = Target(k, j)
      BY <1>5, <2>2
    <3> QED
      BY <3>1 DEF SlotInv, Waiting
  <2> QED
    BY <2>1, <2>2 DEF Waiting
<1>8. Making'
  <2>1. Len(clients_') < MaxClients
    BY <1>1 DEF Full, SlotInv, ClientsTyped
  <2>2. handlerOf'[heap'[f']] = h
    BY <1>0, <1>2, <1>4
  <2>3. cur'[Acceptor] = h /\ life'[h] = "new"
    BY <1>1, <1>3
  <2> QED
    BY <1>5, <2>1, <2>2, <2>3 DEF Making
<1>9. Removing'
  <2>1. ASSUME NEW l \in Threads, at'[l] = "removing" PROVE cur'[l] \in Handlers /\ life'[cur'[l]] = l
    <3>1. l # Acceptor /\ at[l] = "removing"
      BY <1>1, <2>1
    <3>2. cur[l] \in Handlers /\ life[cur[l]] = l
      BY <3>1 DEF SlotInv, Removing
    <3>3. cur[l] # h
      BY <1>3, <3>2
    <3> QED
      BY <1>3, <3>1, <3>2, <3>3
  <2> QED
    BY <2>1 DEF Removing
<1>10. Live' = Live \cup {h} /\ h \notin Live /\ ~Pend /\ Pend'
  BY <1>1, <1>3 DEF Live, Pend
<1>11. Counted'
  <2>1. IsFiniteSet(Live) /\ Len(clients_) = Cardinality(Live) + stale /\ Cardinality(Live) \in Nat /\ stale \in Nat
    <3>1. IsFiniteSet(Live) /\ stale \in Nat /\ Len(clients_) \in Nat
      BY DEF SlotInv, Counted, ClientsTyped
    <3>2. Cardinality(Live) \in Nat
      BY <3>1, FS_CardinalityType
    <3>3. Len(clients_) + 0 = Cardinality(Live) + stale
      BY <1>10 DEF SlotInv, Counted
    <3> QED
      BY <3>1, <3>2, <3>3
  <2>2. IsFiniteSet(Live') /\ Cardinality(Live') = Cardinality(Live) + 1
    BY <1>10, <2>1, FS_AddElement
  <2>3. Len(clients_') <= MaxClients
    BY <1>1 DEF SlotInv, Counted
  <2> QED
    BY <1>1, <1>10, <2>1, <2>2, <2>3 DEF Counted
<1>12. OneThread'
  BY <1>1, <1>3, <1>10 DEF SlotInv, OneThread
<1> QED
  BY <1>6, <1>7, <1>8, <1>9, <1>11, <1>12 DEF SlotInv

LEMMA PushSlots ==
  ASSUME SocketInv, FunctorInv, SlotInv, PushEnd
  PROVE  SlotInv'
<1>1. /\ Acceptor \in Threads /\ to \in Threads /\ at[Acceptor] = "pushing"
      /\ at' = [at EXCEPT ![Acceptor] = "append"] /\ at \in [Threads -> At]
      /\ pushed' = [pushed EXCEPT ![to] = Append(@, heap[f])]
      /\ UNCHANGED <<pool, called, handlerOf, life, cur, clients_, touching, raced, stale>>
  BY DEF PushEnd, Go, SocketInv, SocketsTyped, FunctorInv, FunctorsTyped, sockVars, clientVars
<1>2. \A l \in Threads : pushed[l] \in Seq(Fds)
  BY DEF FunctorInv, FunctorsTyped
<1>3. heap[f] \in Fds
  <2>1. f # 0
    BY <1>1 DEF FunctorInv, FunctorsWhere
  <2> QED
    BY <2>1 DEF FunctorInv, Bound
<1> DEFINE n == Len(pushed[to]) + 1
<1>4. ASSUME NEW l \in Threads, NEW i \in Nat, Open(l, i)'
      PROVE  \/ Open(l, i) /\ Target(l, i)' = Target(l, i)
             \/ l = to /\ i = n /\ Target(l, i)' = cur[Acceptor]
  <2>1. CASE l # to
    BY <1>1, <1>4, <2>1 DEF Open, Target, FunctorInv, FunctorsTyped
  <2>2. CASE l = to
    <3>1. pushed'[l] = Append(pushed[l], heap[f])
      BY <1>1, <2>2 DEF FunctorInv, FunctorsTyped
    <3>2. /\ DOMAIN pushed'[l] = 1..n /\ DOMAIN pushed[l] = 1..(n - 1) /\ n \in Nat \ {0}
          /\ \A j \in 1..(n - 1) : pushed'[l][j] = pushed[l][j]
          /\ pushed'[l][n] = heap[f]
      BY <1>2, <1>3, <2>2, <3>1
    <3>3. called'[l] = called[l] /\ i \in 1..n /\ i > Len(called[l])
      BY <1>1, <1>4, <3>2 DEF Open
    <3>4. CASE i = n
      BY <1>1, <2>2, <3>2, <3>4 DEF Target, SlotInv, Making
    <3>5. CASE i # n
      <4>1. i \in 1..(n - 1)
        BY <3>2, <3>3, <3>5
      <4> QED
        BY <1>1, <3>2, <3>3, <4>1 DEF Open, Target
    <3> QED
      BY <3>4, <3>5
  <2> QED
    BY <2>1, <2>2
<1> HIDE DEF n
<1>5. /\ cur[Acceptor] \in Handlers /\ life[cur[Acceptor]] = "new"
      /\ \A l \in Threads : \A i \in Nat : Open(l, i) => Target(l, i) # cur[Acceptor]
  BY <1>1 DEF SlotInv, Making, Pend
<1>6. Waiting'
  <2>1. ASSUME NEW l \in Threads, NEW i \in Nat, Open(l, i)'
        PROVE  Target(l, i)' \in Handlers /\ life'[Target(l, i)'] = "new"
    BY <1>1, <1>4, <1>5, <2>1 DEF SlotInv, Waiting
  <2>2. ASSUME NEW l \in Threads, NEW k \in Threads, NEW i \in Nat, NEW j \in Nat,
               Open(l, i)', Open(k, j)', Target(l, i)' = Target(k, j)'
        PROVE  l = k /\ i = j
    BY <1>4, <1>5, <2>2 DEF SlotInv, Waiting
  <2> QED
    BY <2>1, <2>2 DEF Waiting
<1>7. Pend /\ Pend' /\ Live' = Live
  BY <1>1 DEF Pend, Live
<1>8. ClientsTyped' /\ Making' /\ Removing'
  <2>1. ClientsTyped'
    BY <1>1 DEF SlotInv, ClientsTyped
  <2>2. Making'
    BY <1>1, <1>7 DEF SlotInv, Making
  <2>3. Removing'
    BY <1>1 DEF SlotInv, Removing
  <2> QED
    BY <2>1, <2>2, <2>3
<1>9. Counted' /\ OneThread'
  BY <1>1, <1>7 DEF SlotInv, Counted, OneThread
<1> QED
  BY <1>6, <1>8, <1>9 DEF SlotInv

\* push_back gives the pending handler its slot.
LEMMA AppendSlots ==
  ASSUME SocketInv, FunctorInv, SlotInv, AppendBegin \/ AppendEnd
  PROVE  SlotInv'
<1>1. Acceptor \in Threads /\ at \in [Threads -> At]
  BY DEF SocketInv, SocketsTyped
<1>2. CASE AppendBegin
  <2>1. /\ at[Acceptor] = "append" /\ at' = [at EXCEPT ![Acceptor] = "appending"]
        /\ touching' = touching \cup {Acceptor} /\ raced' \in BOOLEAN
        /\ UNCHANGED <<pool, handlerOf, life, cur, clients_, stale, pushed, called>>
    BY <1>2 DEF AppendBegin, Go, Touch, sockVars, functorVars
  <2>2. ClientsTyped'
    BY <1>1, <2>1 DEF SlotInv, ClientsTyped
  <2>3. Pend /\ Pend'
    BY <1>1, <2>1 DEF Pend
  <2>4. \A l \in Threads : at'[l] = "removing" => at[l] = "removing"
    BY <1>1, <2>1
  <2>5. at'[Acceptor] \notin {"push", "pushing"}
    BY <1>1, <2>1
  <2> QED
    BY <2>1, <2>2, <2>3, <2>4, <2>5, SlotFrame
<1>3. CASE AppendEnd
  <2> DEFINE h == cur[Acceptor]
  <2>1. /\ at[Acceptor] = "appending" /\ at' = [at EXCEPT ![Acceptor] = "idle"]
        /\ clients_' = Append(clients_, h) /\ touching' = touching \ {Acceptor}
        /\ cur' = [cur EXCEPT ![Acceptor] = 0]
        /\ UNCHANGED <<pool, handlerOf, life, stale, raced, pushed, called>>
    BY <1>3 DEF AppendEnd, Go, sockVars
  <2>2. Pend /\ ~Pend' /\ Live' = Live
    BY <1>1, <2>1 DEF Pend, Live
  <2>3. h \in Handlers /\ Len(clients_) < MaxClients /\ clients_ \in Seq(Handlers)
    BY <2>2 DEF SlotInv, Making, ClientsTyped
  <2> HIDE DEF h
  <2>4. /\ clients_' \in Seq(Handlers) /\ Len(clients_') = Len(clients_) + 1
        /\ InSeq(h, clients_') /\ \A g : InSeq(g, clients_) => InSeq(g, clients_')
    <3>1. clients_' \in Seq(Handlers) /\ Len(clients_') = Len(clients_) + 1 /\ Len(clients_) \in Nat
      BY <2>1, <2>3
    <3>2. clients_'[Len(clients_) + 1] = h /\ \A i \in 1..Len(clients_) : clients_'[i] = clients_[i]
      BY <2>1, <2>3
    <3> QED
      BY <3>1, <3>2 DEF InSeq
  <2>5. ClientsTyped'
    BY <2>1, <2>4 DEF SlotInv, ClientsTyped
  <2>6. Waiting'
    BY <2>1 DEF SlotInv, Waiting, Open, Target
  <2>7. Making'
    BY <1>1, <2>1, <2>2 DEF Making
  <2>8. Removing'
    <3>1. ASSUME NEW l \in Threads, at'[l] = "removing" PROVE cur'[l] \in Handlers /\ life'[cur'[l]] = l
      BY <1>1, <2>1, <3>1 DEF SlotInv, Removing, ClientsTyped
    <3> QED
      BY <3>1 DEF Removing
  <2>9. Counted'
    <3>1. IsFiniteSet(Live) /\ Len(clients_) + 1 = Cardinality(Live) + stale /\ Len(clients_) \in Nat
      BY <2>2, <2>3 DEF SlotInv, Counted
    <3>2. Len(clients_') + 0 = Cardinality(Live) + stale /\ Len(clients_') <= MaxClients
      BY <2>3, <2>4, <3>1
    <3> QED
      BY <2>1, <2>2, <3>1, <3>2 DEF Counted
  <2>10. OneThread'
    <3>1. OneThread
      BY DEF SlotInv
    <3> QED
      BY <2>1, <2>2, <2>4, <3>1 DEF OneThread, h
  <2> QED
    BY <2>5, <2>6, <2>7, <2>8, <2>9, <2>10 DEF SlotInv
<1> QED
  BY <1>2, <1>3

\* The functor that a loop is about to call is the first it has not run.
LEMMA NextCall ==
  ASSUME FunctorInv, CallsInOrder, NEW l \in Threads, at[l] = "call"
  PROVE  Open(l, Len(called[l]) + 1) /\ pushed[l][Len(called[l]) + 1] = heap[fun[l]]
<1>1. PICK p \in Seq(Fds) : p = pushed[l]
  BY DEF FunctorInv, FunctorsTyped
<1>2. PICK q \in Seq(Fds) : q = called[l]
  BY DEF FunctorInv, FunctorsTyped
<1>3. PICK x : x = heap[fun[l]]
  OBVIOUS
<1>4. PICK b : b = [i \in DOMAIN functors_[l] |-> heap[functors_[l][i]]]
  OBVIOUS
<1>5. p = q \o <<x>> \o b
  BY <1>1, <1>2, <1>3, <1>4 DEF CallsInOrder
<1>6. Len(b) \in Nat
  <2>1. functors_[l] \in Seq(Clones)
    BY DEF FunctorInv, FunctorsTyped
  <2>2. DOMAIN b = 1..Len(functors_[l]) /\ Len(functors_[l]) \in Nat
    BY <1>4, <2>1
  <2> QED
    BY <2>2
<1>7. Len(q) + 1 \in 1..Len(p) /\ p[Len(q) + 1] = x
  BY <1>5, <1>6
<1>8. DOMAIN p = 1..Len(p) /\ Len(q) \in Nat
  BY <1>1, <1>2
<1> QED
  BY <1>1, <1>2, <1>3, <1>7, <1>8 DEF Open

\* open() puts its handler on the loop that runs it.
LEMMA CallSlots ==
  ASSUME SocketInv, FunctorInv, CallsInOrder, SlotInv, NEW l \in Threads, Call(l)
  PROVE  SlotInv'
<1> DEFINE n == Len(called[l]) + 1
           h == handlerOf[heap[fun[l]]]
<1>1. /\ at[l] = "call" /\ at' = [at EXCEPT ![l] = "pop"] /\ at \in [Threads -> At]
      /\ called' = [called EXCEPT ![l] = Append(@, heap[fun[l]])] /\ life' = [life EXCEPT ![h] = l]
      /\ UNCHANGED <<pool, handlerOf, heap, f, pushed, cur, clients_, touching, raced, stale>>
  BY DEF Call, Go, SocketInv, SocketsTyped, sockVars
<1>2. Open(l, n) /\ Target(l, n) = h /\ n \in Nat
  <2>1. called[l] \in Seq(Fds)
    BY DEF FunctorInv, FunctorsTyped
  <2> QED
    BY <1>1, <2>1, NextCall DEF Target
<1>3. h \in Handlers /\ life[h] = "new"
  BY <1>2 DEF SlotInv, Waiting
<1>4. \A g \in Handlers : life'[g] = IF g = h THEN l ELSE life[g]
  BY <1>1 DEF SlotInv, ClientsTyped
<1> HIDE DEF h
<1>5. ASSUME NEW k \in Threads, NEW i \in Nat, Open(k, i)'
      PROVE  Open(k, i) /\ Target(k, i)' = Target(k, i) /\ Target(k, i) # h
  <2>1. Len(called'[k]) = IF k = l THEN n ELSE Len(called[k])
    <3>1. called[l] \in Seq(Fds) /\ called \in [Threads -> Seq(Fds)]
      BY DEF FunctorInv, FunctorsTyped
    <3> QED
      BY <1>1, <3>1
  <2>2. Open(k, i) /\ ~(k = l /\ i = n)
    <3>1. pushed' = pushed
      BY <1>1
    <3>2. i \in DOMAIN pushed[k] /\ i > Len(called'[k])
      BY <1>5, <3>1 DEF Open
    <3>3. Len(called[k]) \in Nat
      <4>1. called[k] \in Seq(Fds)
        BY DEF FunctorInv, FunctorsTyped
      <4> QED
        BY <4>1
    <3>4. i > Len(called[k]) /\ ~(k = l /\ i = n)
      BY <1>2, <2>1, <3>2, <3>3
    <3> QED
      BY <3>2, <3>4 DEF Open
  <2>3. Target(k, i)' = Target(k, i)
    BY <1>1 DEF Target
  <2> QED
    BY <1>2, <2>2, <2>3 DEF SlotInv, Waiting
<1> HIDE DEF n
<1>6. ClientsTyped'
  BY <1>1 DEF SlotInv, ClientsTyped
<1>7. Waiting'
  <2>1. ASSUME NEW k \in Threads, NEW i \in Nat, Open(k, i)'
        PROVE  Target(k, i)' \in Handlers /\ life'[Target(k, i)'] = "new"
    <3>1. Open(k, i) /\ Target(k, i)' = Target(k, i) /\ Target(k, i) # h
      BY <1>5, <2>1
    <3>2. Target(k, i) \in Handlers /\ life[Target(k, i)] = "new"
      BY <3>1 DEF SlotInv, Waiting
    <3> QED
      BY <1>4, <3>1, <3>2
  <2>2. ASSUME NEW k \in Threads, NEW m \in Threads, NEW i \in Nat, NEW j \in Nat,
               Open(k, i)', Open(m, j)', Target(k, i)' = Target(m, j)'
        PROVE  k = m /\ i = j
    BY <1>5, <2>2 DEF SlotInv, Waiting
  <2> QED
    BY <2>1, <2>2 DEF Waiting
<1>8. Pend' <=> Pend
  BY <1>1 DEF Pend
<1>9. Making'
  <2>1. Pend' => cur'[Acceptor] \in Handlers /\ Len(clients_') < MaxClients
    BY <1>1, <1>8 DEF SlotInv, Making
  <2>2. ASSUME at'[Acceptor] \in {"push", "pushing"}
        PROVE  /\ handlerOf'[heap'[f']] = cur'[Acceptor] /\ life'[cur'[Acceptor]] = "new"
               /\ \A k \in Threads : \A i \in Nat : Open(k, i)' => Target(k, i)' # cur'[Acceptor]
    <3>1. /\ at[Acceptor] \in {"push", "pushing"} /\ Pend
          /\ handlerOf[heap[f]] = cur[Acceptor] /\ life[cur[Acceptor]] = "new" /\ cur[Acceptor] \in Handlers
          /\ \A k \in Threads : \A i \in Nat : Open(k, i) => Target(k, i) # cur[Acceptor]
      BY <1>1, <2>2 DEF SlotInv, Making, Pend
    <3>2. cur[Acceptor] # h
      BY <1>2, <3>1
    <3> QED
      BY <1>1, <1>4, <1>5, <3>1, <3>2
  <2> QED
    BY <2>1, <2>2 DEF Making
<1>10. Removing'
  <2>1. ASSUME NEW k \in Threads, at'[k] = "removing" PROVE cur'[k] \in Handlers /\ life'[cur'[k]] = k
    <3>1. at[k] = "removing" /\ cur[k] \in Handlers /\ life[cur[k]] = k
      BY <1>1, <2>1 DEF SlotInv, Removing
    <3>2. cur[k] # h
      BY <1>3, <3>1
    <3> QED
      BY <1>1, <1>4, <3>1, <3>2
  <2> QED
    BY <2>1 DEF Removing
<1>11. Live' = Live
  BY <1>3, <1>4 DEF Live
<1>12. Counted'
  BY <1>1, <1>8, <1>11 DEF SlotInv, Counted
<1>13. OneThread'
  <2>1. OneThread
    BY DEF SlotInv
  <2> QED
    BY <1>1, <1>8, <1>11, <2>1 DEF OneThread, InSeq
<1> QED
  BY <1>6, <1>7, <1>9, <1>10, <1>12, <1>13 DEF SlotInv

\* A handler that closes is live until remove_handler has returned.
LEMMA RemoveBeginSlots ==
  ASSUME SocketInv, FunctorInv, SlotInv, NEW l \in Loops, l \in Threads, RemoveBegin(l)
  PROVE  SlotInv'
<1>1. PICK h \in Handlers : life[h] = l /\ cur' = [cur EXCEPT ![l] = h]
  BY DEF RemoveBegin
<1>2. /\ at[l] = "idle" /\ at' = [at EXCEPT ![l] = "removing"] /\ at \in [Threads -> At]
      /\ touching' = touching \cup {l} /\ raced' \in BOOLEAN
      /\ UNCHANGED <<pool, handlerOf, life, clients_, stale, heap, f, pushed, called>>
  BY DEF RemoveBegin, Go, Touch, SocketInv, SocketsTyped, sockVars, functorVars
<1>3. \A k \in Threads : cur'[k] = IF k = l THEN h ELSE cur[k]
  BY <1>1 DEF SlotInv, ClientsTyped
<1>4. (Pend' <=> Pend) /\ (Pend => l # Acceptor) /\ Acceptor \in Threads
  BY <1>2 DEF Pend, SocketInv, SocketsTyped
<1>5. ClientsTyped'
  BY <1>1, <1>2 DEF SlotInv, ClientsTyped
<1>6. Waiting'
  BY <1>2 DEF SlotInv, Waiting, Open, Target
<1>7. Making'
  <2>1. CASE Pend
    <3>1. cur'[Acceptor] = cur[Acceptor] /\ at'[Acceptor] = at[Acceptor]
      BY <1>2, <1>3, <1>4, <2>1
    <3> QED
      BY <1>2, <1>4, <2>1, <3>1 DEF SlotInv, Making, Open, Target
  <2>2. CASE ~Pend
    BY <1>4, <2>2 DEF Making, Pend
  <2> QED
    BY <2>1, <2>2
<1>8. Removing'
  BY <1>1, <1>2, <1>3 DEF SlotInv, Removing
<1>9. Live' = Live
  BY <1>2 DEF Live
<1>10. Counted'
  BY <1>2, <1>4, <1>9 DEF SlotInv, Counted
<1>11. OneThread'
  <2>1. OneThread
    BY DEF SlotInv
  <2>2. Pend => cur'[Acceptor] = cur[Acceptor]
    BY <1>3, <1>4
  <2> QED
    BY <1>2, <1>4, <1>9, <2>1, <2>2 DEF OneThread, InSeq
<1> QED
  BY <1>5, <1>6, <1>7, <1>8, <1>10, <1>11 DEF SlotInv

\* remove_handler gives back the slot of the handler that closes, or leaves a stale one.
LEMMA RemoveEndSlots ==
  ASSUME SocketInv, FunctorInv, SlotInv, NEW l \in Loops, l \in Threads, RemoveEnd(l)
  PROVE  SlotInv'
<1> DEFINE h == cur[l]
<1>1. /\ at[l] = "removing" /\ at' = [at EXCEPT ![l] = "idle"] /\ at \in [Threads -> At]
      /\ clients_' = RemoveFirst(clients_, h) /\ stale' = stale + Len(clients_') + 1 - Len(clients_)
      /\ life' = [life EXCEPT ![h] = "free"]
      /\ touching' = touching \ {l} /\ cur' = [cur EXCEPT ![l] = 0]
      /\ UNCHANGED <<pool, handlerOf, heap, f, pushed, called, raced>>
  BY DEF RemoveEnd, Without, Go, SocketInv, SocketsTyped, sockVars, functorVars
<1>2. h \in Handlers /\ life[h] = l
  BY <1>1 DEF SlotInv, Removing
<1> HIDE DEF h
<1>3. /\ \A k \in Threads : cur'[k] = IF k = l THEN 0 ELSE cur[k]
      /\ \A g \in Handlers : life'[g] = IF g = h THEN "free" ELSE life[g]
  BY <1>1 DEF SlotInv, ClientsTyped
<1>4. (Pend' <=> Pend) /\ (Pend => l # Acceptor) /\ Acceptor \in Threads
  BY <1>1 DEF Pend, SocketInv, SocketsTyped
<1>5. /\ clients_' \in Seq(Handlers) /\ Len(clients_') \in Nat /\ Len(clients_) \in Nat
      /\ Len(clients_') \in {Len(clients_), Len(clients_) - 1}
      /\ InSeq(h, clients_) => Len(clients_') = Len(clients_) - 1
      /\ \A g : g # h /\ InSeq(g, clients_) => InSeq(g, clients_')
  <2>1. clients_ \in Seq(Handlers)
    BY DEF SlotInv, ClientsTyped
  <2>2. /\ clients_' \in Seq(Handlers)
        /\ InSeq(h, clients_) => Len(clients_') = Len(clients_) - 1
        /\ ~InSeq(h, clients_) => clients_' = clients_
        /\ \A g : g # h /\ InSeq(g, clients_) => InSeq(g, clients_')
    BY <1>1, <2>1, RemoveFirstFacts
  <2> QED
    BY <2>1, <2>2, LenProperties
<1>6. stale' \in Nat
  <2>1. stale \in Nat
    BY DEF SlotInv, ClientsTyped
  <2> QED
    BY <1>1, <1>5, <2>1
<1>7. ClientsTyped'
  BY <1>1, <1>5, <1>6 DEF SlotInv, ClientsTyped
<1>8. \A g \in Handlers : life[g] = "new" => g # h /\ life'[g] = "new"
  BY <1>2, <1>3
<1>9. Waiting'
  <2>1. \A k \in Threads : \A i \in Nat : /\ Target(k, i)' = Target(k, i)
                                          /\ Open(k, i)' <=> Open(k, i)
    BY <1>1 DEF Target, Open
  <2>2. ASSUME NEW k \in Threads, NEW i \in Nat, Open(k, i)'
        PROVE  Target(k, i)' \in Handlers /\ life'[Target(k, i)'] = "new"
    <3>1. Open(k, i) /\ Target(k, i)' = Target(k, i)
      BY <2>1, <2>2
    <3>2. Target(k, i) \in Handlers /\ life[Target(k, i)] = "new"
      BY <3>1 DEF SlotInv, Waiting
    <3> QED
      BY <1>8, <3>1, <3>2
  <2>3. ASSUME NEW k \in Threads, NEW m \in Threads, NEW i \in Nat, NEW j \in Nat,
               Open(k, i)', Open(m, j)', Target(k, i)' = Target(m, j)'
        PROVE  k = m /\ i = j
    <3>1. Open(k, i) /\ Open(m, j) /\ Target(k, i) = Target(m, j)
      BY <2>1, <2>3
    <3> QED
      BY <3>1 DEF SlotInv, Waiting
  <2> QED
    BY <2>2, <2>3 DEF Waiting
<1>10. Making'
  <2>1. CASE Pend
    <3>1. cur'[Acceptor] = cur[Acceptor] /\ at'[Acceptor] = at[Acceptor] /\ Len(clients_') <= Len(clients_)
      BY <1>1, <1>3, <1>4, <1>5, <2>1
    <3>2. cur[Acceptor] \in Handlers /\ Len(clients_) < MaxClients /\ MaxClients \in Nat
      BY <2>1, ServerAssumption DEF SlotInv, Making
    <3>3. Len(clients_') < MaxClients
      BY <1>5, <3>1, <3>2
    <3>4. ASSUME at[Acceptor] \in {"push", "pushing"}
          PROVE  /\ handlerOf'[heap'[f']] = cur[Acceptor] /\ life'[cur[Acceptor]] = "new"
                 /\ \A k \in Threads : \A i \in Nat : Open(k, i)' => Target(k, i)' # cur[Acceptor]
      BY <1>1, <1>8, <3>2, <3>4 DEF SlotInv, Making, Open, Target
    <3> QED
      BY <3>1, <3>2, <3>3, <3>4 DEF Making
  <2>2. CASE ~Pend
    BY <1>4, <2>2 DEF Making, Pend
  <2> QED
    BY <2>1, <2>2
<1>11. Removing'
  <2>1. ASSUME NEW k \in Threads, at'[k] = "removing" PROVE cur'[k] \in Handlers /\ life'[cur'[k]] = k
    <3>1. k # l /\ at[k] = "removing"
      BY <1>1, <2>1
    <3>2. cur[k] \in Handlers /\ life[cur[k]] = k
      BY <3>1 DEF SlotInv, Removing
    <3>3. cur[k] # h
      BY <1>2, <3>1, <3>2
    <3> QED
      BY <1>3, <3>1, <3>2, <3>3
  <2> QED
    BY <2>1 DEF Removing
<1>12. Live' = Live \ {h} /\ h \in Live
  BY <1>2, <1>3, ServerAssumption DEF Live
<1>13. Counted'
  <2> DEFINE p == IF Pend THEN 1 ELSE 0
  <2>1. /\ IsFiniteSet(Live) /\ Len(clients_) + p = Cardinality(Live) + stale
        /\ Len(clients_) <= MaxClients /\ stale \in Nat /\ p \in Nat
    BY DEF SlotInv, Counted, ClientsTyped
  <2>2. IsFiniteSet(Live') /\ Cardinality(Live') = Cardinality(Live) - 1 /\ Cardinality(Live) \in Nat
    BY <1>12, <2>1, FS_RemoveElement, FS_CardinalityType
  <2>3. p' = p
    BY <1>4
  <2> HIDE DEF p
  <2>4. Len(clients_') + p = Cardinality(Live') + stale'
    <3>1. /\ Cardinality(Live) \in Nat /\ Cardinality(Live') = Cardinality(Live) - 1
          /\ Len(clients_) + p = Cardinality(Live) + stale
          /\ stale' = stale + Len(clients_') + 1 - Len(clients_)
          /\ Len(clients_') \in Nat /\ Len(clients_) \in Nat /\ stale \in Nat /\ p \in Nat
      BY <1>1, <1>5, <2>1, <2>2
    <3>2. PICK a, b, c, d : a = Cardinality(Live) /\ b = Cardinality(Live') /\ c = Len(clients_) /\ d = Len(clients_')
      OBVIOUS
    <3>3. /\ a \in Nat /\ b = a - 1 /\ c + p = a + stale /\ stale' = stale + d + 1 - c
          /\ d \in Nat /\ c \in Nat /\ stale \in Nat /\ p \in Nat
      BY <3>1, <3>2, Zenon
    <3>4. d + p = b + stale'
      BY <3>3
    <3> QED
      BY <3>2, <3>4, Zenon
  <2>5. Len(clients_') <= MaxClients
    BY <1>5, <2>1, ServerAssumption
  <2> QED
    BY <2>2, <2>3, <2>4, <2>5 DEF Counted, p
<1>14. OneThread'
  <2>1. SUFFICES ASSUME pool = {}
                 PROVE  stale' = 0 /\ \A g \in Live' : InSeq(g, clients_') \/ (Pend' /\ g = cur'[Acceptor])
    BY <1>1 DEF OneThread
  <2>2. l = Acceptor /\ ~Pend
    BY <1>4, <2>1 DEF Loops
  <2>3. stale = 0 /\ \A g \in Live : InSeq(g, clients_)
    BY <2>1, <2>2 DEF SlotInv, OneThread
  <2>4. stale' = 0
    BY <1>1, <1>5, <1>12, <2>3
  <2> QED
    BY <1>5, <1>12, <2>3, <2>4
<1> QED
  BY <1>7, <1>9, <1>10, <1>11, <1>13, <1>14 DEF SlotInv

\* The loops leave the functor of on_accept as it is.
LEMMA OnAcceptKeeps ==
  ASSUME FunctorInv, at[Acceptor] \in {"push", "pushing"}, NEW l \in Threads,
         DrainBegin(l) \/ PopBegin(l) \/ PopTakes(l) \/ PopEmpty(l)
  PROVE  heap'[f] = heap[f]
<1>1. f \in Clones /\ heap \in [Clones -> Fds \cup {0, Free}]
  BY DEF FunctorInv, FunctorsTyped, FunctorsWhere
<1>2. \A c \in Clones : Fresh(c) => c # f
  BY FreshIsUnheld
<1>3. CASE DrainBegin(l)
  BY <1>1, <1>2, <1>3 DEF DrainBegin
<1>4. CASE PopBegin(l)
  BY <1>4 DEF PopBegin
<1>5. CASE PopTakes(l)
  <2>1. seen[l] = functors_[l] /\ seen[l] # <<>>
    BY <1>5 DEF PopTakes, Go, FunctorInv, Locked, Inside
  <2>2. PICK q \in Seq(Clones) : q = functors_[l]
    BY DEF FunctorInv, FunctorsTyped
  <2>3. Head(q) = q[1] /\ 1 \in DOMAIN q
    BY <2>1, <2>2
  <2>4. Head(seen[l]) # f
    BY <2>1, <2>2, <2>3, Acceptor \in Threads DEF FunctorInv, Apart
  <2>5. PICK c \in Clones : Fresh(c) /\ heap' = Copied(c, Head(seen[l]), {Head(seen[l])})
    BY <1>5 DEF PopTakes
  <2> QED
    BY <1>1, <1>2, <2>4, <2>5 DEF Copied
<1>6. CASE PopEmpty(l)
  <2>1. fun[l] # f
    BY <1>1, <1>6 DEF PopEmpty, Go, FunctorInv, FunctorsWhere, Apart
  <2> QED
    BY <1>1, <1>6, <2>1 DEF PopEmpty
<1> QED
  BY <1>3, <1>4, <1>5, <1>6

LEMMA SlotStepInv ==
  ASSUME SocketInv, FunctorInv, CallsInOrder, SlotInv, [Next]_vars
  PROVE  SlotInv'
<1>0. at \in [Threads -> At] /\ Acceptor \in Threads /\ Loops \subseteq Threads
  BY DEF SocketInv, SocketsTyped, Loops
<1>1. CASE UNCHANGED vars
  <2>1. /\ UNCHANGED <<pool, at, handlerOf, life, cur, clients_, stale, touching, raced>>
        /\ UNCHANGED <<heap, f, pushed, called>>
    BY <1>1 DEF vars, sockVars, functorVars, clientVars
  <2>2. ClientsTyped' /\ (Pend' <=> Pend)
    BY <2>1 DEF SlotInv, ClientsTyped, Pend
  <2> QED
    BY <2>1, <2>2, SlotFrame
<1>2. ASSUME NEW t \in Threads, NEW from \in At \ {"call"}, NEW next \in At \ {"removing"},
             at[t] = from, at' = [at EXCEPT ![t] = next],
             UNCHANGED <<pool, pushed, called, clientVars>>,
             t = Acceptor =>
               \/ from = "push" /\ next = "pushing" /\ UNCHANGED <<heap, f>>
               \/ {from, next} \cap {"push", "pushing", "append", "appending"} = {},
             at[Acceptor] \in {"push", "pushing"} => heap'[f'] = heap[f]
      PROVE  SlotInv'
  <2>1. UNCHANGED <<handlerOf, life, cur, clients_, touching, raced, stale>>
    BY <1>2 DEF clientVars
  <2>2. ClientsTyped'
    BY <2>1 DEF SlotInv, ClientsTyped
  <2>3. Pend' <=> Pend
    BY <1>0, <1>2 DEF Pend
  <2>4. \A l \in Threads : at'[l] = "removing" => at[l] = "removing"
    BY <1>0, <1>2
  <2>5. at'[Acceptor] \in {"push", "pushing"} => at[Acceptor] \in {"push", "pushing"} /\ heap'[f'] = heap[f]
    BY <1>0, <1>2
  <2> QED
    BY <1>2, <2>1, <2>2, <2>3, <2>4, <2>5, SlotFrame
<1>3. CASE SocketNext /\ UNCHANGED <<functorVars, clientVars>>
  <2>1. PICK t \in Connectors \cup {Acceptor} :
          \/ Begin(t) \/ Socket(t) \/ (t = Acceptor /\ (Bind \/ Listen \/ Register \/ CloseListener \/ Unregister))
          \/ t \in Connectors /\ (Unresolved(t) \/ SetNonblock(t) \/ Connect(t) \/ Disconnect(t))
    BY <1>3 DEF SocketNext, AcceptorCall
  <2>2. PICK from, next \in {"idle", "socket", "bind", "listen", "register", "close", "fcntl", "connect", "done"} :
          at[t] = from /\ at' = [at EXCEPT ![t] = next]
    BY <2>1 DEF Begin, Socket, Bind, Listen, Register, CloseListener, Unregister, Unresolved, SetNonblock,
                Connect, Disconnect, Calls, Error, Return, Go
  <2>3. pool' = pool
    BY <2>1 DEF Begin, Socket, Bind, Listen, Register, CloseListener, Unregister, Unresolved, SetNonblock,
                Connect, Disconnect, Calls, sockVars
  <2>4. t \in Threads
    BY <1>0
  <2>5. UNCHANGED <<heap, f, pushed, called>>
    BY <1>3 DEF functorVars
  <2> QED
    <3>1. from \in At \ {"call"} /\ next \in At \ {"removing"} /\ {from, next} \cap {"push", "pushing", "append", "appending"} = {}
      BY DEF At
    <3> QED
      BY <1>2, <1>3, <2>2, <2>3, <2>4, <2>5, <3>1
<1>4. CASE Accept \/ Refuse
  <2>1. PICK from, next \in {"accepted", "idle"} : at[Acceptor] = from /\ at' = [at EXCEPT ![Acceptor] = next]
    BY <1>4 DEF Accept, Refuse, Go
  <2>2. UNCHANGED <<pool, heap, f, pushed, called, clientVars>>
    BY <1>4 DEF Accept, Refuse, functorVars
  <2> QED
    <3>1. from \in At \ {"call"} /\ next \in At \ {"removing"} /\ {from, next} \cap {"push", "pushing", "append", "appending"} = {}
      BY DEF At
    <3> QED
      BY <1>0, <1>2, <2>1, <2>2, <3>1
<1>5. CASE PushBegin
  <2>1. at[Acceptor] = "push" /\ at' = [at EXCEPT ![Acceptor] = "pushing"]
        /\ UNCHANGED <<pool, heap, f, pushed, called, clientVars>>
    BY <1>5 DEF PushBegin, Go, sockVars
  <2> QED
    BY <1>0, <1>2, <2>1 DEF At
<1>6. ASSUME NEW l \in Threads, DrainBegin(l) \/ PopBegin(l) \/ PopTakes(l) \/ PopEmpty(l) PROVE SlotInv'
  <2>1. PICK from \in {"idle", "pop", "popping"}, next \in {"idle", "pop", "popping", "call"} :
          at[l] = from /\ at' = [at EXCEPT ![l] = next]
    BY <1>6 DEF DrainBegin, PopBegin, PopTakes, PopEmpty, Go
  <2>2. UNCHANGED <<pool, f, pushed, called, clientVars>>
    BY <1>6 DEF DrainBegin, PopBegin, PopTakes, PopEmpty, sockVars
  <2>3. ASSUME at[Acceptor] \in {"push", "pushing"} PROVE heap'[f] = heap[f]
    BY <1>6, <2>3, OnAcceptKeeps
  <2> QED
    <3>1. from \in At \ {"call"} /\ next \in At \ {"removing"} /\ {from, next} \cap {"push", "pushing", "append", "appending"} = {}
      BY DEF At
    <3>2. at[Acceptor] \in {"push", "pushing"} => heap'[f'] = heap[f]
      BY <2>2, <2>3
    <3>3. UNCHANGED <<pool, pushed, called, clientVars>>
      BY <2>2
    <3> QED
      BY <1>2, <2>1, <3>1, <3>2, <3>3
<1>7. ASSUME NEW l \in Loops, LoopStep(l) \/ RemoveBegin(l) PROVE SlotInv'
  BY <1>0, <1>6, <1>7, CallSlots, RemoveBeginSlots, RemoveEndSlots DEF LoopStep
<1> QED
  BY <1>1, <1>3, <1>4, <1>5, <1>7, MakeHandlerSlots, PushSlots, AppendSlots DEF Next, AcceptorStep, LoopStep

\* remove_handler and on_accept keep clients_ and the handlers in step: every slot
\* is that of a live handler or of one that closed before its slot was appended,
\* and the limit on clients is kept.
THEOREM SlotsCounted == Spec => []SlotsAccounted
<1>1. SlotInv => SlotsAccounted
  <2> SUFFICES ASSUME SlotInv PROVE SlotsAccounted
    OBVIOUS
  <2>1. Counted /\ (pool = {} => stale = 0)
    BY DEF SlotInv, OneThread
  <2> QED
    BY <2>1 DEF SlotsAccounted, Counted, Live, Pend
<1> QED
  BY <1>1, SocketInitInv, SocketStepInv, FunctorInitInv, FunctorStepInv, FunctorsInOrder,
     SlotInitInv, SlotStepInv, PTL DEF Spec

-----------------------------------------------------------------------------
(* Lost clones.                                                             *)

InUse(c) ==
    \/ c = f
    \/ \E l \in Threads : fun[l] = c
    \/ \E l \in Threads : \E i \in DOMAIN functors_[l] : functors_[l][i] = c

LossInv == IsFiniteSet(Lost) /\ IsFiniteSet(Takes) /\ ClonesLostByPop

LEMMA LostAre == Lost = {d \in Clones : heap[d] # Free /\ ~InUse(d)}
<1>1. \A c \in Clones : c \in Held <=> (c = f \/ \E l \in Threads : fun[l] = c)
  BY DEF Held
<1>2. \A c : c \in Queued <=> \E l \in Threads : \E i \in DOMAIN functors_[l] : functors_[l][i] = c
  <2>1. \A l \in Threads : Range(functors_[l]) = {functors_[l][i] : i \in DOMAIN functors_[l]}
    BY DEF Range
  <2> QED
    BY <2>1 DEF Queued
<1> QED
  BY <1>1, <1>2 DEF Lost, InUse

LEMMA LostWillBe == Lost' = {d \in Clones : heap'[d] # Free /\ ~InUse(d)'}
<1>1. (Lost = {d \in Clones : heap[d] # Free /\ ~InUse(d)})'
  BY LostAre, PTL
<1> QED
  BY <1>1

\* A clone comes into use when it is made and stays in use until it is deleted.
LEMMA LossFrame ==
  ASSUME LossInv, Takes' = Takes,
         \A c \in Clones : (heap'[c] # Free /\ ~InUse(c)') <=> (heap[c] # Free /\ ~InUse(c))
  PROVE  LossInv'
<1>1. Lost = {d \in Clones : heap[d] # Free /\ ~InUse(d)}
  BY LostAre
<1>2. Lost' = {d \in Clones : heap'[d] # Free /\ ~InUse(d)'}
  BY LostWillBe
<1>3. Lost' = Lost
  BY <1>1, <1>2
<1> QED
  BY <1>3 DEF LossInv, ClonesLostByPop

LEMMA TakesFrame ==
  ASSUME \A l \in Threads : Len(called'[l]) = Len(called[l]) /\ (at'[l] = "call" <=> at[l] = "call")
  PROVE  Takes' = Takes
BY DEF Takes

\* push: a new clone is made and queued.
LEMMA PushLoses ==
  ASSUME SocketInv, FunctorInv, LossInv, PushEnd
  PROVE  LossInv'
<1>0. PICK c \in Clones : /\ Fresh(c) /\ heap' = Copied(c, f, {})
                          /\ functors_' = [functors_ EXCEPT ![to] = Append(seen[Acceptor], c)]
  BY DEF PushEnd
<1>1. /\ Acceptor \in Threads /\ to \in Threads /\ at \in [Threads -> At]
      /\ at[Acceptor] = "pushing" /\ at' = [at EXCEPT ![Acceptor] = "append"]
      /\ UNCHANGED <<f, fun, to, called>>
  BY DEF PushEnd, Go, SocketInv, SocketsTyped, FunctorInv, FunctorsTyped
<1>2. seen[Acceptor] = functors_[to] /\ f \in Clones /\ heap[f] \in Fds
  <2>1. Inside(Acceptor, to)
    BY <1>1 DEF Inside
  <2>2. seen[Acceptor] = functors_[to]
    BY <1>1, <2>1 DEF FunctorInv, Locked
  <2>3. f # 0
    BY <1>1 DEF FunctorInv, FunctorsWhere
  <2> QED
    BY <2>2, <2>3 DEF FunctorInv, FunctorsTyped, Bound
<1>3. heap[c] = Free /\ c # f /\ \A d \in Clones : heap'[d] = IF d = c THEN heap[f] ELSE heap[d]
  BY <1>0, FreshIsUnheld DEF Copied
<1>4. functors_[to] \in Seq(Clones) /\ functors_'[to] = Append(functors_[to], c)
  BY <1>0, <1>1, <1>2 DEF FunctorInv, FunctorsTyped
<1>5. /\ DOMAIN functors_'[to] = 1..(Len(functors_[to]) + 1) /\ Len(functors_[to]) \in Nat
      /\ DOMAIN functors_[to] = 1..Len(functors_[to])
      /\ functors_'[to][Len(functors_[to]) + 1] = c
      /\ \A i \in DOMAIN functors_[to] : functors_'[to][i] = functors_[to][i]
  BY <1>4
<1>6. \A k \in Threads : k # to => functors_'[k] = functors_[k]
  BY <1>0, <1>1 DEF FunctorInv, FunctorsTyped
<1>7. ASSUME NEW d PROVE (\E l \in Threads : \E i \in DOMAIN functors_'[l] : functors_'[l][i] = d)
                         <=> (d = c \/ \E l \in Threads : \E i \in DOMAIN functors_[l] : functors_[l][i] = d)
  <2>1. ASSUME NEW l \in Threads, NEW i \in DOMAIN functors_'[l]
        PROVE  functors_'[l][i] = c \/ \E j \in DOMAIN functors_[l] : functors_'[l][i] = functors_[l][j]
    <3>1. CASE l = to
      <4>1. i = Len(functors_[to]) + 1 \/ i \in DOMAIN functors_[to]
        BY <1>5, <2>1, <3>1
      <4> QED
        BY <1>5, <3>1, <4>1
    <3>2. CASE l # to
      BY <1>6, <2>1, <3>2
    <3> QED
      BY <3>1, <3>2
  <2>2. ASSUME NEW l \in Threads, NEW i \in DOMAIN functors_[l]
        PROVE  \E j \in DOMAIN functors_'[l] : functors_'[l][j] = functors_[l][i]
    <3>1. CASE l = to
      <4>1. i \in DOMAIN functors_'[to] /\ functors_'[to][i] = functors_[to][i]
        BY <1>5, <2>2, <3>1
      <4> QED
        BY <3>1, <4>1
    <3>2. CASE l # to
      BY <1>6, <2>2, <3>2
    <3> QED
      BY <3>1, <3>2
  <2>3. \E j \in DOMAIN functors_'[to] : functors_'[to][j] = c
    BY <1>5
  <2> QED
    BY <1>1, <2>1, <2>2, <2>3
<1>8. \A d \in Clones : InUse(d)' <=> (InUse(d) \/ d = c)
  BY <1>1, <1>7 DEF InUse
<1>9. Takes' = Takes
  <2>1. \A l \in Threads : at'[l] = "call" <=> at[l] = "call"
    BY <1>1
  <2> QED
    BY <1>1, <2>1, TakesFrame
<1>10. \A d \in Clones : (heap'[d] # Free /\ ~InUse(d)') <=> (heap[d] # Free /\ ~InUse(d))
  BY <1>3, <1>8
<1> QED
  BY <1>9, <1>10, LossFrame

\* MakeHandler and DrainBegin make a clone for a functor object that had none.
LEMMA MakeLoses ==
  ASSUME SocketInv, FunctorInv, LossInv, NEW c \in Clones, Fresh(c), NEW b \in Fds \cup {0},
         heap' = [heap EXCEPT ![c] = b], UNCHANGED <<functors_, called>>,
         \/ MakeHandler /\ f' = c /\ fun' = fun
         \/ \E l \in Threads : DrainBegin(l) /\ fun' = [fun EXCEPT ![l] = c] /\ f' = f
  PROVE  LossInv'
<1>1. at \in [Threads -> At] /\ Acceptor \in Threads /\ fun \in [Threads -> Clones \cup {0}]
  BY DEF SocketInv, SocketsTyped, FunctorInv, FunctorsTyped
<1>2. heap[c] = Free /\ b # Free /\ heap \in [Clones -> Fds \cup {0, Free}]
  BY FreeIsNone, FreshIsUnheld DEF FunctorInv, FunctorsTyped
<1>3. \A l \in Threads : at'[l] = "call" <=> at[l] = "call"
  BY <1>1 DEF MakeHandler, DrainBegin, Go
<1>4. Takes' = Takes
  BY <1>3, TakesFrame
<1>5. \A d \in Clones : InUse(d)' <=> (InUse(d) \/ d = c)
  <2>1. CASE MakeHandler /\ f' = c /\ fun' = fun
    <3>1. f = 0
      BY <2>1 DEF MakeHandler, Go, FunctorInv, FunctorsWhere
    <3> QED
      BY <2>1, <3>1, ServerAssumption DEF InUse
  <2>2. ASSUME NEW l \in Threads, DrainBegin(l), fun' = [fun EXCEPT ![l] = c], f' = f
        PROVE  \A d \in Clones : InUse(d)' <=> (InUse(d) \/ d = c)
    <3>1. fun[l] = 0 /\ fun'[l] = c /\ \A k \in Threads : k # l => fun'[k] = fun[k]
      BY <1>1, <2>2 DEF DrainBegin, Go, FunctorInv, FunctorsWhere
    <3> QED
      BY <2>2, <3>1, ServerAssumption DEF InUse
  <2> QED
    BY <2>1, <2>2
<1>6. \A d \in Clones : (heap'[d] # Free /\ ~InUse(d)') <=> (heap[d] # Free /\ ~InUse(d))
  BY <1>2, <1>5
<1> QED
  BY <1>4, <1>6, LossFrame

\* AppendEnd and PopEmpty delete the clone of a functor object that goes out of scope.
LEMMA ScopeLoses ==
  ASSUME SocketInv, FunctorInv, LossInv, UNCHANGED <<functors_, called>>,
         \/ AppendEnd /\ heap' = [heap EXCEPT ![f] = Free] /\ f' = 0 /\ fun' = fun
         \/ \E l \in Threads : /\ PopEmpty(l) /\ heap' = [heap EXCEPT ![fun[l]] = Free]
                               /\ fun' = [fun EXCEPT ![l] = 0] /\ f' = f
  PROVE  LossInv'
<1>1. /\ at \in [Threads -> At] /\ Acceptor \in Threads /\ fun \in [Threads -> Clones \cup {0}]
      /\ f \in Clones \cup {0} /\ heap \in [Clones -> Fds \cup {0, Free}]
  BY DEF SocketInv, SocketsTyped, FunctorInv, FunctorsTyped
<1>2. \A l \in Threads : at'[l] = "call" <=> at[l] = "call"
  BY <1>1 DEF AppendEnd, PopEmpty, Go
<1>3. Takes' = Takes
  BY <1>2, TakesFrame
<1>4. CASE AppendEnd /\ heap' = [heap EXCEPT ![f] = Free] /\ f' = 0 /\ fun' = fun
  <2>1. f \in Clones
    BY <1>1, <1>4 DEF AppendEnd, Go, FunctorInv, FunctorsWhere
  <2>2. \A d \in Clones : d # f => (InUse(d)' <=> InUse(d))
    BY <1>4, ServerAssumption DEF InUse
  <2>3. InUse(f)
    BY DEF InUse
  <2>4. \A d \in Clones : (heap'[d] # Free /\ ~InUse(d)') <=> (heap[d] # Free /\ ~InUse(d))
    BY <1>1, <1>4, <2>1, <2>2, <2>3
  <2> QED
    BY <1>3, <2>4, LossFrame
<1>5. ASSUME NEW l \in Threads, PopEmpty(l), heap' = [heap EXCEPT ![fun[l]] = Free],
             fun' = [fun EXCEPT ![l] = 0], f' = f
      PROVE  LossInv'
  <2>1. fun[l] \in Clones
    BY <1>1, <1>5 DEF PopEmpty, Go, FunctorInv, FunctorsWhere
  <2>2. \A d \in Clones : d # fun[l] => (InUse(d)' <=> InUse(d))
    BY <1>1, <1>5, ServerAssumption DEF InUse
  <2>3. InUse(fun[l])
    BY DEF InUse
  <2>4. \A d \in Clones : (heap'[d] # Free /\ ~InUse(d)') <=> (heap[d] # Free /\ ~InUse(d))
    BY <1>1, <1>5, <2>1, <2>2, <2>3
  <2> QED
    BY <1>3, <2>4, LossFrame
<1> QED
  BY <1>4, <1>5

\* pop: the clone that fun had is lost, and the front's is deleted.
LEMMA PopTakesLoses ==
  ASSUME SocketInv, FunctorInv, LossInv, NEW l \in Threads, PopTakes(l)
  PROVE  LossInv'
<1>0. PICK c \in Clones : /\ Fresh(c) /\ heap' = Copied(c, Head(seen[l]), {Head(seen[l])})
                          /\ fun' = [fun EXCEPT ![l] = c]
  BY DEF PopTakes
<1>1. /\ at[l] = "popping" /\ at' = [at EXCEPT ![l] = "call"] /\ at \in [Threads -> At]
      /\ seen[l] # <<>> /\ functors_' = [functors_ EXCEPT ![l] = Tail(seen[l])]
      /\ UNCHANGED <<f, called>>
  BY DEF PopTakes, Go, SocketInv, SocketsTyped
<1>2. seen[l] = functors_[l]
  <2>1. Inside(l, l)
    BY <1>1 DEF Inside
  <2> QED
    BY <2>1 DEF FunctorInv, Locked
<1> DEFINE front == Head(functors_[l])
           old == fun[l]
<1>3. /\ heap[c] = Free /\ ~InUse(c)
  BY <1>0, FreshIsUnheld DEF InUse
<1>4. PICK q \in Seq(Clones) : q = functors_[l] /\ q # <<>>
  BY <1>1, <1>2 DEF FunctorInv, FunctorsTyped
<1>5. /\ DOMAIN q = 1..Len(q) /\ Len(q) \in Nat \ {0} /\ front = q[1] /\ DOMAIN Tail(q) = 1..(Len(q) - 1)
      /\ \A i \in 1..(Len(q) - 1) : Tail(q)[i] = q[i + 1]
  BY <1>4
<1>6. functors_'[l] = Tail(q) /\ \A k \in Threads : k # l => functors_'[k] = functors_[k]
  BY <1>1, <1>2, <1>4 DEF FunctorInv, FunctorsTyped
<1>7. front \in Clones /\ InUse(front) /\ heap[front] \in Fds /\ front # c
  <2>1. front \in Clones /\ 1 \in DOMAIN functors_[l] /\ functors_[l][1] = front
    BY <1>4, <1>5
  <2> QED
    BY <1>3, <2>1 DEF InUse, FunctorInv, Bound
<1>8. old \in Clones /\ heap[old] # Free /\ InUse(old) /\ old # front /\ old # c
  <2>1. old \in Clones /\ heap[old] # Free
    BY <1>1 DEF FunctorInv, FunctorsTyped, FunctorsWhere, Bound
  <2>2. 1 \in DOMAIN functors_[l] /\ functors_[l][1] = front
    BY <1>4, <1>5
  <2>3. old # front
    BY <2>2 DEF FunctorInv, Apart
  <2> QED
    BY <1>3, <2>1, <2>3 DEF InUse
<1> HIDE DEF old, front
<1>9. \A d \in Clones : heap'[d] = IF d = front THEN Free ELSE IF d = c THEN heap[front] ELSE heap[d]
  BY <1>0, <1>2 DEF Copied, front
\* what is queued afterwards
<1>10. ASSUME NEW d PROVE (\E k \in Threads : \E i \in DOMAIN functors_'[k] : functors_'[k][i] = d)
                          <=> (d # front /\ \E k \in Threads : \E i \in DOMAIN functors_[k] : functors_[k][i] = d)
  <2>0. 1 \in DOMAIN functors_[l] /\ functors_[l][1] = front
    BY <1>4, <1>5
  <2>1. ASSUME NEW k \in Threads, NEW i \in DOMAIN functors_'[k]
        PROVE  functors_'[k][i] # front /\ \E j \in DOMAIN functors_[k] : functors_'[k][i] = functors_[k][j]
    <3>1. CASE k = l
      <4>0. i \in DOMAIN functors_'[l] /\ i \in 1..(Len(q) - 1)
        BY <1>5, <1>6, <2>1, <3>1
      <4>1. i + 1 \in DOMAIN functors_[l] /\ functors_'[l][i] = functors_[l][i + 1] /\ i + 1 # 1
        BY <1>4, <1>5, <1>6, <4>0
      <4>2. functors_[l][i + 1] # front
        BY <2>0, <4>1 DEF FunctorInv, Apart
      <4> QED
        BY <3>1, <4>1, <4>2
    <3>2. CASE k # l
      BY <1>6, <2>0, <2>1, <3>2 DEF FunctorInv, Apart
    <3> QED
      BY <3>1, <3>2
  <2>2. ASSUME NEW k \in Threads, NEW i \in DOMAIN functors_[k], functors_[k][i] # front
        PROVE  \E j \in DOMAIN functors_'[k] : functors_'[k][j] = functors_[k][i]
    <3>1. CASE k = l
      <4>1. i \in 1..Len(q) /\ i # 1
        BY <1>4, <1>5, <2>2, <3>1
      <4>2. PICK j \in 1..(Len(q) - 1) : i = j + 1
        BY <1>5, <4>1
      <4>3. j \in DOMAIN functors_'[l] /\ functors_'[l][j] = functors_[l][i]
        BY <1>4, <1>5, <1>6, <4>2
      <4> QED
        BY <3>1, <4>3
    <3>2. CASE k # l
      BY <1>6, <2>2, <3>2
    <3> QED
      BY <3>1, <3>2
  <2> QED
    BY <2>1, <2>2
<1>11. \A d \in Clones : InUse(d)' <=> (d = c \/ (InUse(d) /\ d # front /\ d # old))
  <2>1. \A k \in Threads : fun'[k] = IF k = l THEN c ELSE fun[k]
    BY <1>0 DEF FunctorInv, FunctorsTyped
  <2>2. /\ \A k \in Threads : fun[k] # front /\ (fun[k] = old => k = l)
        /\ f # front /\ f # old
        /\ \A k \in Threads : \A i \in DOMAIN functors_[k] : functors_[k][i] # old
    <3>1. 1 \in DOMAIN functors_[l] /\ functors_[l][1] = front /\ fun[l] # 0
      BY <1>4, <1>5, <1>8, ServerAssumption DEF old
    <3> QED
      BY <3>1 DEF FunctorInv, Apart, old
  <2>3. fun[l] = old
    BY DEF old
  <2>4. ASSUME NEW d \in Clones
        PROVE  (\E k \in Threads : fun'[k] = d) <=> (d = c \/ (d # old /\ \E k \in Threads : fun[k] = d))
    BY <2>1, <2>2, <2>3
  <2>5. ASSUME NEW d \in Clones PROVE InUse(d)' <=> (d = c \/ (InUse(d) /\ d # front /\ d # old))
    <3>1. InUse(d)' <=> \/ d = f \/ d = c \/ (d # old /\ \E k \in Threads : fun[k] = d)
                        \/ (d # front /\ \E k \in Threads : \E i \in DOMAIN functors_[k] : functors_[k][i] = d)
      BY <1>1, <1>10, <2>4 DEF InUse
    <3> QED
      BY <2>2, <3>1 DEF InUse
  <2> QED
    BY <2>5
<1>12. Lost = {d \in Clones : heap[d] # Free /\ ~InUse(d)}
  BY LostAre
<1>13. Lost' = {d \in Clones : heap'[d] # Free /\ ~InUse(d)'}
  BY LostWillBe
<1>14. Lost' = Lost \cup {old} /\ old \notin Lost
  <2>1. \A d \in Clones : (heap'[d] # Free /\ ~InUse(d)') <=> (d = old \/ (heap[d] # Free /\ ~InUse(d)))
    BY <1>3, <1>7, <1>8, <1>9, <1>11, FreeIsNone
  <2> QED
    BY <1>8, <1>12, <1>13, <2>1
<1> DEFINE n == Len(called[l]) + 1
<1>15. n \in Nat \ {0} /\ Len(called[l]) \in Nat
  BY DEF FunctorInv, FunctorsTyped
<1>16. Takes' = Takes \cup {<<l, n>>} /\ <<l, n>> \notin Takes
  <2> DEFINE t(k) == Len(called[k]) + (IF at[k] = "call" THEN 1 ELSE 0)
             u(k) == Len(called[k]) + (IF at'[k] = "call" THEN 1 ELSE 0)
  <2>1. Takes = {x \in Threads \X Nat : x[2] \in 1..t(x[1])}
    <3>1. ASSUME NEW k \in Threads PROVE t(k) \in Nat
      <4>1. PICK s \in Seq(Fds) : s = called[k]
        BY DEF FunctorInv, FunctorsTyped
      <4>2. Len(s) \in Nat /\ Len(s) + 1 \in Nat /\ Len(s) + 0 \in Nat
        BY <4>1
      <4>3. CASE at[k] = "call"
        BY <4>1, <4>2, <4>3
      <4>4. CASE at[k] # "call"
        BY <4>1, <4>2, <4>4
      <4> QED
        BY <4>3, <4>4
    <3> HIDE DEF t
    <3>2. UNION {{k} \X (1..t(k)) : k \in Threads} = {x \in Threads \X Nat : x[2] \in 1..t(x[1])}
      BY <3>1
    <3> QED
      BY <3>2 DEF Takes, t
  <2>2. Takes' = {x \in Threads \X Nat : x[2] \in 1..u(x[1])}
    <3>1. ASSUME NEW k \in Threads PROVE u(k) \in Nat
      <4>1. PICK s \in Seq(Fds) : s = called[k]
        BY DEF FunctorInv, FunctorsTyped
      <4>2. Len(s) \in Nat /\ Len(s) + 1 \in Nat /\ Len(s) + 0 \in Nat
        BY <4>1
      <4>3. CASE at'[k] = "call"
        BY <4>1, <4>2, <4>3
      <4>4. CASE at'[k] # "call"
        BY <4>1, <4>2, <4>4
      <4> QED
        BY <4>3, <4>4
    <3>2. Takes' = UNION {{k} \X (1..u(k)) : k \in Threads}
      BY <1>1 DEF Takes
    <3> HIDE DEF u
    <3>3. UNION {{k} \X (1..u(k)) : k \in Threads} = {x \in Threads \X Nat : x[2] \in 1..u(x[1])}
      BY <3>1
    <3> QED
      BY <3>2, <3>3
  <2>3. t(l) = n - 1 /\ u(l) = n /\ \A k \in Threads : k # l => u(k) = t(k)
    BY <1>1, <1>15
  <2>4. 1..n = (1..(n - 1)) \cup {n} /\ n \notin 1..(n - 1)
    BY <1>15
  <2> HIDE DEF t, u, n
  <2> QED
    BY <1>15, <2>1, <2>2, <2>3, <2>4
<1> HIDE DEF n
<1>17. /\ IsFiniteSet(Lost') /\ Cardinality(Lost') = Cardinality(Lost) + 1
       /\ IsFiniteSet(Takes') /\ Cardinality(Takes') = Cardinality(Takes) + 1
  BY <1>14, <1>16, FS_AddElement DEF LossInv
<1> QED
  BY <1>17 DEF LossInv, ClonesLostByPop

LEMMA LossStep ==
  ASSUME SocketInv, FunctorInv, LossInv, [Next]_vars
  PROVE  LossInv'
<1>0. at \in [Threads -> At] /\ Acceptor \in Threads /\ Loops \subseteq Threads
  BY DEF SocketInv, SocketsTyped, Loops
<1>1. ASSUME UNCHANGED <<heap, f, fun, functors_>>,
             \A l \in Threads : Len(called'[l]) = Len(called[l]) /\ (at'[l] = "call" <=> at[l] = "call")
      PROVE  LossInv'
  <2>1. \A d \in Clones : (heap'[d] # Free /\ ~InUse(d)') <=> (heap[d] # Free /\ ~InUse(d))
    BY <1>1 DEF InUse
  <2> QED
    BY <1>1, <2>1, TakesFrame, LossFrame
<1>2. CASE UNCHANGED vars
  BY <1>1, <1>2 DEF vars, functorVars
<1>3. CASE SocketNext /\ UNCHANGED <<functorVars, clientVars>>
  <2>1. PICK t \in Connectors \cup {Acceptor} :
          \/ Begin(t) \/ Socket(t) \/ (t = Acceptor /\ (Bind \/ Listen \/ Register \/ CloseListener \/ Unregister))
          \/ t \in Connectors /\ (Unresolved(t) \/ SetNonblock(t) \/ Connect(t) \/ Disconnect(t))
    BY <1>3 DEF SocketNext, AcceptorCall
  <2>2. PICK from, next \in {"idle", "socket", "bind", "listen", "register", "close", "fcntl", "connect", "done"} :
          at[t] = from /\ at' = [at EXCEPT ![t] = next]
    BY <2>1 DEF Begin, Socket, Bind, Listen, Register, CloseListener, Unregister, Unresolved, SetNonblock,
                Connect, Disconnect, Calls, Error, Return, Go
  <2>3. \A l \in Threads : at'[l] = "call" <=> at[l] = "call"
    BY <1>0, <2>2
  <2> QED
    BY <1>1, <1>3, <2>3 DEF functorVars
<1>4. CASE Accept \/ Refuse \/ PushBegin \/ AppendBegin
  <2>1. \A l \in Threads : at'[l] = "call" <=> at[l] = "call"
    BY <1>0, <1>4 DEF Accept, Refuse, PushBegin, AppendBegin, Go
  <2>2. UNCHANGED <<heap, f, fun, functors_, called>>
    BY <1>4 DEF Accept, Refuse, PushBegin, AppendBegin, functorVars
  <2> QED
    BY <1>1, <2>1, <2>2
<1>5. ASSUME NEW l \in Threads, PopBegin(l) \/ RemoveBegin(l) \/ RemoveEnd(l) PROVE LossInv'
  <2>1. \A k \in Threads : at'[k] = "call" <=> at[k] = "call"
    BY <1>0, <1>5 DEF PopBegin, RemoveBegin, RemoveEnd, Go
  <2>2. UNCHANGED <<heap, f, fun, functors_, called>>
    BY <1>5 DEF PopBegin, RemoveBegin, RemoveEnd, functorVars
  <2> QED
    BY <1>1, <2>1, <2>2
<1>6. CASE MakeHandler
  <2>1. PICK c \in Clones : Fresh(c) /\ f' = c /\ heap' = [heap EXCEPT ![c] = sock[Acceptor]]
    BY <1>6 DEF MakeHandler
  <2>2. sock[Acceptor] \in Fds
    BY <1>0, <1>6, CallHolds DEF MakeHandler, Go, InCall, SocketInv, SocketsTyped
  <2>3. UNCHANGED <<fun, functors_, called>>
    BY <1>6 DEF MakeHandler
  <2> QED
    BY <1>6, <2>1, <2>2, <2>3, MakeLoses
<1>7. ASSUME NEW l \in Threads, DrainBegin(l) PROVE LossInv'
  <2>1. PICK c \in Clones : Fresh(c) /\ heap' = [heap EXCEPT ![c] = 0] /\ fun' = [fun EXCEPT ![l] = c]
    BY <1>7 DEF DrainBegin
  <2>2. UNCHANGED <<f, functors_, called>>
    BY <1>7 DEF DrainBegin
  <2> QED
    BY <1>7, <2>1, <2>2, MakeLoses
<1>8. CASE AppendEnd
  BY <1>8, ScopeLoses DEF AppendEnd
<1>9. ASSUME NEW l \in Threads, PopEmpty(l) PROVE LossInv'
  BY <1>9, ScopeLoses DEF PopEmpty
<1>10. ASSUME NEW l \in Threads, Call(l) PROVE LossInv'
  <2>1. /\ at[l] = "call" /\ at' = [at EXCEPT ![l] = "pop"] /\ UNCHANGED <<heap, f, fun, functors_>>
        /\ called' = [called EXCEPT ![l] = Append(@, heap[fun[l]])]
    BY <1>10 DEF Call, Go
  <2>2. \A k \in Threads : Len(called'[k]) + (IF at'[k] = "call" THEN 1 ELSE 0)
                           = Len(called[k]) + (IF at[k] = "call" THEN 1 ELSE 0)
    <3>1. called \in [Threads -> Seq(Fds)]
      BY DEF FunctorInv, FunctorsTyped
    <3>2. called[l] \in Seq(Fds) /\ heap[fun[l]] \in Fds
      BY <2>1, <3>1 DEF FunctorInv, Bound
    <3>3. Len(Append(called[l], heap[fun[l]])) = Len(called[l]) + 1 /\ Len(called[l]) \in Nat
      BY <3>2
    <3>4. Len(called'[l]) = Len(called[l]) + 1 /\ at'[l] = "pop"
      BY <1>0, <2>1, <3>1, <3>3
    <3>5. \A k \in Threads : k # l => called'[k] = called[k] /\ at'[k] = at[k]
      BY <1>0, <2>1, <3>1
    <3>6. ASSUME NEW k \in Threads
          PROVE  Len(called'[k]) + (IF at'[k] = "call" THEN 1 ELSE 0) = Len(called[k]) + (IF at[k] = "call" THEN 1 ELSE 0)
      <4>1. CASE k = l
        <5>1. (IF at[l] = "call" THEN 1 ELSE 0) = 1 /\ (IF at'[l] = "call" THEN 1 ELSE 0) = 0
          BY <2>1, <3>4
        <5>2. PICK n \in Nat : n = Len(called[l])
          BY <3>3
        <5>3. Len(called'[l]) = n + 1
          BY <3>4, <5>2
        <5>4. (n + 1) + 0 = n + 1
          OBVIOUS
        <5> QED
          BY <4>1, <5>1, <5>2, <5>3, <5>4, Zenon
      <4>2. CASE k # l
        BY <3>5, <4>2
      <4> QED
        BY <4>1, <4>2
    <3> QED
      BY <3>6
  <2>3. Takes' = Takes
    BY <2>2 DEF Takes
  <2>4. \A d \in Clones : (heap'[d] # Free /\ ~InUse(d)') <=> (heap[d] # Free /\ ~InUse(d))
    BY <2>1 DEF InUse
  <2> QED
    BY <2>3, <2>4, LossFrame
<1> QED
  BY <1>0, <1>2, <1>3, <1>4, <1>5, <1>6, <1>7, <1>8, <1>9, <1>10, PushLoses, PopTakesLoses
     DEF Next, AcceptorStep, LoopStep

\* operator= loses one clone for each functor that a loop takes from its queue,
\* and nothing else in functor.h or its callers loses one.
THEOREM LossIsByPop == Spec => []ClonesLostByPop
<1>1. ASSUME Init PROVE LossInv
  <2>1. heap = [c \in Clones |-> Free] /\ called = [l \in Threads |-> <<>>] /\ at = [t \in Threads |-> "idle"]
    BY <1>1 DEF Init, SocketInit
  <2>2. Lost = {}
    BY <2>1 DEF Lost
  <2>3. Takes = {}
    <3>1. \A l \in Threads : Len(called[l]) + (IF at[l] = "call" THEN 1 ELSE 0) = 0
      BY <2>1
    <3>2. \A l \in Threads : 1..(Len(called[l]) + (IF at[l] = "call" THEN 1 ELSE 0)) = {}
      <4>1. 1..0 = {}
        OBVIOUS
      <4> QED
        BY <3>1, <4>1, Zenon
    <3>3. \A l \in Threads : {l} \X (1..(Len(called[l]) + (IF at[l] = "call" THEN 1 ELSE 0))) = {}
      BY <3>2
    <3> QED
      BY <3>3 DEF Takes
  <2> QED
    BY <2>2, <2>3, FS_EmptySet DEF LossInv, ClonesLostByPop
<1>2. LossInv => ClonesLostByPop
  BY DEF LossInv
<1> QED
  BY <1>1, <1>2, SocketInitInv, SocketStepInv, FunctorInitInv, FunctorStepInv, LossStep, PTL DEF Spec
=============================================================================
