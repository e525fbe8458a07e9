--------------------------- MODULE AcceptorServer ---------------------------
(***************************************************************************)
(* acceptor_server and service_handler of examples 2 and 3: the acceptor's *)
(* thread takes a slot in clients_ for each connection and hands its       *)
(* open() to a loop as a functor (functor.h), through a ThreadQueue; the   *)
(* loop's thread gives the slot back when the connection closes.  The      *)
(* queue is locked, clients_ is not.                                       *)
(***************************************************************************)
EXTENDS Sockets, Sequences, FiniteSets, SequencesExt

CONSTANTS
    Handlers,   \* the addresses new service_handler may return
    Clones,     \* the addresses function_base::clone may return
    MaxClients, \* MAX_CLIENT_COUNT
    Null        \* no thread

ASSUME ServerAssumption ==
    /\ {Null, "free", "new"} \cap Threads = {}
    /\ Handlers \subseteq Nat \ {0} /\ Clones \subseteq Nat \ {0}
    /\ MaxClients \in Nat

VARIABLES
    handlerOf, \* the service_handler made for a descriptor
    life,      \* of a handler: "free", "new", or the loop it is open on
    heap,      \* the descriptor a clone's open() is bound to, 0 for a
               \* functor without function; Free is no clone
    f,         \* on_accept's local functor: its clone, or 0
    fun,       \* run's local functor in each loop: its clone, or 0
    functors_, \* the clones of the functors queued in each loop
    mutex,     \* the holder of each queue's lock
    seen,      \* the queue as a thread inside push or pop found it
    to,        \* the loop on_accept has picked
    cur,       \* the handler each thread is at: in on_accept, or closing
    clients_,  \* the acceptor's vector
    touching,  \* the threads inside an operation on clients_
    raced,     \* two of them met: the behaviour is undefined from there
    stale,     \* closed handlers whose entry was not in clients_
    pushed, called \* history of each loop: open()s queued, open()s run

Free == -1

\* what get_loop picks from; a base loop beside a pool is given no functor
Loops == IF pool = {} THEN {Acceptor} ELSE pool

functorVars == <<heap, f, fun, functors_, mutex, seen, to, pushed, called>>
clientVars == <<handlerOf, life, cur, clients_, touching, raced, stale>>
vars == <<sockVars, at, functorVars, clientVars>>

---------------------------------------------------------------------------
(* The heap.  A function object owns one clone.                             *)

\* The allocator returns the lowest free address, so that it is reused soonest.
FreeAddress(h) == life[h] = "free" /\ \A g \in Handlers : g < h => life[g] # "free"

Fresh(c) == c \in Clones /\ heap[c] = Free /\ \A d \in Clones : d < c => heap[d] # Free

CopiedVariantMoves(c, from, dead) == [d \in Clones |-> IF d \in dead \cup {from} THEN Free
                                                       ELSE IF d = c THEN heap[from] ELSE heap[d]]

CopiedVariantKeepsFront(c, from, dead) == [heap EXCEPT ![c] = heap[from]]

\* After a copy from clone `from` and the deletion of the clones in `dead`.
Copied(c, from, dead) == [d \in Clones |-> IF d \in dead THEN Free
                                           ELSE IF d = c THEN heap[from] ELSE heap[d]]

LockVariantNone(t, l) == UNCHANGED mutex
UnlockVariantWhenTaken(t, l) ==
    IF at[t] = "popping" /\ seen[t] = <<>> THEN UNCHANGED mutex ELSE mutex' = [mutex EXCEPT ![l] = Null]

\* MutexLock::lock and unlock
Lock(t, l) == mutex[l] = Null /\ mutex' = [mutex EXCEPT ![l] = t]
Unlock(t, l) == mutex' = [mutex EXCEPT ![l] = Null]

\* A MutexLockGuard lives for the body of push and pop; in between, the deque
\* is read first and written later.
Enter(t, l) == Lock(t, l) /\ seen' = [seen EXCEPT ![t] = functors_[l]]
Leave(t, l) == Unlock(t, l) /\ seen' = [seen EXCEPT ![t] = <<>>]

---------------------------------------------------------------------------
(* The acceptor: AsyncAcceptor::do_handle_read and on_accept.               *)

\* accept() may fail; nothing happens then.
Accept ==
    /\ held[Acceptor] \in handlers_ /\ Go(Acceptor, "idle", "accepted")
    /\ \E s \in Fds : /\ Lowest(s) /\ SetState(s, "accepted")
                      /\ sock' = [sock EXCEPT ![Acceptor] = s]
    /\ UNCHANGED <<pool, nonblock, held, handlers_, crash, functorVars, clientVars>>

Full == Len(clients_) >= MaxClients

Refuse ==
    /\ Full /\ Go(Acceptor, "accepted", "idle")
    /\ CloseFd(sock[Acceptor]) /\ sock' = [sock EXCEPT ![Acceptor] = -1]
    /\ UNCHANGED <<pool, held, handlers_, crash, functorVars, clientVars>>

\* new service_handler, get_loop, bind
MakeHandler ==
    /\ ~Full /\ Go(Acceptor, "accepted", "push")
    /\ \E h \in Handlers :
        /\ FreeAddress(h) /\ life' = [life EXCEPT ![h] = "new"]
        /\ handlerOf' = [handlerOf EXCEPT ![sock[Acceptor]] = h]
        /\ cur' = [cur EXCEPT ![Acceptor] = h]
    /\ to' \in Loops
    /\ \E c \in Clones : Fresh(c) /\ f' = c /\ heap' = [heap EXCEPT ![c] = sock[Acceptor]]
    /\ sock' = [sock EXCEPT ![Acceptor] = -1]
    /\ UNCHANGED <<pool, state, nonblock, held, handlers_, crash, fun, functors_, mutex, seen,
                   pushed, called, clients_, touching, raced, stale>>

\* add_run: ThreadQueue::push copies the functor
PushBegin ==
    /\ Go(Acceptor, "push", "pushing") /\ Enter(Acceptor, to)
    /\ UNCHANGED <<sockVars, heap, f, fun, functors_, to, pushed, called, clientVars>>

PushEnd ==
    /\ Go(Acceptor, "pushing", "append")
    /\ \E c \in Clones :
        /\ Fresh(c) /\ heap' = Copied(c, f, {})
        /\ functors_' = [functors_ EXCEPT ![to] = Append(seen[Acceptor], c)]
    /\ pushed' = [pushed EXCEPT ![to] = Append(@, heap[f])]
    /\ Leave(Acceptor, to)
    /\ UNCHANGED <<sockVars, f, fun, to, called, clientVars>>

\* an operation of t that changes clients_, which nothing protects
Touch(t) == touching' = touching \cup {t} /\ raced' = (touching # {})

AppendBegin ==
    /\ Go(Acceptor, "append", "appending") /\ Touch(Acceptor)
    /\ UNCHANGED <<sockVars, functorVars, handlerOf, life, cur, clients_, stale>>

\* clients_.push_back; f goes out of scope
AppendEnd ==
    /\ Go(Acceptor, "appending", "idle")
    /\ clients_' = Append(clients_, cur[Acceptor])
    /\ touching' = touching \ {Acceptor}
    /\ f' = 0 /\ heap' = [heap EXCEPT ![f] = Free]
    /\ to' = Acceptor /\ cur' = [cur EXCEPT ![Acceptor] = 0]
    /\ UNCHANGED <<sockVars, fun, functors_, mutex, seen, pushed, called,
                   handlerOf, life, raced, stale>>

---------------------------------------------------------------------------
(* The loops: draining the functors at the end of a turn, and connections.  *)

\* RunableFunctor fun; a functor without function
DrainBegin(l) ==
    /\ Go(l, "idle", "pop")
    /\ \E c \in Clones : Fresh(c) /\ heap' = [heap EXCEPT ![c] = 0] /\ fun' = [fun EXCEPT ![l] = c]
    /\ UNCHANGED <<sockVars, f, functors_, mutex, seen, to, pushed, called, clientVars>>

PopBegin(l) ==
    /\ Go(l, "pop", "popping") /\ Enter(l, l)
    /\ UNCHANGED <<sockVars, heap, f, fun, functors_, to, pushed, called, clientVars>>

\* t = front(): operator= clones the front and forgets what fun had;
\* pop_front() deletes the front's clone.
PopTakes(l) ==
    /\ seen[l] # <<>> /\ Go(l, "popping", "call")
    /\ \E c \in Clones :
        /\ Fresh(c) /\ heap' = Copied(c, Head(seen[l]), {Head(seen[l])})
        /\ fun' = [fun EXCEPT ![l] = c]
    /\ functors_' = [functors_ EXCEPT ![l] = Tail(seen[l])]
    /\ Leave(l, l)
    /\ UNCHANGED <<sockVars, f, to, pushed, called, clientVars>>

\* pop returns false, fun goes out of scope
PopEmpty(l) ==
    /\ seen[l] = <<>> /\ Go(l, "popping", "idle")
    /\ heap' = [heap EXCEPT ![fun[l]] = Free] /\ fun' = [fun EXCEPT ![l] = 0]
    /\ Leave(l, l)
    /\ UNCHANGED <<sockVars, f, functors_, to, pushed, called, clientVars>>

\* fun(): open() of the handler bound, which is on this loop from then on
Call(l) ==
    /\ Go(l, "call", "pop")
    /\ called' = [called EXCEPT ![l] = Append(@, heap[fun[l]])]
    /\ life' = [life EXCEPT ![handlerOf[heap[fun[l]]]] = l]
    /\ UNCHANGED <<sockVars, heap, f, fun, functors_, mutex, seen, to, pushed,
                   handlerOf, cur, clients_, touching, raced, stale>>

\* ConnectionHandler::close in a turn of the loop: on_close, remove_handler
RemoveBegin(l) ==
    /\ Go(l, "idle", "removing") /\ Touch(l)
    /\ \E h \in Handlers : life[h] = l /\ cur' = [cur EXCEPT ![l] = h]
    /\ UNCHANGED <<sockVars, functorVars, handlerOf, life, clients_, stale>>

WithoutVariantStopsEarly(h) ==
    IF \E j \in 1..(Len(clients_) - 1) : clients_[j] = h
    THEN SelectSeq(clients_, LAMBDA g : g # h) ELSE clients_

\* clients_ without its first entry h
Without(h) == RemoveFirst(clients_, h)

\* then delete this; the descriptor stays open
RemoveEnd(l) ==
    /\ Go(l, "removing", "idle")
    /\ clients_' = Without(cur[l])
    /\ stale' = stale + Len(clients_') + 1 - Len(clients_)
    /\ life' = [life EXCEPT ![cur[l]] = "free"]
    /\ touching' = touching \ {l} /\ cur' = [cur EXCEPT ![l] = 0]
    /\ UNCHANGED <<sockVars, functorVars, handlerOf, raced>>

---------------------------------------------------------------------------
Init ==
    /\ SocketInit
    /\ handlerOf = [s \in Fds |-> 0] /\ life = [h \in Handlers |-> "free"]
    /\ heap = [c \in Clones |-> Free] /\ f = 0 /\ fun = [l \in Threads |-> 0]
    /\ functors_ = [l \in Threads |-> <<>>] /\ mutex = [l \in Threads |-> Null]
    /\ seen = [l \in Threads |-> <<>>] /\ to = Acceptor
    /\ cur = [l \in Threads |-> 0] /\ clients_ = <<>>
    /\ touching = {} /\ raced = FALSE /\ stale = 0
    /\ pushed = [l \in Threads |-> <<>>] /\ called = [l \in Threads |-> <<>>]

AcceptorStep == \/ Refuse \/ MakeHandler \/ PushBegin \/ PushEnd \/ AppendBegin \/ AppendEnd

LoopStep(l) ==
    /\ l \in Loops
    /\ \/ DrainBegin(l) \/ PopBegin(l) \/ PopTakes(l) \/ PopEmpty(l) \/ Call(l) \/ RemoveEnd(l)

Running == ~crash /\ ~raced

Next ==
    /\ Running
    /\ \/ SocketNext /\ UNCHANGED <<functorVars, clientVars>>
       \/ Accept \/ AcceptorStep
       \/ \E l \in Threads : LoopStep(l) \/ (l \in Loops /\ RemoveBegin(l))

Spec == Init /\ [][Next]_vars

\* Threads are scheduled and handlers return.  Every turn of a loop ends with
\* the draining of its functors, and the loop does not hold its queue's lock
\* while it waits for events, so the acceptor gets it.
Fairness ==
    /\ WF_vars(Running /\ ((AcceptorCall /\ UNCHANGED <<functorVars, clientVars>>) \/ AcceptorStep))
    /\ SF_vars(Running /\ PushBegin)
    /\ \A l \in Threads : WF_vars(Running /\ LoopStep(l)) /\ SF_vars(Running /\ l \in Loops /\ DrainBegin(l))

FairSpec == Spec /\ Fairness

---------------------------------------------------------------------------
At == {"idle", "socket", "bind", "listen", "register", "close", "fcntl", "connect", "done",
       "accepted", "push", "pushing", "append", "appending", "pop", "popping", "call", "removing"}

SocketsTyped ==
    /\ pool \in SUBSET (Threads \ {Acceptor})
    /\ state \in [Fds -> Kinds] /\ nonblock \in SUBSET Fds /\ handlers_ \in SUBSET Fds
    /\ at \in [Threads -> At] /\ crash \in BOOLEAN
    /\ sock \in [Threads -> Fds \cup {-1}] /\ held \in [Threads -> Fds \cup {-1}]
    /\ handlerOf \in [Fds -> Handlers \cup {0}]

FunctorsTyped ==
    /\ heap \in [Clones -> Fds \cup {0, Free}]
    /\ f \in Clones \cup {0} /\ fun \in [Threads -> Clones \cup {0}]
    /\ functors_ \in [Threads -> Seq(Clones)] /\ seen \in [Threads -> Seq(Clones)]
    /\ mutex \in [Threads -> Threads \cup {Null}] /\ to \in Threads
    /\ pushed \in [Threads -> Seq(Fds)] /\ called \in [Threads -> Seq(Fds)]

ClientsTyped ==
    /\ life \in [Handlers -> {"free", "new"} \cup Threads]
    /\ cur \in [Threads -> Handlers \cup {0}] /\ clients_ \in Seq(Handlers)
    /\ touching \in SUBSET Threads /\ raced \in BOOLEAN /\ stale \in Nat

TypeOK == SocketsTyped /\ FunctorsTyped /\ ClientsTyped

InCall == {"bind", "listen", "fcntl", "connect", "accepted"}

Owns(t, s) == (held[t] = s /\ at[t] # "done") \/ (sock[t] = s /\ at[t] \in InCall)

\* No step of open(), connect() or accept that fails leaves a descriptor
\* behind: each open one belongs to a call in progress, to the acceptor or a
\* connector, or to a connection's handler, and to one of them only.  What a
\* finished call returned is ready for use, the loop knows the listening
\* descriptor, and the assertions of open() and close() hold.
DescriptorsOwned ==
    /\ \A s \in Fds : state[s] # "closed" =>
        \/ handlerOf[s] # 0 /\ \A t \in Threads : ~Owns(t, s)
        \/ handlerOf[s] = 0 /\ \E t \in Threads : \A u \in Threads : Owns(u, s) <=> u = t
    /\ held[Acceptor] # -1 => state[held[Acceptor]] = "listening"
    /\ \A c \in Connectors : held[c] # -1 /\ at[c] # "done" =>
        \/ state[held[c]] = "connected"
        \/ state[held[c]] = "connecting" /\ held[c] \in nonblock
    /\ ~crash

\* what the functor objects of on_accept and run() hold, and those queued
Held == ({f} \cup {fun[l] : l \in Threads}) \ {0}
Queued == UNION {Range(functors_[l]) : l \in Threads}

\* Functor objects own their clones: no two of them, in on_accept, in the
\* queues or in run(), hold the same clone, and none holds a deleted one, so
\* that no call goes through freed memory and no destructor frees it twice.
OneOwner ==
    /\ \A c \in Held \cup Queued : heap[c] # Free
    /\ Held \cap Queued = {}
    /\ \A l \in Threads : fun[l] # 0 => fun[l] # f /\ \A k \in Threads : fun[k] = fun[l] => k = l
    /\ \A l \in Threads : IsInjective(functors_[l])
    /\ \A l, k \in Threads : k # l => Range(functors_[l]) \cap Range(functors_[k]) = {}

Lost == {c \in Clones : heap[c] # Free} \ (Held \cup Queued)

\* the functors taken from the queues so far, numbered for each loop
Takes == UNION {{l} \X (1..(Len(called[l]) + (IF at[l] = "call" THEN 1 ELSE 0))) : l \in Threads}

\* operator= loses the clone it overwrites: a loop loses one for each functor
\* it takes, and no other is ever lost.
ClonesLostByPop == Cardinality(Lost) = Cardinality(Takes)

\* add_run promises that a loop runs the functors it is given, each once and
\* in the order they were given, however push and pop interleave.
CallsInOrder ==
    \A l \in Threads :
        pushed[l] = called[l] \o (IF at[l] = "call" THEN <<heap[fun[l]]>> ELSE <<>>)
                              \o [i \in DOMAIN functors_[l] |-> heap[functors_[l][i]]]

\* Every slot of clients_ is that of a live handler, save one for each handler
\* that closed before on_accept had appended it; without a pool there is no
\* such handler.  The limit on slots is kept.
SlotsAccounted ==
    LET pending == IF at[Acceptor] \in {"push", "pushing", "append", "appending"} THEN 1 ELSE 0
        live == {h \in Handlers : life[h] # "free"}
    IN raced \/ /\ Len(clients_) + pending = Cardinality(live) + stale
                /\ pool = {} => stale = 0
                /\ Len(clients_) <= MaxClients

\* Every connection that on_accept takes is opened on the loop it was handed
\* to, unless the threads meet in clients_.
TakenAreOpened ==
    LET taken == {s \in Fds : handlerOf[s] # 0}
        opened == UNION {Range(called[l]) : l \in Threads}
    IN taken # opened ~> taken = opened \/ raced
=============================================================================
