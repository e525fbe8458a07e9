---------------------------- MODULE ReactorProofs ----------------------------
(***************************************************************************)
(* Safety of the event loop for any number of connections and descriptors, *)
(* every acceptor mode and every bound: the invariants that the runs of    *)
(* Reactor check on small instances, proved from one inductive invariant,  *)
(* and that the loop implements EventLoop.                                 *)
(***************************************************************************)
EXTENDS Reactor, FiniteSetTheorems, TLAPS

(***************************************************************************)
(* The strengthening.  HandlersAreLive speaks of connections only; what a  *)
(* callback may do to an entry that is still in the batch depends on who   *)
(* holds the descriptors.                                                  *)
(***************************************************************************)

\* No two connections hold one descriptor, because nothing closes descriptors.
DescriptorsUnique ==
    \A c, d \in Conns : (c # d /\ fdOf[c] = fdOf[d]) => fdOf[c] = Absent

\* A descriptor is taken exactly when its connection object exists.
DescriptorsOwned ==
    \A c \in Conns :
        /\ obj[c] \in {"queued", "open", "deleted"} => fdOf[c] # Absent
        /\ (crash = "none" /\ fdOf[c] # Absent) => obj[c] # "none"

\* A connection's descriptor leads to a connection or to nothing.
SlotsOfConnections ==
    \A f \in ConnFds : handlers_[f] \in Conns \cup {Null, Absent}

\* The kernel watches exactly the descriptors that have a handler.
WatchedHaveHandlers ==
    pc # "destroyed" =>
        \A f \in Fds : epoll[f] = "none" <=> handlers_[f] \in {Null, Absent}

\* An undispatched entry of a connection's descriptor was collected for the
\* connection that still holds the descriptor, open or already deleted.
EntriesOwned ==
    \A f \in Fds : ready[f] # {} =>
        /\ pc = "dispatch"
        /\ handlers_[f] \in {owner[f], Null, Absent}
        /\ f \in ConnFds =>
              \E c \in Conns : owner[f] = c /\ fdOf[c] = f /\ obj[c] \in {"open", "deleted"}

\* A functor holds a bare pointer to the handler it will open: every queued one
\* points to an object that is allocated, not yet opened and queued only once.
FunctorTargetsLive ==
    /\ \A i \in DOMAIN functors_ : obj[functors_[i]] = "queued"
    /\ \A i, j \in DOMAIN functors_ : functors_[i] = functors_[j] => i = j

\* What relates the tables to the connection objects, whatever the batch holds.
TablesConsistent ==
    /\ HandlersAreLive /\ WatchedHaveHandlers /\ InterestFollowsBuffer
    /\ DescriptorsUnique /\ DescriptorsOwned /\ SlotsOfConnections

IInv ==
    /\ TypeOK
    /\ TablesConsistent
    /\ EntriesOwned /\ FirstRecvReturns
    /\ FunctorTargetsLive
    /\ TableAssertsHold

LEMMA OpenTyped ==
    ASSUME TablesTyped, ConnsTyped, NEW c \in Conns, NEW f, open(c, f), fdOf' \in [Conns -> ConnFds \cup {Absent}]
    PROVE  TablesTyped' /\ ConnsTyped'
BY DEF TablesTyped, ConnsTyped, open, register_event, modify_event, Mask, tables, Handlers

LEMMA SendTyped ==
    ASSUME TablesTyped, ConnsTyped, NEW c \in Conns, NEW n \in Nat, send(c, n), UNCHANGED <<obj, fdOf>>
    PROVE  TablesTyped' /\ ConnsTyped'
BY DEF TablesTyped, ConnsTyped, send, modify_event, Mask, tables, Handlers

LEMMA CloseTyped ==
    ASSUME TablesTyped, ConnsTyped, NEW c \in Conns, close(c)
    PROVE  TablesTyped' /\ ConnsTyped'
BY DEF TablesTyped, ConnsTyped, close, delete_event, tables, Handlers

LEMMA TakeTyped ==
    ASSUME LoopTyped, NEW f \in Fds, NEW ev \in Events, TakeEntry(f, ev),
           functors_' \in Seq(Conns)
    PROVE  LoopTyped'
BY DEF LoopTyped, TakeEntry

LEMMA AcceptTyped ==
    ASSUME TablesTyped, ConnsTyped, functors_ \in Seq(Conns),
           NEW c \in Backlog, NEW f \in FreeFds, accept(c, f)
    PROVE  TablesTyped' /\ ConnsTyped' /\ functors_' \in Seq(Conns)
<1>1. c \in Conns /\ f \in ConnFds
  BY DEF Backlog, FreeFds
<1>2. fdOf' \in [Conns -> ConnFds \cup {Absent}]
  BY <1>1 DEF ConnsTyped, accept, refuse
<1>5. CASE refuse(c)
  BY <1>1, <1>5 DEF refuse, TablesTyped, ConnsTyped, tables
<1>3. CASE ~refuse(c) /\ AcceptMode = "direct"
  <2>1. open(c, f) /\ functors_' = functors_
    BY <1>3 DEF accept
  <2> QED
    BY <2>1, <1>1, <1>2, OpenTyped
<1>4. CASE ~refuse(c) /\ AcceptMode # "direct"
  <2>1. /\ obj' = [obj EXCEPT ![c] = "queued"] /\ functors_' = Append(functors_, c)
        /\ UNCHANGED <<handlers_, epoll, fd_count_, out, crash>>
    BY <1>4 DEF accept, tables
  <2>2. TablesTyped'
    BY <2>1 DEF TablesTyped
  <2>3. obj' \in [Conns -> {"none", "refused", "queued", "open", "deleted"}]
    BY <2>1, <1>1 DEF ConnsTyped
  <2>4. functors_' \in Seq(Conns)
    BY <2>1, <1>1
  <2> QED
    BY <2>1, <2>2, <2>3, <2>4, <1>2 DEF ConnsTyped
<1> QED
  BY <1>3, <1>4, <1>5

LEMMA TypeStep == TypeOK /\ [Next]_vars => TypeOK'
<1> USE DEF TypeOK, Fds, Events
<1>1. ASSUME TypeOK, Check PROVE TypeOK'
  BY <1>1 DEF Check, TablesTyped, ConnsTyped, LoopTyped, OthersTyped, tables, conns, net, threads
<1>2. ASSUME TypeOK, HandleEvents PROVE TypeOK'
  BY <1>2 DEF HandleEvents, Reported, TablesTyped, ConnsTyped, LoopTyped, OthersTyped, tables, conns, net, threads
<1>3. ASSUME TypeOK, RunFunctor PROVE TypeOK'
  <2>1. Head(functors_) \in Conns /\ Tail(functors_) \in Seq(Conns)
    BY <1>3 DEF RunFunctor, LoopTyped
  <2>2. TablesTyped' /\ ConnsTyped'
    BY <1>3, <2>1, OpenTyped DEF RunFunctor, ConnsTyped
  <2> QED
    BY <1>3, <2>1, <2>2 DEF RunFunctor, LoopTyped, OthersTyped, loopVars, net, threads
<1>4. ASSUME TypeOK, EndDispatch \/ EndDrain PROVE TypeOK'
  BY <1>4 DEF EndDispatch, EndDrain, TablesTyped, ConnsTyped, LoopTyped, OthersTyped, tables, conns, net, threads
<1>5. ASSUME TypeOK, DispatchNull PROVE TypeOK'
  <2>1. PICK f \in Fds, ev \in Events : DispatchNull!(f, ev)
    BY <1>5 DEF DispatchNull
  <2>2. LoopTyped'
    BY <1>5, <2>1, TakeTyped DEF LoopTyped
  <2> QED
    BY <1>5, <2>1, <2>2 DEF TablesTyped, ConnsTyped, OthersTyped, conns, net, threads
<1>6. ASSUME TypeOK, DispatchWakeup PROVE TypeOK'
  <2>1. LoopTyped'
    BY <1>6, TakeTyped DEF DispatchWakeup, LoopTyped
  <2> QED
    BY <1>6, <2>1 DEF DispatchWakeup, TablesTyped, ConnsTyped, OthersTyped, tables, conns, net
<1>7. ASSUME TypeOK, DispatchAccept PROVE TypeOK'
  <2>1. TablesTyped' /\ ConnsTyped' /\ functors_' \in Seq(Conns)
    <3>1. CASE UNCHANGED <<tables, functors_, conns, crash>>
      BY <1>7, <3>1 DEF TablesTyped, ConnsTyped, LoopTyped, tables, conns
    <3>2. ASSUME NEW c \in Backlog, NEW f \in FreeFds, accept(c, f)
          PROVE  TablesTyped' /\ ConnsTyped' /\ functors_' \in Seq(Conns)
      BY <1>7, <3>2, AcceptTyped DEF LoopTyped
    <3> QED
      BY <1>7, <3>1, <3>2 DEF DispatchAccept
  <2>2. LoopTyped'
    BY <1>7, <2>1, TakeTyped DEF DispatchAccept
  <2> QED
    BY <1>7, <2>1, <2>2 DEF DispatchAccept, OthersTyped, net, threads
<1>8. ASSUME TypeOK, NEW c \in Conns, DispatchRead(c) PROVE TypeOK'
  <2>1. TablesTyped' /\ ConnsTyped'
    <3>1. CASE UNCHANGED <<tables, conns, crash>>
      BY <1>8, <3>1 DEF TablesTyped, ConnsTyped, tables, conns
    <3>2. ASSUME NEW n \in 1..MaxReply, send(c, n), UNCHANGED <<obj, fdOf>>
          PROVE  TablesTyped' /\ ConnsTyped'
      BY <1>8, <3>2, SendTyped, ConstantsAssumption DEF ConstantsAssumption
    <3>3. ASSUME NEW v \in Conns, close(v) PROVE TablesTyped' /\ ConnsTyped'
      BY <1>8, <3>3, CloseTyped
    <3> QED
      BY <1>8, <3>1, <3>2, <3>3 DEF DispatchRead, on_read
  <2>2. LoopTyped'
    BY <1>8, TakeTyped DEF DispatchRead, LoopTyped
  <2>3. OthersTyped'
    BY <1>8 DEF DispatchRead, OthersTyped, threads
  <2> QED
    BY <2>1, <2>2, <2>3
<1>9. ASSUME TypeOK, NEW c \in Conns, DispatchWrite(c) PROVE TypeOK'
  <2>1. PICK f \in ConnFds : DispatchWrite(c)!(f)
    BY <1>9 DEF DispatchWrite
  <2>2. TablesTyped'
    BY <1>9, <2>1 DEF TablesTyped, ConnsTyped, modify_event, Mask, tables, Handlers
  <2>3. ConnsTyped'
    <3>1. \A n \in 1..out[c] : out[c] - n \in Nat
      BY <1>9 DEF ConnsTyped
    <3>2. out' = out \/ \E n \in 1..out[c] : out' = [out EXCEPT ![c] = out[c] - n]
      BY <2>1
    <3>3. out' \in [Conns -> Nat]
      BY <1>9, <3>1, <3>2 DEF ConnsTyped
    <3> QED
      BY <1>9, <2>1, <3>3 DEF ConnsTyped
  <2>4. LoopTyped'
    BY <1>9, <2>1, TakeTyped DEF LoopTyped
  <2> QED
    BY <1>9, <2>1, <2>2, <2>3, <2>4 DEF OthersTyped, net, threads
<1>10. ASSUME TypeOK, NEW c \in Conns, DispatchError(c) PROVE TypeOK'
  <2>1. LoopTyped'
    BY <1>10, TakeTyped DEF DispatchError, LoopTyped
  <2>2. TablesTyped' /\ ConnsTyped'
    BY <1>10, CloseTyped DEF DispatchError
  <2> QED
    BY <1>10, <2>1, <2>2 DEF DispatchError, OthersTyped, net, threads
<1>11. ASSUME TypeOK, Destroy PROVE TypeOK'
  BY <1>11 DEF Destroy, TablesTyped, ConnsTyped, LoopTyped, OthersTyped, conns, net, threads
<1>12. ASSUME TypeOK, QuitFlag PROVE TypeOK'
  BY <1>12 DEF QuitFlag, TablesTyped, ConnsTyped, LoopTyped, OthersTyped, tables, conns, net
<1>13. ASSUME TypeOK, QuitWakeup PROVE TypeOK'
  BY <1>13 DEF QuitWakeup, TablesTyped, ConnsTyped, LoopTyped, OthersTyped, loopVars, tables, conns, net
<1>14. ASSUME TypeOK, WakeupEvent PROVE TypeOK'
  BY <1>14, ConstantsAssumption DEF ConstantsAssumption, WakeupEvent, TablesTyped, ConnsTyped, LoopTyped, OthersTyped,
     loopVars, tables, conns, net
<1>15. ASSUME TypeOK, RemoteAccept PROVE TypeOK'
  <2>1. TablesTyped' /\ ConnsTyped' /\ functors_' \in Seq(Conns)
    BY <1>15, AcceptTyped DEF RemoteAccept, LoopTyped
  <2> QED
    BY <1>15, <2>1 DEF RemoteAccept, LoopTyped, OthersTyped, loopVars, net, threads
<1>16. ASSUME TypeOK, NEW c \in Conns, Client(c) PROVE TypeOK'
  <2>1. OthersTyped'
    BY <1>16 DEF Client, OthersTyped, threads
  <2> QED
    BY <1>16, <2>1 DEF Client, TablesTyped, ConnsTyped, LoopTyped, loopVars, tables, conns
<1>17. ASSUME TypeOK, UNCHANGED vars PROVE TypeOK'
  BY <1>17 DEF vars, TablesTyped, ConnsTyped, LoopTyped, OthersTyped, loopVars, tables, conns, net, threads
<1> QED
  BY <1>1, <1>2, <1>3, <1>4, <1>5, <1>6, <1>7, <1>8, <1>9, <1>10, <1>11, <1>12, <1>13, <1>14, <1>15, <1>16, <1>17
     DEF Next, LoopStep

LEMMA TypeInit == Init => TypeOK
<1> SUFFICES ASSUME Init PROVE TypeOK
  OBVIOUS
<1>1. TablesTyped
  <2>1. handlers_ \in [Fds -> Handlers \cup {Null, Absent}]
    BY DEF Init, Handlers
  <2> QED
    BY <2>1 DEF Init, TablesTyped
<1>2. ConnsTyped
  BY DEF Init, ConnsTyped
<1>3. LoopTyped
  <2>1. ready \in [Fds -> SUBSET Events] /\ owner \in [Fds -> Handlers \cup {Null, Absent}]
    BY DEF Init
  <2>2. functors_ \in Seq(Conns)
    BY DEF Init
  <2> QED
    BY <2>1, <2>2 DEF Init, LoopTyped
<1>4. OthersTyped
  BY ConstantsAssumption DEF ConstantsAssumption, Init, OthersTyped
<1> QED
  BY <1>1, <1>2, <1>3, <1>4 DEF TypeOK

\* Every variable keeps its type in every reachable state, whatever the number
\* of connections and descriptors: ServiceLoop::run and the callbacks below it
\* leave no table half updated.
THEOREM TypeCorrect == Spec => []TypeOK
<1>1. Init => TypeOK
  BY TypeInit
<1>2. TypeOK /\ [Next]_vars => TypeOK'
  BY TypeStep
<1> QED
  BY <1>1, <1>2, PTL DEF Spec

-----------------------------------------------------------------------------

\* A descriptor that no other connection holds is not watched.
LEMMA FreeIsUnwatched ==
    ASSUME TypeOK, TablesConsistent, pc # "destroyed",
           NEW c \in Conns, NEW f \in ConnFds, obj[c] # "open",
           \A d \in Conns \ {c} : fdOf[d] # f
    PROVE  epoll[f] = "none" /\ handlers_[f] \in {Null, Absent}
<1>1. handlers_[f] \notin Conns
  BY DEF TablesConsistent, HandlersAreLive, Fds
<1>2. handlers_[f] \in {Null, Absent}
  BY <1>1 DEF TablesConsistent, SlotsOfConnections
<1> QED
  BY <1>2 DEF TablesConsistent, WatchedHaveHandlers, Fds

\* open() on a descriptor of its own succeeds, unless on_connect sends.
LEMMA OpenStep ==
    ASSUME TypeOK, TablesConsistent, crash = "none", pc # "destroyed", pc' = pc,
           NEW c \in Conns, NEW f \in ConnFds, open(c, f), obj[c] \in {"none", "queued"},
           fdOf' \in [Conns -> ConnFds \cup {Absent}], fdOf'[c] = f,
           \A d \in Conns \ {c} : fdOf'[d] = fdOf[d] /\ fdOf[d] # f
    PROVE  /\ TablesConsistent'
           /\ crash' = "none" \/ (crash' = "modify" /\ SendOnConnect)
           /\ \A g \in Fds \ {f} : handlers_'[g] = handlers_[g]
           /\ \A d \in Conns \ {c} : obj'[d] = obj[d]
<1>1. epoll[f] = "none" /\ handlers_[f] \in {Null, Absent}
  BY FreeIsUnwatched
<1> USE DEF TypeOK, TablesTyped, ConnsTyped
<1>2. CASE /\ register_event(f, TRUE, FALSE, c)
           /\ obj' = [obj EXCEPT ![c] = "open"] /\ out' = [out EXCEPT ![c] = 0]
  <2>1. /\ epoll' = [epoll EXCEPT ![f] = "READ"] /\ handlers_' = [handlers_ EXCEPT ![f] = c]
        /\ crash' = crash
    BY <1>1, <1>2 DEF register_event, Mask
  <2>2. HandlersAreLive'
    BY <1>2, <2>1 DEF TablesConsistent, HandlersAreLive, Fds
  <2>3. WatchedHaveHandlers'
    BY <1>2, <2>1, ConstantsAssumption DEF ConstantsAssumption, TablesConsistent, WatchedHaveHandlers, Fds
  <2>4. \A d \in Conns : obj'[d] = "open" => epoll'[fdOf'[d]] = IF out'[d] > 0 THEN "WRITE" ELSE "READ"
    BY <1>2, <2>1 DEF TablesConsistent, InterestFollowsBuffer, Fds
  <2>5. InterestFollowsBuffer'
    BY <2>3, <2>4 DEF InterestFollowsBuffer, WatchedHaveHandlers
  <2>6. DescriptorsUnique' /\ DescriptorsOwned' /\ SlotsOfConnections'
    BY <1>2, <2>1, ConstantsAssumption
       DEF ConstantsAssumption, TablesConsistent, DescriptorsUnique, DescriptorsOwned, SlotsOfConnections, Fds
  <2> QED
    BY <1>2, <2>1, <2>2, <2>3, <2>5, <2>6 DEF TablesConsistent
<1>3. CASE SendOnConnect /\ modify_event(f, TRUE, TRUE, c) /\ UNCHANGED <<obj, out>>
  <2>1. crash' = "modify" /\ UNCHANGED <<handlers_, epoll>>
    BY <1>1, <1>3 DEF modify_event, tables
  <2> QED
    BY <1>3, <2>1, ConstantsAssumption
       DEF ConstantsAssumption, TablesConsistent, HandlersAreLive, WatchedHaveHandlers, InterestFollowsBuffer,
           DescriptorsUnique, DescriptorsOwned, SlotsOfConnections, Fds
<1> QED
  BY <1>2, <1>3 DEF open

\* close() of an open connection removes its entry and keeps its descriptor.
LEMMA CloseStep ==
    ASSUME TypeOK, TablesConsistent, crash = "none", pc # "destroyed", pc' = pc,
           NEW c \in Conns, obj[c] = "open", close(c)
    PROVE  /\ TablesConsistent' /\ crash' = "none"
           /\ \A g \in Fds : handlers_'[g] \in {handlers_[g], Absent}
           /\ obj' = [obj EXCEPT ![c] = "deleted"] /\ fdOf' = fdOf
<1> USE DEF TypeOK, TablesTyped, ConnsTyped
<1> DEFINE f == fdOf[c]
<1>1. f \in ConnFds /\ handlers_[f] = c
  BY DEF TablesConsistent, HandlersAreLive, DescriptorsOwned, Fds
<1>2. /\ epoll' = [epoll EXCEPT ![f] = "none"] /\ handlers_' = [handlers_ EXCEPT ![f] = Absent]
      /\ crash' = crash /\ obj' = [obj EXCEPT ![c] = "deleted"] /\ UNCHANGED <<fdOf, out>>
  BY <1>1, ConstantsAssumption DEF ConstantsAssumption, close, delete_event
<1>3. \A d \in Conns \ {c} : fdOf[d] # f
  BY <1>1, ConstantsAssumption DEF ConstantsAssumption, TablesConsistent, DescriptorsUnique
<1>4. HandlersAreLive'
  BY <1>1, <1>2, <1>3, ConstantsAssumption DEF ConstantsAssumption, TablesConsistent, HandlersAreLive, Fds
<1>5. WatchedHaveHandlers'
  BY <1>1, <1>2 DEF TablesConsistent, WatchedHaveHandlers, Fds
<1>6. \A d \in Conns : obj'[d] = "open" => epoll'[fdOf'[d]] = IF out'[d] > 0 THEN "WRITE" ELSE "READ"
  BY <1>1, <1>2, <1>3 DEF TablesConsistent, InterestFollowsBuffer, Fds
<1>7. InterestFollowsBuffer'
  BY <1>5, <1>6 DEF InterestFollowsBuffer, WatchedHaveHandlers
<1>8. DescriptorsUnique' /\ DescriptorsOwned' /\ SlotsOfConnections'
  BY <1>1, <1>2 DEF TablesConsistent, DescriptorsUnique, DescriptorsOwned, SlotsOfConnections, Fds
<1> QED
  BY <1>1, <1>2, <1>4, <1>5, <1>7, <1>8 DEF TablesConsistent

\* modify_event of an open connection keeps its entry; the interest that goes
\* with the new content of buffer_out_ is the one that send() and
\* do_handle_write() ask for.
LEMMA ModifyStep ==
    ASSUME TypeOK, TablesConsistent, crash = "none", pc # "destroyed", pc' = pc,
           NEW c \in Conns, obj[c] = "open", NEW n \in Nat, NEW w \in BOOLEAN,
           out' = [out EXCEPT ![c] = n], UNCHANGED <<obj, fdOf>>,
           \/ modify_event(fdOf[c], TRUE, w, c) /\ (w <=> n > 0)
           \/ UNCHANGED <<tables, crash>> /\ (n > 0 <=> out[c] > 0)
    PROVE  TablesConsistent' /\ crash' = "none" /\ handlers_' = handlers_
<1> USE DEF TypeOK, TablesTyped, ConnsTyped
<1> DEFINE f == fdOf[c]
<1>1. f \in ConnFds /\ handlers_[f] = c
  BY DEF TablesConsistent, HandlersAreLive, DescriptorsOwned, Fds
<1>2. epoll[f] # "none"
  BY <1>1, ConstantsAssumption DEF ConstantsAssumption, TablesConsistent, WatchedHaveHandlers, Fds
<1>3. epoll[f] = IF out[c] > 0 THEN "WRITE" ELSE "READ"
  BY DEF TablesConsistent, InterestFollowsBuffer
<1>4. /\ epoll' = [epoll EXCEPT ![f] = IF n > 0 THEN "WRITE" ELSE "READ"]
      /\ handlers_' = handlers_ /\ crash' = crash
  <2>1. CASE modify_event(f, TRUE, w, c) /\ (w <=> n > 0)
    <3>1. [handlers_ EXCEPT ![f] = c] = handlers_
      BY <1>1
    <3>2. Mask(TRUE, w) = IF n > 0 THEN "WRITE" ELSE "READ"
      BY <2>1 DEF Mask
    <3> QED
      BY <1>2, <2>1, <3>1, <3>2 DEF modify_event
  <2>2. CASE UNCHANGED <<tables, crash>> /\ (n > 0 <=> out[c] > 0)
    BY <1>3, <2>2 DEF tables
  <2> QED
    BY <2>1, <2>2
<1>5. \A d \in Conns \ {c} : fdOf[d] # f
  BY <1>1, ConstantsAssumption DEF ConstantsAssumption, TablesConsistent, DescriptorsUnique
<1>6. HandlersAreLive' /\ DescriptorsUnique' /\ DescriptorsOwned' /\ SlotsOfConnections'
  BY <1>4 DEF TablesConsistent, HandlersAreLive, DescriptorsUnique, DescriptorsOwned, SlotsOfConnections
<1>7. WatchedHaveHandlers'
  BY <1>1, <1>2, <1>4 DEF TablesConsistent, WatchedHaveHandlers, Fds
<1>8. \A d \in Conns : obj'[d] = "open" => epoll'[fdOf'[d]] = IF out'[d] > 0 THEN "WRITE" ELSE "READ"
  BY <1>1, <1>4, <1>5 DEF TablesConsistent, InterestFollowsBuffer, Fds
<1> QED
  BY <1>4, <1>6, <1>7, <1>8 DEF TablesConsistent, InterestFollowsBuffer, WatchedHaveHandlers

\* A callback that keeps or clears each handler with an entry left in the batch,
\* and frees no descriptor, leaves the rest of the batch as it was collected.
LEMMA EntriesStep ==
    ASSUME TypeOK, TablesConsistent, EntriesOwned, FirstRecvReturns, owner' = owner,
           ready' \in [Fds -> SUBSET Events], \A f \in Fds : ready'[f] \subseteq ready[f],
           pc # "destroyed",
           \A f \in Fds : ready'[f] # {} =>
               pc' = "dispatch" /\ handlers_'[f] \in {handlers_[f], Null, Absent},
           \A c \in Conns : obj[c] \in {"open", "deleted"} =>
               obj'[c] \in {"open", "deleted"} /\ fdOf'[c] = fdOf[c],
           \A c \in Conns : (inq[c] \/ peer[c] \in {"fin", "rst"}) =>
               \/ inq'[c] \/ peer'[c] \in {"fin", "rst"}
               \/ "READ" \notin ready'[fdOf[c]]
    PROVE  EntriesOwned' /\ FirstRecvReturns'
<1>1. EntriesOwned'
  BY DEF EntriesOwned
<1>2. ASSUME NEW c \in Conns, NEW f \in ConnFds, "READ" \in ready'[f], handlers_'[f] = c
      PROVE  inq'[c] \/ peer'[c] \in {"fin", "rst"}
  <2>1. "READ" \in ready[f] /\ handlers_[f] = c
    BY <1>2, ConstantsAssumption DEF ConstantsAssumption, Fds
  <2>2. fdOf[c] = f
    BY <2>1 DEF TablesConsistent, HandlersAreLive, Fds
  <2>3. inq[c] \/ peer[c] \in {"fin", "rst"}
    BY <2>1 DEF FirstRecvReturns
  <2> QED
    BY <1>2, <2>2, <2>3
<1> QED
  BY <1>1, <1>2 DEF FirstRecvReturns

\* Taking an entry shrinks the batch and nothing else of run()'s state.
LEMMA TakeStep ==
    ASSUME TypeOK, NEW f \in Fds, NEW ev \in Events, TakeEntry(f, ev)
    PROVE  /\ pc = "dispatch" /\ pc' = pc /\ owner' = owner
           /\ ready[f] # {} /\ ev \in ready[f]
           /\ ready' \in [Fds -> SUBSET Events]
           /\ \A g \in Fds : ready'[g] \subseteq ready[g]
           /\ ev \notin ready'[f]
BY DEF TypeOK, LoopTyped, TakeEntry

\* Accepting a connection: its descriptor is free, so no entry is left for it.
LEMMA AcceptStep ==
    ASSUME IInv, crash = "none", pc # "destroyed", pc' = pc,
           NEW c \in Backlog, NEW f \in FreeFds, accept(c, f)
    PROVE  /\ TablesConsistent' /\ FunctorTargetsLive' /\ TableAssertsHold'
           /\ \A g \in Fds : ready[g] # {} => handlers_'[g] = handlers_[g]
           /\ \A d \in Conns : obj[d] \in {"open", "deleted"} => obj'[d] = obj[d] /\ fdOf'[d] = fdOf[d]
<1> USE DEF IInv, TypeOK, TablesTyped, ConnsTyped
<1>1. c \in Conns /\ f \in ConnFds /\ obj[c] = "none" /\ \A d \in Conns : fdOf[d] # f
  BY DEF Backlog, FreeFds
<1>2. ~refuse(c) => /\ fdOf' = [fdOf EXCEPT ![c] = f] /\ fdOf' \in [Conns -> ConnFds \cup {Absent}]
                     /\ fdOf'[c] = f /\ \A d \in Conns \ {c} : fdOf'[d] = fdOf[d]
  BY <1>1 DEF accept
<1>3. ready[f] = {}
  BY <1>1 DEF EntriesOwned, Fds
<1>4. \A i \in DOMAIN functors_ : functors_[i] # c
  BY <1>1 DEF FunctorTargetsLive
<1>7. CASE refuse(c)
  <2>1. /\ obj' = [obj EXCEPT ![c] = "refused"]
        /\ UNCHANGED <<handlers_, epoll, fd_count_, functors_, fdOf, out, crash>>
    BY <1>7 DEF refuse, tables
  <2>2. fdOf[c] = Absent
    BY <1>1 DEF TablesConsistent, DescriptorsOwned
  <2>3. TablesConsistent'
    BY <1>1, <2>1, <2>2
       DEF TablesConsistent, HandlersAreLive, WatchedHaveHandlers, InterestFollowsBuffer,
           DescriptorsUnique, DescriptorsOwned, SlotsOfConnections
  <2>4. FunctorTargetsLive'
    BY <1>1, <1>4, <2>1 DEF FunctorTargetsLive, LoopTyped
  <2> QED
    BY <1>1, <2>1, <2>3, <2>4 DEF TableAssertsHold
<1>5. CASE ~refuse(c) /\ AcceptMode = "direct"
  <2>1. open(c, f) /\ functors_' = functors_
    BY <1>5 DEF accept
  <2>2. /\ TablesConsistent'
        /\ crash' = "none" \/ (crash' = "modify" /\ SendOnConnect)
        /\ \A g \in Fds \ {f} : handlers_'[g] = handlers_[g]
        /\ \A d \in Conns \ {c} : obj'[d] = obj[d]
    BY <1>1, <1>2, <1>5, <2>1, OpenStep
  <2>3. FunctorTargetsLive'
    BY <1>4, <2>1, <2>2 DEF FunctorTargetsLive, LoopTyped
  <2> QED
    BY <1>1, <1>2, <1>5, <1>3, <2>2, <2>3 DEF TableAssertsHold
<1>6. CASE ~refuse(c) /\ AcceptMode # "direct"
  <2>1. /\ obj' = [obj EXCEPT ![c] = "queued"] /\ functors_' = Append(functors_, c)
        /\ UNCHANGED <<handlers_, epoll, out, crash>>
    BY <1>6 DEF accept, tables
  <2>2. TablesConsistent'
    BY <1>1, <1>2, <1>6, <2>1, ConstantsAssumption
       DEF ConstantsAssumption, TablesConsistent, HandlersAreLive, WatchedHaveHandlers, InterestFollowsBuffer,
           DescriptorsUnique, DescriptorsOwned, SlotsOfConnections, Fds
  <2>3. FunctorTargetsLive'
    <3>1. functors_ \in Seq(Conns)
      BY DEF LoopTyped
    <3>2. \A i \in DOMAIN functors_' : IF i \in DOMAIN functors_ THEN functors_'[i] = functors_[i]
                                       ELSE i = Len(functors_) + 1 /\ functors_'[i] = c
      BY <1>1, <2>1, <3>1
    <3> QED
      BY <1>1, <1>4, <2>1, <3>1, <3>2 DEF FunctorTargetsLive
  <2> QED
    BY <1>1, <1>2, <1>6, <2>1, <2>2, <2>3 DEF TableAssertsHold
<1> QED
  BY <1>5, <1>6, <1>7

-----------------------------------------------------------------------------

\* The parts of IInv besides the types, to be shown of the next state.
Kept ==
    /\ TablesConsistent /\ EntriesOwned /\ FirstRecvReturns
    /\ FunctorTargetsLive /\ TableAssertsHold

LEMMA DispatchAcceptKeeps == ASSUME IInv, crash = "none", DispatchAccept PROVE Kept'
<1> USE DEF IInv
<1>1. TakeEntry(ListenFd, "READ") /\ UNCHANGED <<inq, peer>>
  BY DEF DispatchAccept, net
<1>2. /\ pc = "dispatch" /\ pc' = pc /\ owner' = owner /\ ready' \in [Fds -> SUBSET Events]
      /\ \A g \in Fds : ready'[g] \subseteq ready[g]
  BY <1>1, TakeStep DEF Fds, Events
<1>3. CASE UNCHANGED <<tables, functors_, conns, crash>>
  <2>1. EntriesOwned' /\ FirstRecvReturns'
    BY <1>1, <1>2, <1>3, EntriesStep DEF tables, conns
  <2>2. TablesConsistent'
    BY <1>2, <1>3 DEF tables, conns, TablesConsistent, HandlersAreLive, WatchedHaveHandlers,
       InterestFollowsBuffer, DescriptorsUnique, DescriptorsOwned, SlotsOfConnections
  <2> QED
    BY <1>3, <2>1, <2>2 DEF Kept, FunctorTargetsLive, TableAssertsHold, conns
<1>4. ASSUME NEW c \in Backlog, NEW f \in FreeFds, accept(c, f) PROVE Kept'
  <2>1. /\ TablesConsistent' /\ FunctorTargetsLive' /\ TableAssertsHold'
        /\ \A g \in Fds : ready[g] # {} => handlers_'[g] = handlers_[g]
        /\ \A d \in Conns : obj[d] \in {"open", "deleted"} => obj'[d] = obj[d] /\ fdOf'[d] = fdOf[d]
    BY <1>2, <1>4, AcceptStep
  <2>2. EntriesOwned' /\ FirstRecvReturns'
    BY <1>1, <1>2, <2>1, EntriesStep
  <2> QED
    BY <2>1, <2>2 DEF Kept
<1> QED
  BY <1>3, <1>4 DEF DispatchAccept

LEMMA DispatchReadKeeps == ASSUME IInv, crash = "none", NEW c \in Conns, DispatchRead(c) PROVE Kept'
<1> USE DEF IInv
<1>1. PICK f \in ConnFds : DispatchRead(c)!(f)
  BY DEF DispatchRead
<1>2. /\ pc = "dispatch" /\ pc' = pc /\ owner' = owner /\ ready' \in [Fds -> SUBSET Events]
      /\ \A g \in Fds : ready'[g] \subseteq ready[g]
      /\ "READ" \notin ready'[f]
  BY <1>1, TakeStep DEF Fds, Events
<1>3. obj[c] = "open" /\ fdOf[c] = f
  BY <1>1, <1>2 DEF Lookup, TablesConsistent, HandlersAreLive, Fds
<1>4. \A d \in Conns : (inq[d] \/ peer[d] \in {"fin", "rst"}) =>
         inq'[d] \/ peer'[d] \in {"fin", "rst"} \/ "READ" \notin ready'[fdOf[d]]
  BY <1>1, <1>2, <1>3 DEF TypeOK, OthersTyped
<1>5. ASSUME NEW v \in Conns, obj[v] = "open", close(v) PROVE Kept'
  <2>1. /\ TablesConsistent' /\ crash' = "none"
        /\ \A g \in Fds : handlers_'[g] \in {handlers_[g], Absent}
        /\ obj' = [obj EXCEPT ![v] = "deleted"] /\ fdOf' = fdOf
    BY <1>2, <1>5, CloseStep
  <2>2. EntriesOwned' /\ FirstRecvReturns'
    BY <1>2, <1>4, <2>1, EntriesStep DEF TypeOK, ConnsTyped, EntriesOwned
  <2>3. FunctorTargetsLive'
    BY <1>1, <1>5, <2>1 DEF FunctorTargetsLive, TypeOK, ConnsTyped, LoopTyped
  <2> QED
    BY <2>1, <2>2, <2>3 DEF Kept, TableAssertsHold
<1>6. ASSUME NEW n \in 1..MaxReply, send(c, n), UNCHANGED <<obj, fdOf>> PROVE Kept'
  <2>1. n \in Nat /\ n > 0 /\ out[c] \in Nat /\ out[c] + n \in Nat
    BY ConstantsAssumption DEF ConstantsAssumption, TypeOK, ConnsTyped
  <2>2. out' = [out EXCEPT ![c] = out[c] + n]
    BY <1>6 DEF send
  <2>3. \/ modify_event(fdOf[c], TRUE, TRUE, c) /\ (TRUE <=> out[c] + n > 0)
        \/ UNCHANGED <<tables, crash>> /\ (out[c] + n > 0 <=> out[c] > 0)
    <3>1. CASE out[c] = 0
      BY <1>6, <2>1, <3>1 DEF send, modify_event, Mask, tables
    <3>2. CASE out[c] # 0
      <4>1. out[c] > 0 /\ out[c] + n > 0
        BY <2>1, <3>2
      <4> QED
        BY <1>6, <3>2, <4>1 DEF send
    <3> QED
      BY <3>1, <3>2
  <2>4. TablesConsistent' /\ crash' = "none" /\ handlers_' = handlers_
    BY <1>2, <1>3, <1>6, <2>1, <2>2, <2>3, ModifyStep
  <2>5. EntriesOwned' /\ FirstRecvReturns'
    BY <1>2, <1>4, <1>6, <2>4, EntriesStep DEF EntriesOwned
  <2> QED
    BY <1>1, <1>6, <2>4, <2>5 DEF Kept, TableAssertsHold, FunctorTargetsLive
<1>7. CASE UNCHANGED <<tables, conns, crash>>
  <2>1. EntriesOwned' /\ FirstRecvReturns'
    BY <1>2, <1>4, <1>7, EntriesStep DEF EntriesOwned, tables, conns
  <2>2. TablesConsistent'
    BY <1>2, <1>7 DEF tables, conns, TablesConsistent, HandlersAreLive, WatchedHaveHandlers,
       InterestFollowsBuffer, DescriptorsUnique, DescriptorsOwned, SlotsOfConnections
  <2> QED
    BY <1>1, <1>7, <2>1, <2>2 DEF Kept, FunctorTargetsLive, TableAssertsHold, conns
<1> QED
  BY <1>1, <1>3, <1>5, <1>6, <1>7 DEF on_read

LEMMA DispatchWriteKeeps == ASSUME IInv, crash = "none", NEW c \in Conns, DispatchWrite(c) PROVE Kept'
<1> USE DEF IInv
<1>1. PICK f \in ConnFds : DispatchWrite(c)!(f)
  BY DEF DispatchWrite
<1>2. /\ pc = "dispatch" /\ pc' = pc /\ owner' = owner /\ ready' \in [Fds -> SUBSET Events]
      /\ \A g \in Fds : ready'[g] \subseteq ready[g]
  BY <1>1, TakeStep DEF Fds, Events
<1>3. obj[c] = "open" /\ fdOf[c] = f /\ UNCHANGED <<functors_, obj, fdOf, inq, peer>>
  BY <1>1, <1>2 DEF Lookup, TablesConsistent, HandlersAreLive, Fds, net
<1>4. CASE UNCHANGED <<tables, out>> /\ crash' \in {"none", "sigpipe"}
  <2>1. EntriesOwned' /\ FirstRecvReturns'
    BY <1>2, <1>3, <1>4, EntriesStep DEF EntriesOwned, tables
  <2>2. TablesConsistent'
    BY <1>2, <1>3, <1>4 DEF tables, TablesConsistent, HandlersAreLive, WatchedHaveHandlers,
       InterestFollowsBuffer, DescriptorsUnique, DescriptorsOwned, SlotsOfConnections
  <2> QED
    BY <1>3, <1>4, <2>1, <2>2 DEF Kept, FunctorTargetsLive, TableAssertsHold
<1>5. ASSUME NEW n \in 1..out[c], out' = [out EXCEPT ![c] = out[c] - n],
             IF n = out[c] THEN modify_event(fdOf[c], TRUE, FALSE, c) ELSE UNCHANGED <<tables, crash>>
      PROVE  Kept'
  <2>1. out[c] \in Nat /\ n \in Nat /\ out[c] - n \in Nat /\ out[c] > 0
    BY DEF TypeOK, ConnsTyped
  <2>2. \/ modify_event(fdOf[c], TRUE, FALSE, c) /\ (FALSE <=> out[c] - n > 0)
        \/ UNCHANGED <<tables, crash>> /\ (out[c] - n > 0 <=> out[c] > 0)
    <3>1. CASE n = out[c]
      BY <1>5, <2>1, <3>1 DEF modify_event, Mask, tables
    <3>2. CASE n # out[c]
      <4>1. out[c] > 0 /\ out[c] - n > 0
        BY <2>1, <3>2
      <4> QED
        BY <1>5, <3>2, <4>1
    <3> QED
      BY <3>1, <3>2
  <2>3. TablesConsistent' /\ crash' = "none" /\ handlers_' = handlers_
    BY <1>2, <1>3, <1>5, <2>1, <2>2, ModifyStep
  <2>4. EntriesOwned' /\ FirstRecvReturns'
    BY <1>2, <1>3, <2>3, EntriesStep DEF EntriesOwned
  <2> QED
    BY <1>3, <2>3, <2>4 DEF Kept, TableAssertsHold, FunctorTargetsLive
<1> QED
  BY <1>1, <1>4, <1>5

LEMMA DispatchErrorKeeps == ASSUME IInv, crash = "none", NEW c \in Conns, DispatchError(c) PROVE Kept'
<1> USE DEF IInv
<1>1. PICK f \in ConnFds : DispatchError(c)!(f)
  BY DEF DispatchError
<1>2. /\ pc = "dispatch" /\ pc' = pc /\ owner' = owner /\ ready' \in [Fds -> SUBSET Events]
      /\ \A g \in Fds : ready'[g] \subseteq ready[g]
  BY <1>1, TakeStep DEF Fds, Events
<1>3. obj[c] = "open" /\ UNCHANGED <<functors_, inq, peer>>
  BY <1>1, <1>2 DEF Lookup, TablesConsistent, HandlersAreLive, Fds, net
<1>4. /\ TablesConsistent' /\ crash' = "none"
      /\ \A g \in Fds : handlers_'[g] \in {handlers_[g], Absent}
      /\ obj' = [obj EXCEPT ![c] = "deleted"] /\ fdOf' = fdOf
  BY <1>1, <1>2, <1>3, CloseStep
<1>5. EntriesOwned' /\ FirstRecvReturns'
  BY <1>2, <1>3, <1>4, EntriesStep DEF TypeOK, ConnsTyped, EntriesOwned
<1>6. FunctorTargetsLive'
  BY <1>3, <1>4 DEF FunctorTargetsLive, TypeOK, ConnsTyped, LoopTyped
<1> QED
  BY <1>4, <1>5, <1>6 DEF Kept, TableAssertsHold

LEMMA HandleEventsKeeps == ASSUME IInv, HandleEvents PROVE Kept'
<1> USE DEF IInv
<1>1. /\ pc = "poll" /\ pc' = "dispatch" /\ owner' = handlers_
      /\ UNCHANGED <<handlers_, epoll, functors_, obj, fdOf, out, inq, peer, crash>>
      /\ \A f \in Fds : ready'[f] \in {Reported(f), {}}
  BY DEF HandleEvents, tables, conns, net
<1>2. TablesConsistent'
  BY <1>1 DEF TablesConsistent, HandlersAreLive, WatchedHaveHandlers, InterestFollowsBuffer,
     DescriptorsUnique, DescriptorsOwned, SlotsOfConnections
<1>3. ASSUME NEW f \in Fds, ready'[f] # {}, f \in ConnFds
      PROVE  \E c \in Conns : handlers_[f] = c /\ fdOf[c] = f /\ obj[c] = "open"
  <2>1. epoll[f] # "none"
    BY <1>1, <1>3 DEF Reported
  <2>2. handlers_[f] \in Conns
    BY <1>1, <1>3, <2>1 DEF TablesConsistent, WatchedHaveHandlers, SlotsOfConnections
  <2> QED
    BY <1>1, <2>2 DEF TablesConsistent, HandlersAreLive
<1>4. EntriesOwned'
  BY <1>1, <1>3 DEF EntriesOwned
<1>5. ASSUME NEW c \in Conns, NEW f \in ConnFds, "READ" \in ready'[f], handlers_'[f] = c
      PROVE  inq'[c] \/ peer'[c] \in {"fin", "rst"}
  <2>1. fdOf[c] = f
    BY <1>1, <1>5 DEF TablesConsistent, HandlersAreLive, Fds
  <2>2. Readable(f)
    BY <1>1, <1>5 DEF Reported, Fds
  <2>3. \E d \in Conns : fdOf[d] = f /\ (inq[d] \/ peer[d] \in {"fin", "rst"})
    BY <2>2, ConstantsAssumption DEF ConstantsAssumption, Readable
  <2>4. inq[c] \/ peer[c] \in {"fin", "rst"}
    BY <2>1, <2>3, ConstantsAssumption DEF ConstantsAssumption, TablesConsistent, DescriptorsUnique
  <2> QED
    BY <1>1, <2>4
<1> QED
  BY <1>1, <1>2, <1>4, <1>5 DEF Kept, FirstRecvReturns, FunctorTargetsLive, TableAssertsHold

LEMMA RunFunctorKeeps == ASSUME IInv, crash = "none", RunFunctor PROVE Kept'
<1> USE DEF IInv
<1> DEFINE c == Head(functors_)
           f == fdOf[c]
<1>1. functors_ \in Seq(Conns) /\ functors_ # <<>> /\ functors_' = Tail(functors_)
  BY DEF RunFunctor, TypeOK, LoopTyped
<1>2. c \in Conns /\ obj[c] = "queued" /\ \A i \in DOMAIN functors_' : functors_'[i] \in Conns \ {c}
                                                     /\ functors_'[i] = functors_[i + 1] /\ i + 1 \in DOMAIN functors_
  BY <1>1 DEF FunctorTargetsLive
<1>3. f \in ConnFds /\ \A d \in Conns \ {c} : fdOf[d] # f
  BY <1>2, ConstantsAssumption
     DEF ConstantsAssumption, TablesConsistent, DescriptorsOwned, DescriptorsUnique, TypeOK, ConnsTyped
<1>4. /\ pc = "drain" /\ open(c, f)
      /\ UNCHANGED <<pc, ready, owner, fdOf, inq, peer>>
  BY DEF RunFunctor, loopVars, net
<1>5. /\ TablesConsistent'
      /\ crash' = "none" \/ (crash' = "modify" /\ SendOnConnect)
      /\ \A d \in Conns \ {c} : obj'[d] = obj[d]
  BY <1>2, <1>3, <1>4, OpenStep DEF TypeOK, ConnsTyped
<1>6. \A g \in Fds : ready'[g] = {}
  BY <1>4 DEF EntriesOwned
<1>7. EntriesOwned' /\ FirstRecvReturns'
  BY <1>6 DEF EntriesOwned, FirstRecvReturns, Fds
<1>8. FunctorTargetsLive'
  BY <1>1, <1>2, <1>5 DEF FunctorTargetsLive
<1> QED
  BY <1>5, <1>7, <1>8 DEF Kept, TableAssertsHold

LEMMA DispatchNullKeeps == ASSUME IInv, DispatchNull PROVE Kept'
<1> USE DEF IInv
<1>1. PICK f \in Fds, ev \in Events : DispatchNull!(f, ev)
  BY DEF DispatchNull
<1>2. /\ pc = "dispatch" /\ pc' = pc /\ owner' = owner /\ ready' \in [Fds -> SUBSET Events]
      /\ \A g \in Fds : ready'[g] \subseteq ready[g]
  BY <1>1, TakeStep
<1>3. /\ handlers_' = [handlers_ EXCEPT ![f] = Null] /\ handlers_[f] \in {Null, Absent}
      /\ UNCHANGED <<epoll, functors_, obj, fdOf, out, inq, peer, crash>>
  BY <1>1 DEF Lookup, conns, net
<1>4. TablesConsistent'
  BY <1>2, <1>3, ConstantsAssumption
     DEF ConstantsAssumption, TypeOK, TablesTyped, TablesConsistent, HandlersAreLive, WatchedHaveHandlers,
         InterestFollowsBuffer, DescriptorsUnique, DescriptorsOwned, SlotsOfConnections, Fds
<1>5. \A g \in Fds : handlers_'[g] \in {handlers_[g], Null}
  BY <1>3 DEF TypeOK, TablesTyped
<1>6. EntriesOwned' /\ FirstRecvReturns'
  BY <1>2, <1>3, <1>5, EntriesStep DEF EntriesOwned
<1> QED
  BY <1>3, <1>4, <1>6 DEF Kept, FunctorTargetsLive, TableAssertsHold

LEMMA RemoteAcceptKeeps == ASSUME IInv, crash = "none", RemoteAccept PROVE Kept'
<1> USE DEF IInv
<1>1. PICK c \in Backlog, f \in FreeFds : accept(c, f)
  BY DEF RemoteAccept
<1>2. pc # "destroyed" /\ UNCHANGED <<pc, ready, owner, inq, peer>>
  BY DEF RemoteAccept, loopVars, net
<1>3. /\ TablesConsistent' /\ FunctorTargetsLive' /\ TableAssertsHold'
      /\ \A g \in Fds : ready[g] # {} => handlers_'[g] = handlers_[g]
      /\ \A d \in Conns : obj[d] \in {"open", "deleted"} => obj'[d] = obj[d] /\ fdOf'[d] = fdOf[d]
  BY <1>1, <1>2, AcceptStep
<1>4. EntriesOwned' /\ FirstRecvReturns'
  BY <1>2, <1>3, EntriesStep DEF EntriesOwned, TypeOK, LoopTyped
<1> QED
  BY <1>3, <1>4 DEF Kept

\* A step that leaves the tables and the connections alone keeps the invariant
\* when it keeps the batch, or starts or ends where no entry is left.
LEMMA ElsewhereKeeps ==
    ASSUME IInv, UNCHANGED <<tables, functors_, conns>>, UNCHANGED <<ready, owner>>,
           crash' = crash \/ crash' = "wakeup",
           pc' = pc \/ (pc # "destroyed" /\ pc' # "destroyed" /\ \A f \in Fds : ready[f] = {}),
           \A c \in Conns : (inq[c] \/ peer[c] \in {"fin", "rst"}) => (inq'[c] \/ peer'[c] \in {"fin", "rst"})
    PROVE  Kept'
<1> USE DEF IInv
<1>1. TablesConsistent'
  BY DEF tables, conns, TablesConsistent, HandlersAreLive, WatchedHaveHandlers,
     InterestFollowsBuffer, DescriptorsUnique, DescriptorsOwned, SlotsOfConnections
<1>2. EntriesOwned'
  BY DEF EntriesOwned, tables, conns
<1>3. FirstRecvReturns'
  BY DEF FirstRecvReturns, tables
<1> QED
  BY <1>1, <1>2, <1>3 DEF Kept, FunctorTargetsLive, TableAssertsHold, conns

LEMMA InvStep == IInv /\ [Next]_vars => IInv'
<1> SUFFICES ASSUME IInv, [Next]_vars PROVE Kept'
  BY TypeStep DEF IInv, Kept
<1> USE DEF IInv
<1>1. CASE UNCHANGED vars
  BY <1>1, ElsewhereKeeps DEF vars, loopVars, net
<1>2. ASSUME crash = "none", LoopStep PROVE Kept'
  <2>1. CASE Check \/ EndDispatch \/ EndDrain
    BY <2>1, ElsewhereKeeps DEF Check, EndDispatch, EndDrain, EntriesOwned, net
  <2>2. CASE HandleEvents
    BY <2>2, HandleEventsKeeps
  <2>3. CASE RunFunctor
    BY <1>2, <2>3, RunFunctorKeeps
  <2>4. CASE DispatchNull
    BY <2>4, DispatchNullKeeps
  <2>5. CASE DispatchWakeup
    <3>1. /\ pc = "dispatch" /\ pc' = pc /\ owner' = owner /\ ready' \in [Fds -> SUBSET Events]
          /\ \A g \in Fds : ready'[g] \subseteq ready[g]
      BY <2>5, TakeStep DEF DispatchWakeup, Fds, Events
    <3>2. EntriesOwned' /\ FirstRecvReturns'
      BY <2>5, <3>1, EntriesStep DEF DispatchWakeup, tables, conns, net
    <3>3. TablesConsistent'
      BY <1>2, <2>5, <3>1 DEF DispatchWakeup, tables, conns, TablesConsistent, HandlersAreLive, WatchedHaveHandlers,
         InterestFollowsBuffer, DescriptorsUnique, DescriptorsOwned, SlotsOfConnections
    <3> QED
      BY <2>5, <3>2, <3>3 DEF DispatchWakeup, Kept, FunctorTargetsLive, TableAssertsHold, conns
  <2>6. CASE DispatchAccept
    BY <1>2, <2>6, DispatchAcceptKeeps
  <2>7. ASSUME NEW c \in Conns, DispatchRead(c) \/ DispatchWrite(c) \/ DispatchError(c) PROVE Kept'
    BY <1>2, <2>7, DispatchReadKeeps, DispatchWriteKeeps, DispatchErrorKeeps
  <2> QED
    BY <1>2, <2>1, <2>2, <2>3, <2>4, <2>5, <2>6, <2>7 DEF LoopStep
<1>3. CASE Destroy
  <2>1. /\ pc = "exited" /\ pc' = "destroyed" /\ handlers_' = [f \in Fds |-> Absent]
        /\ UNCHANGED <<ready, owner, functors_, obj, fdOf, out, inq, peer, crash>>
    BY <1>3 DEF Destroy, conns, net
  <2>2. \A f \in Fds : ready'[f] = {}
    BY <2>1 DEF EntriesOwned
  <2>3. TablesConsistent'
    BY <2>1 DEF TablesConsistent, HandlersAreLive, WatchedHaveHandlers, InterestFollowsBuffer,
       DescriptorsUnique, DescriptorsOwned, SlotsOfConnections, Fds
  <2> QED
    BY <2>1, <2>2, <2>3 DEF Kept, EntriesOwned, FirstRecvReturns, Fds, FunctorTargetsLive, TableAssertsHold
<1>4. CASE QuitFlag \/ QuitWakeup \/ WakeupEvent
  BY <1>4, ElsewhereKeeps DEF QuitFlag, QuitWakeup, WakeupEvent, loopVars, net
<1>5. ASSUME NEW c \in Conns, Client(c) PROVE Kept'
  <2>1. \A d \in Conns : (inq[d] \/ peer[d] \in {"fin", "rst"}) => (inq'[d] \/ peer'[d] \in {"fin", "rst"})
    BY <1>5 DEF Client, TypeOK, OthersTyped
  <2> QED
    BY <1>5, <2>1, ElsewhereKeeps DEF Client, loopVars
<1>6. ASSUME crash = "none", RemoteAccept PROVE Kept'
  BY <1>6, RemoteAcceptKeeps
<1> QED
  BY <1>1, <1>2, <1>3, <1>4, <1>5, <1>6 DEF Next

LEMMA InvInit == Init => IInv
<1> SUFFICES ASSUME Init PROVE IInv
  OBVIOUS
<1>1. TypeOK
  BY TypeInit
<1>2. TablesConsistent
  BY ConstantsAssumption
     DEF ConstantsAssumption, Init, TablesConsistent, HandlersAreLive, WatchedHaveHandlers,
         InterestFollowsBuffer, DescriptorsUnique, DescriptorsOwned, SlotsOfConnections, Fds
<1>3. EntriesOwned /\ FirstRecvReturns
  BY DEF Init, EntriesOwned, FirstRecvReturns, Fds
<1>4. FunctorTargetsLive /\ TableAssertsHold
  BY DEF Init, FunctorTargetsLive, TableAssertsHold
<1> QED
  BY <1>1, <1>2, <1>3, <1>4 DEF IInv

\* The inductive invariant, from which the properties below follow.
THEOREM Invariance == Spec => []IInv
<1>1. Init => IInv
  BY InvInit
<1>2. IInv /\ [Next]_vars => IInv'
  BY InvStep
<1> QED
  BY <1>1, <1>2, PTL DEF Spec

\* run() never calls a freed connection: whatever callbacks close which
\* connections while entries for them are still in the batch, handlers_ holds
\* exactly the open ones, each under its own descriptor.
THEOREM NoCallIntoFreed == Spec => []HandlersAreLive
<1>1. IInv => HandlersAreLive
  BY DEF IInv, TablesConsistent
<1> QED
  BY <1>1, Invariance, PTL

\* What epoll watches is what send() and do_handle_write() leave to be done:
\* no reply stays in buffer_out_ unwatched, no connection stops reading.
THEOREM InterestCorrect == Spec => []InterestFollowsBuffer
<1>1. IInv => InterestFollowsBuffer
  BY DEF IInv, TablesConsistent
<1> QED
  BY <1>1, Invariance, PTL

\* An event collected for one handler never reaches another.
THEOREM EventsReachTheirHandler == Spec => []NoMisdelivery
<1>1. IInv => NoMisdelivery
  BY DEF IInv, EntriesOwned, NoMisdelivery
<1> QED
  BY <1>1, Invariance, PTL

\* The first recv() of do_handle_read never waits on the blocking socket.
THEOREM FirstRecvNeverWaits == Spec => []FirstRecvReturns
<1>1. IInv => FirstRecvReturns
  BY DEF IInv
<1> QED
  BY <1>1, Invariance, PTL

\* Every queued open() finds its connection allocated and runs once.
THEOREM FunctorsSafe == Spec => []FunctorTargetsLive
<1>1. IInv => FunctorTargetsLive
  BY DEF IInv
<1> QED
  BY <1>1, Invariance, PTL

\* The asserts on register_event and modify_event hold when on_connect does
\* not send.
THEOREM TableAssertsCorrect == Spec => []TableAssertsHold
<1>1. IInv => TableAssertsHold
  BY DEF IInv
<1> QED
  BY <1>1, Invariance, PTL

-----------------------------------------------------------------------------

\* A step watches at most one descriptor more, and counts it when it does.
Counted ==
    \/ Watched' \subseteq Watched /\ fd_count_' >= fd_count_
    \/ \E f \in Fds : Watched' \subseteq Watched \cup {f} /\ fd_count_' = fd_count_ + 1

LEMMA ModifyCounted ==
    ASSUME TypeOK, NEW f, NEW c
    PROVE  /\ modify_event(f, TRUE, TRUE, c) => Counted
           /\ modify_event(f, TRUE, FALSE, c) => Counted
BY DEF TypeOK, TablesTyped, modify_event, Mask, tables, Watched, Counted

LEMMA OpenCounted ==
    ASSUME TypeOK, NEW c \in Conns, NEW f \in Fds, open(c, f)
    PROVE  Counted
<1>1. CASE register_event(f, TRUE, FALSE, c)
  BY <1>1 DEF TypeOK, TablesTyped, register_event, Mask, tables, Watched, Counted
<1>2. CASE modify_event(f, TRUE, TRUE, c)
  BY <1>2, ModifyCounted, Zenon
<1> QED
  BY <1>1, <1>2 DEF open

LEMMA CloseCounted ==
    ASSUME TypeOK, NEW c \in Conns, close(c)
    PROVE  Watched' \subseteq Watched /\ fd_count_' >= fd_count_
BY DEF TypeOK, TablesTyped, close, delete_event, tables, Watched

LEMMA CountedStep == ASSUME IInv, [Next]_vars PROVE Counted
<1> USE DEF IInv
<1>a. ASSUME UNCHANGED <<epoll, fd_count_>> PROVE Counted
  BY <1>a DEF Counted, Watched, TypeOK, TablesTyped
<1>b. ASSUME NEW c \in Backlog, NEW f \in FreeFds, accept(c, f) PROVE Counted
  <2>1. c \in Conns /\ f \in Fds
    BY DEF Backlog, FreeFds, Fds
  <2> QED
    BY <1>a, <1>b, <2>1, OpenCounted DEF accept, refuse, tables
<1>1. CASE UNCHANGED vars
  BY <1>1, <1>a DEF vars, tables
<1>2. CASE Check \/ HandleEvents \/ EndDispatch \/ EndDrain \/ DispatchNull \/ DispatchWakeup
  BY <1>2, <1>a DEF Check, HandleEvents, EndDispatch, EndDrain, DispatchNull, DispatchWakeup, tables
<1>3. CASE RunFunctor
  <2>1. Head(functors_) \in Conns /\ obj[Head(functors_)] = "queued"
    BY <1>3 DEF RunFunctor, TypeOK, LoopTyped, FunctorTargetsLive
  <2>2. fdOf[Head(functors_)] \in Fds
    BY <2>1 DEF TablesConsistent, DescriptorsOwned, TypeOK, ConnsTyped, Fds
  <2> QED
    BY <1>3, <2>1, <2>2, OpenCounted DEF RunFunctor
<1>4. CASE DispatchAccept \/ RemoteAccept
  BY <1>4, <1>a, <1>b DEF DispatchAccept, RemoteAccept, tables
<1>5. ASSUME NEW c \in Conns, DispatchRead(c) PROVE Counted
  <2>1. ASSUME NEW v \in Conns, close(v) PROVE Counted
    BY <2>1, CloseCounted DEF Counted
  <2>2. ASSUME NEW n \in 1..MaxReply, send(c, n) PROVE Counted
    <3>1. modify_event(fdOf[c], TRUE, TRUE, c) => Counted
      BY ModifyCounted, Zenon
    <3>2. UNCHANGED tables => Counted
      BY <1>a DEF tables
    <3> QED
      BY <2>2, <3>1, <3>2 DEF send
  <2>3. UNCHANGED tables => Counted
    BY <1>a DEF tables
  <2> QED
    BY <1>5, <2>1, <2>2, <2>3 DEF DispatchRead, on_read
<1>6. ASSUME NEW c \in Conns, DispatchWrite(c) PROVE Counted
  <2>1. modify_event(fdOf[c], TRUE, FALSE, c) => Counted
    BY ModifyCounted, Zenon
  <2>2. UNCHANGED tables => Counted
    BY <1>a DEF tables
  <2> QED
    BY <1>6, <2>1, <2>2 DEF DispatchWrite
<1>7. ASSUME NEW c \in Conns, DispatchError(c) PROVE Counted
  BY <1>7, CloseCounted DEF DispatchError, Counted
<1>8. CASE Destroy
  BY <1>8 DEF Destroy, Counted, Watched, TypeOK, TablesTyped
<1>9. CASE QuitFlag \/ QuitWakeup \/ WakeupEvent \/ \E c \in Conns : Client(c)
  BY <1>9, <1>a DEF QuitFlag, QuitWakeup, WakeupEvent, Client, tables
<1> QED
  BY <1>1, <1>2, <1>3, <1>4, <1>5, <1>6, <1>7, <1>8, <1>9 DEF Next, LoopStep

LEMMA CapacityStep == IInv /\ CapacityCoversWatched /\ [Next]_vars => CapacityCoversWatched'
<1> SUFFICES ASSUME IInv, CapacityCoversWatched, [Next]_vars PROVE CapacityCoversWatched'
  OBVIOUS
<1>1. IsFiniteSet(Fds)
  <2>1. IsFiniteSet(ConnFds \cup {WakeFd}) /\ Fds = (ConnFds \cup {WakeFd}) \cup {ListenFd}
    BY ConstantsAssumption, FS_AddElement DEF ConstantsAssumption, Fds
  <2> QED
    BY <2>1, FS_AddElement
<1>2. IsFiniteSet(Watched) /\ Cardinality(Watched) \in Nat
  BY <1>1, FS_Subset, FS_CardinalityType DEF Watched
<1>3. fd_count_ \in Nat /\ fd_count_' \in Nat
  BY TypeStep DEF IInv, TypeOK, TablesTyped
<1>4. CASE Watched' \subseteq Watched /\ fd_count_' >= fd_count_
  <2>1. Cardinality(Watched') <= Cardinality(Watched) /\ Cardinality(Watched') \in Nat
    BY <1>2, <1>4, FS_Subset, FS_CardinalityType
  <2> QED
    BY <1>2, <1>3, <1>4, <2>1 DEF CapacityCoversWatched
<1>5. ASSUME NEW f \in Fds, Watched' \subseteq Watched \cup {f}, fd_count_' = fd_count_ + 1
      PROVE  CapacityCoversWatched'
  <2>1. IsFiniteSet(Watched \cup {f}) /\ Cardinality(Watched \cup {f}) \in Nat
        /\ Cardinality(Watched \cup {f}) <= Cardinality(Watched) + 1
    <3>1. /\ IsFiniteSet(Watched \cup {f})
          /\ Cardinality(Watched \cup {f}) \in {Cardinality(Watched), Cardinality(Watched) + 1}
      BY <1>2, FS_AddElement
    <3> QED
      BY <1>2, <3>1
  <2>2. Cardinality(Watched') <= Cardinality(Watched \cup {f}) /\ Cardinality(Watched') \in Nat
    BY <2>1, <1>5, FS_Subset, FS_CardinalityType
  <2> QED
    BY <1>2, <1>3, <1>5, <2>1, <2>2 DEF CapacityCoversWatched
<1> QED
  BY <1>4, <1>5, CountedStep DEF Counted

LEMMA CapacityInit == Init => CapacityCoversWatched
<1> SUFFICES ASSUME Init PROVE CapacityCoversWatched
  OBVIOUS
<1>1. CASE AcceptMode = "remote"
  <2>1. Watched = {WakeFd} /\ fd_count_ = 1
    BY <1>1, ConstantsAssumption DEF ConstantsAssumption, Init, Watched, Fds
  <2> QED
    BY <2>1, FS_Singleton DEF CapacityCoversWatched
<1>2. CASE AcceptMode # "remote"
  <2>1. Watched = {WakeFd} \cup {ListenFd} /\ fd_count_ = 2
    BY <1>2, ConstantsAssumption DEF ConstantsAssumption, Init, Watched, Fds
  <2>2. IsFiniteSet({WakeFd}) /\ Cardinality({WakeFd}) = 1
    BY FS_Singleton
  <2>3. Cardinality({WakeFd} \cup {ListenFd}) <= 2
    BY <2>2, FS_AddElement
  <2> QED
    BY <2>1, <2>3 DEF CapacityCoversWatched
<1> QED
  BY <1>1, <1>2

\* fd_count_ never undercounts the interest list, so look_events always has
\* room for every ready descriptor, although del_event counts up as well.
THEOREM CapacityCorrect == Spec => []CapacityCoversWatched
<1>1. Init => IInv /\ CapacityCoversWatched
  BY InvInit, CapacityInit
<1>2. IInv /\ CapacityCoversWatched /\ [Next]_vars => (IInv /\ CapacityCoversWatched)'
  BY InvStep, CapacityStep
<1> QED
  BY <1>1, <1>2, PTL DEF Spec

\* epoll_wait is given room for fd_count_ entries and run() starts from what fits:
\* no ready descriptor is ever left for a later batch, so that none can be put off
\* for ever by others that are ready again.
WholeBatch == [][pc = "poll" /\ pc' = "dispatch" => ready' = [f \in Fds |-> Reported(f)]]_vars

\* A full array holds every descriptor that is watched, and so all that are ready.
LEMMA FullBatch ==
    ASSUME IInv, CapacityCoversWatched, NEW batch \in SUBSET {f \in Fds : Reported(f) # {}}, Collect(batch)
    PROVE  batch = {f \in Fds : Reported(f) # {}}
<1> DEFINE R == {f \in Fds : Reported(f) # {}}
<1> SUFFICES ASSUME Cardinality(batch) = fd_count_ PROVE batch = R
  BY DEF Collect
<1>1. IsFiniteSet(Watched)
  <2>1. IsFiniteSet(ConnFds \cup {WakeFd}) /\ Fds = (ConnFds \cup {WakeFd}) \cup {ListenFd}
    BY ConstantsAssumption, FS_AddElement DEF ConstantsAssumption, Fds
  <2>2. IsFiniteSet(Fds)
    BY <2>1, FS_AddElement
  <2> QED
    BY <2>2, FS_Subset DEF Watched
<1>2. R \subseteq Watched
  BY DEF Reported, Watched
<1>3. IsFiniteSet(R) /\ Cardinality(R) <= Cardinality(Watched)
  BY <1>1, <1>2, FS_Subset
<1>4. Cardinality(batch) <= Cardinality(R) /\ (Cardinality(R) = Cardinality(batch) => R = batch)
  BY <1>3, FS_Subset
<1>5. Cardinality(Watched) <= Cardinality(batch)
  BY DEF CapacityCoversWatched
<1>6. Cardinality(R) \in Nat /\ Cardinality(Watched) \in Nat /\ Cardinality(batch) \in Nat
  BY <1>1, <1>3, FS_CardinalityType, FS_Subset
<1> QED
  BY <1>3, <1>4, <1>5, <1>6

\* Although del_event only ever adds to fd_count_, look_events reports all that is
\* ready in every turn of the loop.
THEOREM NothingLeftOut == Spec => WholeBatch
<1>1. ASSUME IInv, CapacityCoversWatched, [Next]_vars
      PROVE  [pc = "poll" /\ pc' = "dispatch" => ready' = [f \in Fds |-> Reported(f)]]_vars
  <2> SUFFICES ASSUME Next, pc = "poll", pc' = "dispatch"
               PROVE  ready' = [f \in Fds |-> Reported(f)]
    BY <1>1
  <2>1. HandleEvents
    BY DEF Next, LoopStep, Check, EndDispatch, RunFunctor, EndDrain, DispatchNull, DispatchWakeup, DispatchAccept,
           DispatchRead, DispatchWrite, DispatchError, TakeEntry, Destroy, QuitFlag, QuitWakeup, WakeupEvent,
           RemoteAccept, Client, loopVars
  <2>2. PICK batch \in SUBSET {f \in Fds : Reported(f) # {}} :
            /\ Collect(batch)
            /\ ready' = [f \in Fds |-> IF f \in batch THEN Reported(f) ELSE {}]
    BY <2>1 DEF HandleEvents
  <2>3. batch = {f \in Fds : Reported(f) # {}}
    BY <1>1, <2>2, FullBatch
  <2> QED
    BY <2>2, <2>3
<1>2. IInv /\ CapacityCoversWatched /\ [Next]_vars => (IInv /\ CapacityCoversWatched)'
  BY InvStep, CapacityStep
<1> QED
  BY <1>1, <1>2, InvInit, CapacityInit, PTL DEF Spec, WholeBatch

-----------------------------------------------------------------------------
(* The loop keeps the promise of EventLoop.                                 *)

\* What is left in the batch is still so when its turn comes: a connection about
\* to be read has sent everything, one about to be written has something to
\* send, and an error is reported of a connection that was reset.
EntriesFollowBuffer ==
    \A c \in Conns : \A f \in ConnFds : handlers_[f] = c =>
        /\ "READ" \in ready[f] => out[c] = 0
        /\ "WRITE" \in ready[f] => out[c] > 0
        /\ "ERROR" \in ready[f] => peer[c] = "rst"

\* A step that takes entries away, and changes the buffer of a connection only
\* when at most an error is left for it.
LEMMA FollowFrame ==
    ASSUME EntriesFollowBuffer,
           \A f \in ConnFds : ready'[f] \subseteq ready[f],
           \A c \in Conns : \A f \in ConnFds : (ready'[f] # {} /\ handlers_'[f] = c) =>
               /\ handlers_[f] = c
               /\ out'[c] = out[c] \/ ready'[f] \subseteq {"ERROR"}
               /\ peer[c] = "rst" => peer'[c] = "rst"
    PROVE  EntriesFollowBuffer'
<1> SUFFICES ASSUME NEW c \in Conns, NEW f \in ConnFds, handlers_'[f] = c, ready'[f] # {}
             PROVE  /\ "READ" \in ready'[f] => out'[c] = 0
                    /\ "WRITE" \in ready'[f] => out'[c] > 0
                    /\ "ERROR" \in ready'[f] => peer'[c] = "rst"
  BY DEF EntriesFollowBuffer
<1> QED
  BY DEF EntriesFollowBuffer

LEMMA FollowRead ==
    ASSUME IInv, EntriesFollowBuffer, crash = "none", NEW c \in Conns, DispatchRead(c)
    PROVE  EntriesFollowBuffer'
<1> USE DEF IInv
<1>1. PICK f \in ConnFds : DispatchRead(c)!(f)
  BY DEF DispatchRead
<1>2. /\ pc = "dispatch" /\ pc' = pc /\ \A g \in Fds : ready'[g] \subseteq ready[g]
      /\ "READ" \in ready[f] /\ "READ" \notin ready'[f] /\ ready[f] \subseteq Events
  BY <1>1, TakeStep DEF Fds, Events, TypeOK, LoopTyped
<1>3. obj[c] = "open" /\ fdOf[c] = f /\ handlers_[f] = c
  BY <1>1, <1>2 DEF Lookup, TablesConsistent, HandlersAreLive, Fds
<1>4. ready'[f] \subseteq {"ERROR"}
  BY <1>2, <1>3 DEF EntriesFollowBuffer, Events, TypeOK, ConnsTyped, Fds
<1>5. peer' = peer
  BY <1>1
<1>6. ASSUME NEW v \in Conns, obj[v] = "open", close(v) PROVE EntriesFollowBuffer'
  <2>1. \A g \in Fds : handlers_'[g] \in {handlers_[g], Absent}
    BY <1>2, <1>6, CloseStep DEF close
  <2> QED
    BY <1>2, <1>5, <1>6, <2>1, FollowFrame, ConstantsAssumption DEF close, Fds, ConstantsAssumption
<1>7. ASSUME NEW n \in 1..MaxReply, send(c, n), UNCHANGED <<obj, fdOf>> PROVE EntriesFollowBuffer'
  <2>1. handlers_' = handlers_
    <3>1. [handlers_ EXCEPT ![f] = c] = handlers_
      BY <1>3 DEF TypeOK, TablesTyped
    <3> QED
      BY <1>3, <1>7, <3>1 DEF send, modify_event, tables
  <2>2. \A d \in Conns \ {c} : out'[d] = out[d]
    BY <1>7 DEF send, TypeOK, ConnsTyped
  <2>3. \A g \in ConnFds : handlers_[g] = c => g = f
    BY <1>2, <1>3 DEF TablesConsistent, HandlersAreLive, Fds
  <2> QED
    BY <1>2, <1>4, <1>5, <2>1, <2>2, <2>3, FollowFrame DEF Fds
<1>8. CASE UNCHANGED <<tables, conns, crash>>
  BY <1>2, <1>5, <1>8, FollowFrame DEF tables, conns, Fds
<1> QED
  BY <1>1, <1>3, <1>6, <1>7, <1>8 DEF on_read

LEMMA FollowWrite ==
    ASSUME IInv, EntriesFollowBuffer, crash = "none", NEW c \in Conns, DispatchWrite(c)
    PROVE  EntriesFollowBuffer'
<1> USE DEF IInv
<1>1. PICK f \in ConnFds : DispatchWrite(c)!(f)
  BY DEF DispatchWrite
<1>2. /\ pc = "dispatch" /\ \A g \in Fds : ready'[g] \subseteq ready[g]
      /\ ready'[f] \subseteq {"ERROR"}
  BY <1>1, TakeStep DEF Fds, Events, TypeOK, LoopTyped, TakeEntry
<1>3. fdOf[c] = f /\ handlers_[f] = c /\ peer' = peer
  BY <1>1, <1>2 DEF Lookup, TablesConsistent, HandlersAreLive, Fds, net
<1>4. handlers_' = handlers_
  <2>1. [handlers_ EXCEPT ![f] = c] = handlers_
    BY <1>3 DEF TypeOK, TablesTyped
  <2> QED
    BY <1>1, <1>3, <2>1 DEF modify_event, tables
<1>5. \A d \in Conns \ {c} : out'[d] = out[d]
  BY <1>1 DEF TypeOK, ConnsTyped
<1>6. \A g \in ConnFds : handlers_[g] = c => g = f
  BY <1>2, <1>3 DEF TablesConsistent, HandlersAreLive, Fds
<1> QED
  BY <1>2, <1>3, <1>4, <1>5, <1>6, FollowFrame DEF Fds

LEMMA FollowAccept ==
    ASSUME IInv, EntriesFollowBuffer, crash = "none", pc # "destroyed", pc' = pc,
           \A f \in Fds : ready'[f] \subseteq ready[f], peer' = peer,
           NEW c \in Backlog, NEW f \in FreeFds, accept(c, f)
    PROVE  EntriesFollowBuffer'
<1> USE DEF IInv
<1>1. \A g \in Fds : ready[g] # {} => handlers_'[g] = handlers_[g]
  BY AcceptStep
<1>2. c \in Conns /\ f \in ConnFds /\ obj[c] = "none"
  BY DEF Backlog, FreeFds
<1>3. \A d \in Conns \ {c} : out'[d] = out[d]
  BY <1>2 DEF accept, refuse, open, TypeOK, ConnsTyped
<1>4. \A g \in Fds : handlers_[g] # c
  BY <1>2 DEF TablesConsistent, HandlersAreLive
<1> QED
  BY <1>1, <1>3, <1>4, FollowFrame DEF Fds

LEMMA FollowStep == IInv /\ EntriesFollowBuffer /\ [Next]_vars => EntriesFollowBuffer'
<1> SUFFICES ASSUME IInv, EntriesFollowBuffer, [Next]_vars PROVE EntriesFollowBuffer'
  OBVIOUS
<1> USE DEF IInv
<1>1. ASSUME UNCHANGED <<handlers_, out, peer>>, \A f \in ConnFds : ready'[f] \subseteq ready[f]
      PROVE  EntriesFollowBuffer'
  BY <1>1, FollowFrame
<1>2. CASE UNCHANGED vars \/ Check \/ EndDispatch \/ EndDrain \/ QuitFlag \/ QuitWakeup \/ WakeupEvent
  BY <1>1, <1>2 DEF vars, loopVars, tables, conns, net, Check, EndDispatch, EndDrain, QuitFlag, QuitWakeup, WakeupEvent
<1>3. ASSUME crash = "none", HandleEvents PROVE EntriesFollowBuffer'
  <2>1. /\ \A f \in Fds : ready'[f] \in {Reported(f), {}}
        /\ pc = "poll" /\ UNCHANGED <<handlers_, out, peer>>
    BY <1>3 DEF HandleEvents, tables, conns, net
  <2> SUFFICES ASSUME NEW c \in Conns, NEW f \in ConnFds, handlers_[f] = c, ready'[f] = Reported(f)
               PROVE  /\ "READ" \in Reported(f) => out[c] = 0
                      /\ "WRITE" \in Reported(f) => out[c] > 0
                      /\ "ERROR" \in Reported(f) => peer[c] = "rst"
    BY <2>1 DEF EntriesFollowBuffer, Fds
  <2>2. obj[c] = "open" /\ fdOf[c] = f
    BY <2>1 DEF TablesConsistent, HandlersAreLive, Fds
  <2>3. \A d \in Conns : fdOf[d] = f => d = c
    BY <2>2, ConstantsAssumption DEF ConstantsAssumption, TablesConsistent, DescriptorsUnique
  <2>4. crash = "none" => epoll[f] = IF out[c] > 0 THEN "WRITE" ELSE "READ"
    BY <2>1, <2>2 DEF TablesConsistent, InterestFollowsBuffer
  <2>5. crash = "none" /\ out[c] \in Nat
    BY <1>3 DEF TypeOK, ConnsTyped
  <2> QED
    BY <2>3, <2>4, <2>5 DEF Reported, Reset
<1>4. CASE RunFunctor
  <2>1. \A f \in Fds : ready'[f] = {}
    BY <1>4 DEF RunFunctor, EntriesOwned, loopVars
  <2> QED
    BY <2>1 DEF EntriesFollowBuffer, Fds
<1>5. CASE DispatchNull
  <2>1. PICK f \in Fds, ev \in Events : DispatchNull!(f, ev)
    BY <1>5 DEF DispatchNull
  <2>2. \A g \in Fds : ready'[g] \subseteq ready[g]
    BY <2>1, TakeStep
  <2>3. \A g \in Fds : handlers_'[g] \in {handlers_[g], Null}
    BY <2>1 DEF TypeOK, TablesTyped
  <2> QED
    BY <2>1, <2>2, <2>3, FollowFrame, ConstantsAssumption DEF Fds, conns, net, ConstantsAssumption
<1>6. CASE DispatchWakeup
  <2>1. \A g \in Fds : ready'[g] \subseteq ready[g]
    BY <1>6, TakeStep DEF DispatchWakeup, Fds, Events
  <2> QED
    BY <1>1, <1>6, <2>1 DEF DispatchWakeup, tables, conns, net, Fds
<1>7. ASSUME crash = "none", DispatchAccept PROVE EntriesFollowBuffer'
  <2>1. pc = "dispatch" /\ pc' = pc /\ \A g \in Fds : ready'[g] \subseteq ready[g]
    BY <1>7, TakeStep DEF DispatchAccept, Fds, Events
  <2> QED
    BY <1>1, <1>7, <2>1, FollowAccept DEF DispatchAccept, tables, conns, net, Fds
<1>8. ASSUME crash = "none", RemoteAccept PROVE EntriesFollowBuffer'
  BY <1>8, FollowAccept DEF RemoteAccept, loopVars, net
<1>9. ASSUME crash = "none", NEW c \in Conns, DispatchError(c) PROVE EntriesFollowBuffer'
  <2>1. PICK f \in ConnFds : DispatchError(c)!(f)
    BY <1>9 DEF DispatchError
  <2>2. pc = "dispatch" /\ pc' = pc /\ \A g \in Fds : ready'[g] \subseteq ready[g]
    BY <2>1, TakeStep DEF Fds, Events
  <2>3. obj[c] = "open"
    BY <2>1, <2>2 DEF Lookup, TablesConsistent, HandlersAreLive, Fds
  <2>4. \A g \in Fds : handlers_'[g] \in {handlers_[g], Absent}
    BY <1>9, <2>1, <2>2, <2>3, CloseStep
  <2> QED
    BY <2>1, <2>2, <2>4, FollowFrame, ConstantsAssumption DEF close, net, Fds, ConstantsAssumption
<1>10. CASE Destroy
  <2>1. \A f \in ConnFds : handlers_'[f] = Absent
    BY <1>10 DEF Destroy, Fds
  <2> QED
    BY <2>1, ConstantsAssumption DEF EntriesFollowBuffer, ConstantsAssumption
<1>11. ASSUME NEW c \in Conns, Client(c) PROVE EntriesFollowBuffer'
  <2>1. UNCHANGED <<handlers_, out, ready>>
    BY <1>11 DEF Client, loopVars, tables, conns
  <2>2. \A d \in Conns : peer[d] = "rst" => peer'[d] = "rst"
    BY <1>11 DEF Client, TypeOK, OthersTyped
  <2> QED
    BY <2>1, <2>2, FollowFrame
<1> QED
  BY <1>2, <1>3, <1>4, <1>5, <1>6, <1>7, <1>8, <1>9, <1>10, <1>11, FollowRead, FollowWrite DEF Next, LoopStep

LEMMA FollowInit == Init => EntriesFollowBuffer
BY DEF Init, EntriesFollowBuffer, Fds

-----------------------------------------------------------------------------

\* No thread but the one in quit() wakes the loop more often than it may, and an
\* eventfd reported readable stays so until it is read.
WakeupsCounted ==
    /\ eventfd <= wakeups + (IF quitter = "done" THEN 1 ELSE 0)
    /\ "READ" \in ready[WakeFd] => eventfd > 0

LEMMA WakeupsStep == ASSUME IInv, WakeupsCounted, [Next]_vars PROVE WakeupsCounted'
<1> USE DEF IInv, TypeOK, OthersTyped
<1>1. ASSUME UNCHANGED threads, ready'[WakeFd] \subseteq ready[WakeFd] PROVE WakeupsCounted'
  BY <1>1 DEF WakeupsCounted, threads
<1>2. CASE UNCHANGED vars \/ Check \/ EndDispatch \/ RunFunctor \/ EndDrain \/ Destroy \/ RemoteAccept
           \/ \E c \in Conns : Client(c)
  BY <1>1, <1>2 DEF vars, loopVars, Check, EndDispatch, RunFunctor, EndDrain, Destroy, RemoteAccept, Client
<1>3. CASE HandleEvents
  <2>1. UNCHANGED threads /\ ready'[WakeFd] \in {Reported(WakeFd), {}}
    BY <1>3 DEF HandleEvents, Fds
  <2>2. Readable(WakeFd) <=> eventfd > 0
    BY ConstantsAssumption DEF ConstantsAssumption, Readable
  <2>3. "READ" \in Reported(WakeFd) => Readable(WakeFd)
    BY DEF Reported
  <2> QED
    BY <2>1, <2>2, <2>3 DEF WakeupsCounted, threads
<1>4. CASE DispatchNull \/ DispatchAccept
           \/ \E c \in Conns : DispatchRead(c) \/ DispatchWrite(c) \/ DispatchError(c)
  <2>1. PICK f \in Fds, ev \in Events : TakeEntry(f, ev) /\ UNCHANGED threads
    BY <1>4 DEF DispatchNull, DispatchAccept, DispatchRead, DispatchWrite, DispatchError, Fds, Events
  <2>2. ready'[WakeFd] \subseteq ready[WakeFd]
    BY <2>1, TakeStep DEF Fds
  <2> QED
    BY <1>1, <2>1, <2>2
<1>5. CASE DispatchWakeup
  <2>1. "READ" \notin ready'[WakeFd]
    BY <1>5, TakeStep DEF DispatchWakeup, Fds, Events
  <2>2. eventfd' = 0 /\ UNCHANGED <<wakeups, quitter>>
    BY <1>5 DEF DispatchWakeup
  <2> QED
    BY <2>1, <2>2 DEF WakeupsCounted
<1>6. CASE QuitFlag \/ QuitWakeup \/ WakeupEvent
  BY <1>6 DEF QuitFlag, QuitWakeup, WakeupEvent, WakeupsCounted, loopVars
<1> QED
  BY <1>2, <1>3, <1>4, <1>5, <1>6 DEF Next, LoopStep

LEMMA WakeupsInit == Init => WakeupsCounted
BY DEF Init, WakeupsCounted, Fds

\* A step of the loop's own tables, or of the threads that wake it, is none of
\* EventLoop's.
LEMMA PromiseStutter ==
    ASSUME UNCHANGED <<obj, functors_, out, inq, peer, quit_, crash>>,
           pc' \in {"exited", "destroyed"} <=> pc \in {"exited", "destroyed"}
    PROVE  UNCHANGED Promise!vars
BY DEF Promise!vars

\* open() of a connection with a descriptor of its own opens it, or on_connect
\* sends before it is registered and an assertion ends the process.
LEMMA OpenOutcome ==
    ASSUME IInv, crash = "none", pc # "destroyed", NEW c \in Conns, NEW f \in ConnFds, open(c, f),
           obj[c] # "open", \A d \in Conns \ {c} : fdOf[d] # f
    PROVE  \/ /\ crash' = "none"
              /\ obj' = [obj EXCEPT ![c] = "open"] /\ out' = [out EXCEPT ![c] = 0]
           \/ SendOnConnect /\ crash' = "modify" /\ UNCHANGED <<obj, out>>
<1>1. epoll[f] = "none"
  BY FreeIsUnwatched DEF IInv
<1> QED
  BY <1>1 DEF open, register_event, modify_event

LEMMA OpenIsWatched ==
    ASSUME IInv, pc # "destroyed", NEW c \in Conns, obj[c] = "open"
    PROVE  epoll[fdOf[c]] # "none"
<1>1. fdOf[c] \in ConnFds /\ handlers_[fdOf[c]] = c
  BY DEF IInv, TypeOK, ConnsTyped, TablesConsistent, HandlersAreLive, DescriptorsOwned, Fds
<1> QED
  BY <1>1, ConstantsAssumption DEF ConstantsAssumption, IInv, TablesConsistent, WatchedHaveHandlers, Fds

\* Whichever thread accepts, it is EventLoop's Accept or the end of the process.
LEMMA PromiseAccept ==
    ASSUME IInv, crash = "none", pc # "destroyed", UNCHANGED <<pc, quit_, inq, peer>>,
           pc = "exited" => AcceptMode = "remote",
           NEW c \in Backlog, NEW f \in FreeFds, accept(c, f)
    PROVE  Promise!Accept(c) \/ Promise!OpenAssertion
<1> USE DEF IInv, TypeOK
<1>1. c \in Conns /\ f \in ConnFds /\ obj[c] = "none" /\ peer[c] # "idle" /\ \A d \in Conns : fdOf[d] # f
  BY DEF Backlog, FreeFds
<1>2. CASE refuse(c)
  BY <1>1, <1>2 DEF refuse, Promise!Accept
<1>3. CASE AcceptMode = "direct" /\ open(c, f) /\ UNCHANGED functors_
  <2>1. CASE /\ crash' = "none"
             /\ obj' = [obj EXCEPT ![c] = "open"] /\ out' = [out EXCEPT ![c] = 0]
    BY <1>1, <1>3, <2>1 DEF Promise!Accept, Promise!Opened
  <2>2. CASE SendOnConnect /\ crash' = "modify" /\ UNCHANGED <<obj, out>>
    BY <1>1, <1>3, <2>2 DEF Promise!OpenAssertion, Promise!Ended
  <2> QED
    BY <1>1, <1>3, <2>1, <2>2, OpenOutcome
<1>4. CASE /\ AcceptMode # "direct" /\ obj' = [obj EXCEPT ![c] = "queued"]
           /\ functors_' = Append(functors_, c) /\ UNCHANGED <<out, crash>>
  BY <1>1, <1>4 DEF Promise!Accept
<1> QED
  BY <1>2, <1>3, <1>4 DEF accept

\* do_handle_read calls an open connection that has sent everything.
LEMMA PromiseRead ==
    ASSUME IInv, EntriesFollowBuffer, crash = "none", NEW c \in Conns, DispatchRead(c)
    PROVE  Promise!Read(c)
<1> USE DEF IInv
<1>1. PICK f \in ConnFds : DispatchRead(c)!(f)
  BY DEF DispatchRead
<1>2. /\ pc = "dispatch" /\ pc' = pc /\ UNCHANGED <<quit_, functors_, peer>> /\ "READ" \in ready[f]
  BY <1>1, TakeStep DEF TakeEntry
<1>3. obj[c] = "open" /\ fdOf[c] = f /\ out[c] = 0
  BY <1>1, <1>2 DEF Lookup, TablesConsistent, HandlersAreLive, EntriesFollowBuffer, Fds
<1>4. ASSUME NEW v \in Conns, obj[v] = "open", close(v)
      PROVE  Promise!Closed(v) /\ crash' = crash
  BY <1>4 DEF close, Promise!Closed
<1>5. ASSUME NEW n \in 1..MaxReply, send(c, n), UNCHANGED obj
      PROVE  Promise!Replied(c) /\ crash' = crash
  <2>1. n \in Nat /\ n > 0 /\ out[c] \in Nat
    BY ConstantsAssumption DEF ConstantsAssumption, TypeOK, ConnsTyped
  <2>2. out' = [out EXCEPT ![c] = out[c] + n] /\ out'[c] = out[c] + n
    BY <1>5 DEF send, TypeOK, ConnsTyped
  <2>3. crash' = crash
    BY <1>2, <1>3, <1>5, OpenIsWatched DEF send, modify_event
  <2>4. out' = [out EXCEPT ![c] = out'[c]]
    BY <2>2, Zenon
  <2>5. out'[c] \in Nat /\ out'[c] > out[c]
    BY <2>1, <2>2
  <2> QED
    BY <1>5, <2>3, <2>4, <2>5 DEF Promise!Replied
<1>6. CASE inq[c] /\ inq' = [inq EXCEPT ![c] = FALSE] /\ on_read(c)
  <2>1. \/ UNCHANGED <<obj, out, crash>>
        \/ Promise!Replied(c) /\ crash' = crash
        \/ \E v \in Conns \ {c} : Promise!Closed(v) /\ crash' = crash
    BY <1>4, <1>5, <1>6 DEF on_read, conns
  <2> QED
    BY <1>2, <1>3, <1>6, <2>1 DEF Promise!Read
<1>7. CASE ~inq[c] /\ peer[c] \in {"fin", "rst"} /\ close(c) /\ UNCHANGED inq
  BY <1>2, <1>3, <1>4, <1>7 DEF Promise!Read
<1> QED
  BY <1>1, <1>6, <1>7

\* do_handle_write sends some of what is there, fails, or is killed by SIGPIPE.
LEMMA PromiseWrite ==
    ASSUME IInv, EntriesFollowBuffer, crash = "none", NEW c \in Conns, DispatchWrite(c)
    PROVE  Promise!Write(c) \/ Promise!Sigpipe(c) \/ UNCHANGED Promise!vars
<1> USE DEF IInv
<1>1. PICK f \in ConnFds : DispatchWrite(c)!(f)
  BY DEF DispatchWrite
<1>2. /\ pc = "dispatch" /\ pc' = pc
      /\ UNCHANGED <<quit_, functors_, obj, fdOf, inq, peer>>
      /\ "WRITE" \in ready[f]
  BY <1>1, TakeStep DEF TakeEntry, net
<1>3. obj[c] = "open" /\ out[c] > 0
  BY <1>1, <1>2 DEF Lookup, TablesConsistent, HandlersAreLive, EntriesFollowBuffer, Fds
<1>4. CASE peer[c] = "rst" /\ crash' \in {"none", "sigpipe"} /\ UNCHANGED out
  <2>1. CASE crash' = "none"
    BY <1>2, <1>4, <2>1, PromiseStutter
  <2>2. CASE crash' = "sigpipe"
    BY <1>2, <1>3, <1>4, <2>2 DEF Promise!Sigpipe, Promise!Ended
  <2> QED
    BY <1>4, <2>1, <2>2
<1>5. ASSUME peer[c] # "rst", NEW n \in 1..out[c], out' = [out EXCEPT ![c] = @ - n],
             IF n = out[c] THEN modify_event(fdOf[c], TRUE, FALSE, c) ELSE UNCHANGED <<tables, crash>>
      PROVE  Promise!Write(c)
  <2>1. crash' = crash
    BY <1>2, <1>3, <1>5, OpenIsWatched DEF modify_event
  <2>2. out[c] \in Nat /\ out[c] - n \in 0..(out[c] - 1)
    BY DEF TypeOK, ConnsTyped
  <2> QED
    BY <1>2, <1>3, <1>5, <2>1, <2>2 DEF Promise!Write
<1> QED
  BY <1>1, <1>3, <1>4, <1>5

\* do_handle_error closes a connection that was reset.
LEMMA PromiseError ==
    ASSUME IInv, EntriesFollowBuffer, crash = "none", NEW c \in Conns, DispatchError(c)
    PROVE  Promise!Error(c)
<1> USE DEF IInv
<1>1. PICK f \in ConnFds : DispatchError(c)!(f)
  BY DEF DispatchError
<1>2. /\ pc = "dispatch" /\ pc' = pc /\ UNCHANGED <<quit_, functors_, inq, peer>> /\ "ERROR" \in ready[f]
  BY <1>1, TakeStep DEF TakeEntry, net
<1>3. obj[c] = "open" /\ peer[c] = "rst"
  BY <1>1, <1>2 DEF Lookup, TablesConsistent, HandlersAreLive, EntriesFollowBuffer, Fds
<1> QED
  BY <1>1, <1>2, <1>3 DEF close, Promise!Error, Promise!Closed

\* A functor opens the oldest queued connection.
LEMMA PromiseRun ==
    ASSUME IInv, crash = "none", RunFunctor
    PROVE  Promise!Run \/ Promise!OpenAssertion
<1> USE DEF IInv
<1> DEFINE c == Head(functors_)
           f == fdOf[c]
<1>1. /\ pc = "drain" /\ functors_ # <<>> /\ functors_' = Tail(functors_) /\ open(c, f)
      /\ UNCHANGED <<pc, quit_, inq, peer>>
  BY DEF RunFunctor, loopVars, net
<1>2. c \in Conns /\ obj[c] = "queued"
  BY <1>1 DEF FunctorTargetsLive, TypeOK, LoopTyped
<1>3. f \in ConnFds /\ \A d \in Conns \ {c} : fdOf[d] # f
  BY <1>2, ConstantsAssumption
     DEF ConstantsAssumption, TablesConsistent, DescriptorsOwned, DescriptorsUnique, TypeOK, ConnsTyped
<1>4. CASE /\ crash' = "none"
           /\ obj' = [obj EXCEPT ![c] = "open"] /\ out' = [out EXCEPT ![c] = 0]
  BY <1>1, <1>2, <1>4 DEF Promise!Run, Promise!Opened
<1>5. CASE SendOnConnect /\ crash' = "modify" /\ UNCHANGED <<obj, out>>
  BY <1>1, <1>5 DEF Promise!OpenAssertion, Promise!Ended
<1> QED
  BY <1>1, <1>2, <1>3, <1>4, <1>5, OpenOutcome

LEMMA PromiseStep ==
    ASSUME IInv, EntriesFollowBuffer, WakeupsCounted, [Next]_vars
    PROVE  [Promise!Next]_(Promise!vars)
<1>1. CASE UNCHANGED vars
  BY <1>1, PromiseStutter DEF vars, loopVars, conns, net
<1> SUFFICES ASSUME crash = "none", Next PROVE [Promise!Next]_(Promise!vars)
  BY <1>1 DEF Next
<1>2. CASE Check
  <2>1. CASE quit_
    BY <1>2, <2>1 DEF Check, Promise!Next, Promise!Return, conns, net
  <2>2. CASE ~quit_
    BY <1>2, <2>2, PromiseStutter DEF Check, conns, net
  <2> QED
    BY <2>1, <2>2
<1>3. CASE HandleEvents \/ EndDispatch \/ EndDrain \/ DispatchNull \/ Destroy \/ QuitWakeup \/ WakeupEvent
  BY <1>3, PromiseStutter
     DEF HandleEvents, EndDispatch, EndDrain, DispatchNull, Destroy, QuitWakeup, WakeupEvent, TakeEntry,
         loopVars, conns, net
<1>4. CASE DispatchWakeup
  <2>1. UNCHANGED <<pc, obj, functors_, out, inq, peer, quit_>> /\ crash' \in {"none", "wakeup"}
    BY <1>4 DEF DispatchWakeup, TakeEntry, conns, net
  <2>2. CASE crash' = "none"
    BY <2>1, <2>2, PromiseStutter
  <2>3. CASE crash' = "wakeup"
    <3>1. eventfd # 1 /\ "READ" \in ready[WakeFd] /\ pc = "dispatch"
      BY <1>4, <2>3 DEF DispatchWakeup, TakeEntry
    <3>2. wakeups > 0
      BY <3>1 DEF WakeupsCounted, IInv, TypeOK, OthersTyped
    <3>3. MaxWakeups > 0
      BY <3>2, ConstantsAssumption DEF ConstantsAssumption, IInv, TypeOK, OthersTyped
    <3> QED
      BY <2>1, <2>3, <3>1, <3>3 DEF Promise!Next, Promise!WakeupAssertion, Promise!Ended
  <2> QED
    BY <2>1, <2>2, <2>3
<1>5. CASE DispatchAccept
  <2>1. pc = "dispatch" /\ UNCHANGED <<pc, quit_, inq, peer>>
    BY <1>5 DEF DispatchAccept, TakeEntry, net
  <2>2. CASE UNCHANGED <<tables, functors_, conns, crash>>
    BY <2>1, <2>2, PromiseStutter DEF conns
  <2>3. ASSUME NEW c \in Backlog, NEW f \in FreeFds, accept(c, f) PROVE [Promise!Next]_(Promise!vars)
    <3>1. Promise!Accept(c) \/ Promise!OpenAssertion
      BY <2>1, <2>3, PromiseAccept
    <3> QED
      BY <3>1 DEF Promise!Next, Backlog
  <2> QED
    BY <1>5, <2>2, <2>3 DEF DispatchAccept
<1>6. CASE RemoteAccept
  <2>1. PICK c \in Backlog, f \in FreeFds : accept(c, f)
    BY <1>6 DEF RemoteAccept
  <2>2. Promise!Accept(c) \/ Promise!OpenAssertion
    BY <1>6, <2>1, PromiseAccept DEF RemoteAccept, loopVars, net
  <2> QED
    BY <2>2 DEF Promise!Next, Backlog
<1>7. CASE RunFunctor
  BY <1>7, PromiseRun DEF Promise!Next
<1>8. ASSUME NEW c \in Conns, DispatchRead(c) \/ DispatchWrite(c) \/ DispatchError(c)
      PROVE  [Promise!Next]_(Promise!vars)
  <2>1. Promise!Read(c) \/ Promise!Write(c) \/ Promise!Error(c) \/ Promise!Sigpipe(c)
        \/ UNCHANGED Promise!vars
    BY <1>8, PromiseRead, PromiseWrite, PromiseError
  <2> QED
    BY <2>1 DEF Promise!Next
<1>9. CASE QuitFlag
  BY <1>9 DEF QuitFlag, Promise!Next, Promise!Quit, conns, net
<1>10. ASSUME NEW c \in Conns, Client(c) PROVE [Promise!Next]_(Promise!vars)
  <2>1. Promise!Client(c)
    BY <1>10 DEF Client, Promise!Client, loopVars, conns
  <2> QED
    BY <2>1 DEF Promise!Next
<1> QED
  BY <1>2, <1>3, <1>4, <1>5, <1>6, <1>7, <1>8, <1>9, <1>10 DEF Next, LoopStep

LEMMA PromiseInit == Init => Promise!Init
BY DEF Init, Promise!Init

\* Whatever the acceptor mode, the number of connections and the user's
\* callbacks, every behaviour of run() and of the threads around it is one of
\* EventLoop: functors run in order and once, only open connections are called,
\* each only when there is something for it to do, and nothing after run() ends.
THEOREM LoopKeepsPromise == Spec => KeepsPromise
<1>1. Init => IInv /\ EntriesFollowBuffer /\ WakeupsCounted /\ Promise!Init
  BY InvInit, FollowInit, WakeupsInit, PromiseInit
<1>2. IInv /\ EntriesFollowBuffer /\ WakeupsCounted /\ [Next]_vars
          => (IInv /\ EntriesFollowBuffer /\ WakeupsCounted)'
  BY InvStep, FollowStep, WakeupsStep
<1>3. IInv /\ EntriesFollowBuffer /\ WakeupsCounted /\ [Next]_vars => [Promise!Next]_(Promise!vars)
  BY PromiseStep
<1> QED
  BY <1>1, <1>2, <1>3, PTL DEF Spec, KeepsPromise, Promise!Spec

\* The wakeup handler's assertion fails only for a thread that calls
\* wakeup_event() besides the one in quit(): stopping a loop does not abort it.
THEOREM QuitAloneIsRead == MaxWakeups = 0 /\ Spec => []WakeupReadsOne
<1>1. ASSUME MaxWakeups = 0, IInv, WakeupsCounted, WakeupReadsOne, [Next]_vars PROVE WakeupReadsOne'
  <2>1. ASSUME UNCHANGED crash \/ crash' \in {"register", "modify", "sigpipe", "none"} PROVE WakeupReadsOne'
    BY <1>1, <2>1 DEF WakeupReadsOne
  <2>2. ASSUME NEW c, NEW f, open(c, f) PROVE WakeupReadsOne'
    BY <2>1, <2>2 DEF open, register_event, modify_event
  <2>3. ASSUME NEW c, NEW f, accept(c, f) PROVE WakeupReadsOne'
    BY <2>1, <2>2, <2>3 DEF accept, refuse
  <2>4. CASE DispatchWakeup
    <3>1. "READ" \in ready[WakeFd]
      BY <2>4 DEF DispatchWakeup, TakeEntry
    <3>2. eventfd = 1
      BY <1>1, <3>1 DEF WakeupsCounted, IInv, TypeOK, OthersTyped
    <3> QED
      BY <2>1, <2>4, <3>2 DEF DispatchWakeup
  <2>5. ASSUME NEW c, DispatchRead(c) \/ DispatchWrite(c) \/ DispatchError(c) PROVE WakeupReadsOne'
    <3>1. ASSUME NEW v, close(v) PROVE WakeupReadsOne'
      BY <2>1, <3>1 DEF close
    <3>2. ASSUME NEW n, send(c, n) PROVE WakeupReadsOne'
      BY <2>1, <3>2 DEF send, modify_event
    <3>3. CASE DispatchRead(c)
      BY <2>1, <3>1, <3>2, <3>3 DEF DispatchRead, on_read
    <3>4. CASE DispatchWrite(c)
      <4>1. PICK f \in ConnFds : DispatchWrite(c)!(f)
        BY <3>4 DEF DispatchWrite
      <4>2. crash' \in {"none", "sigpipe", "modify"} \/ UNCHANGED crash
        BY <4>1 DEF modify_event
      <4> QED
        BY <2>1, <4>2
    <3> QED
      BY <2>5, <3>1, <3>3, <3>4 DEF DispatchError
  <2>6. CASE \/ UNCHANGED vars \/ Check \/ HandleEvents \/ EndDispatch \/ EndDrain \/ DispatchNull \/ Destroy
             \/ QuitFlag \/ QuitWakeup \/ WakeupEvent \/ \E c \in Conns : Client(c)
    BY <2>1, <2>6
       DEF vars, Check, HandleEvents, EndDispatch, EndDrain, DispatchNull, Destroy, QuitFlag, QuitWakeup,
           WakeupEvent, Client
  <2>7. CASE RunFunctor \/ DispatchAccept \/ RemoteAccept
    BY <2>1, <2>2, <2>3, <2>7 DEF RunFunctor, DispatchAccept, RemoteAccept
  <2> QED
    BY <1>1, <2>4, <2>5, <2>6, <2>7 DEF Next, LoopStep
<1>2. Init => IInv /\ WakeupsCounted /\ WakeupReadsOne
  BY InvInit, WakeupsInit DEF Init, WakeupReadsOne
<1>3. MaxWakeups = 0 /\ IInv /\ WakeupsCounted /\ WakeupReadsOne /\ [Next]_vars
          => (IInv /\ WakeupsCounted /\ WakeupReadsOne)'
  BY <1>1, InvStep, WakeupsStep
<1>4. ASSUME MaxWakeups = 0 PROVE Spec => []WakeupReadsOne
  BY <1>2, <1>3, <1>4, PTL DEF Spec
<1> QED
  BY <1>4
=============================================================================
