------------------------------ MODULE Dispatchers ------------------------------
(***************************************************************************)
(* The three dispatchers, select, poll and epoll, side by side under the    *)
(* same calls of one ServiceLoop, each compared with EventDispatcher.       *)
(***************************************************************************)
EXTENDS Integers, Sequences, FiniteSets

CONSTANTS
    Fds,            \* descriptors, numbers below FD_SETSIZE
    UrgentData,     \* may a client send urgent (out-of-band) data?
    MaxCount        \* bound: registrations and deletions

ASSUME FdsAssumption == Fds \subseteq Nat \ {0} /\ IsFiniteSet(Fds)
ASSUME UrgentAssumption == UrgentData \in BOOLEAN
ASSUME CountAssumption == MaxCount \in Nat

VARIABLES
    handlers_,              \* descriptors in ServiceLoop::handlers_
    asked,                  \* history: what each was last registered or modified for
    rsets_, wsets_, esets_, \* DispatcherSelect: the fd_sets
    maxfd_,                 \* and the largest descriptor ever added
    pollfds_,               \* DispatcherPoll: sequence of [fd, out]
    interest,               \* DispatcherEpoll: the kernel's interest list
    fd_count_,              \* and its counter, the size of epoll_wait's array
    kernel,                 \* state of the descriptors at the last handle_events
    ready,                  \* what it returned, for each dispatcher
    ret,                    \* its result, for each dispatcher
    crash                   \* the assertion that failed, or "none"

selectVars == <<rsets_, wsets_, esets_, maxfd_>>
epollVars == <<interest, fd_count_>>
results == <<kernel, ready, ret>>
loopVars == <<handlers_, asked>>
vars == <<loopVars, selectVars, pollfds_, epollVars, results, crash>>

Methods == {"select", "poll", "epoll"}

\* A reset connection is readable and writable as well.
Kernels ==
    {{}, {"in"}, {"out"}, {"in", "out"}, {"in", "out", "err"}}
        \cup (IF UrgentData THEN {{"pri"}, {"pri", "out"}} ELSE {})

Init ==
    /\ handlers_ = {} /\ asked = [f \in Fds |-> "none"]
    /\ rsets_ = {} /\ wsets_ = {} /\ esets_ = {} /\ maxfd_ = -1
    /\ pollfds_ = <<>>
    /\ interest = [f \in Fds |-> "none"] /\ fd_count_ = 0
    /\ kernel = [f \in Fds |-> {}] /\ crash = "none"
    /\ ready = [m \in Methods |-> {}] /\ ret = [m \in Methods |-> "none"]

\* The interest that the flags readable = true and writeable express.  epoll's
\* list holds a mask instead, EPOLLIN or EPOLLOUT, named here by the flags too.
Flags(writeable) == IF writeable THEN "both" ELSE "read"

(***************************************************************************)
(* select.                                                                 *)
(***************************************************************************)

SelectAdd(f, writeable) ==
    /\ rsets_' = rsets_ \cup {f} /\ esets_' = esets_ \cup {f}
    /\ wsets_' = IF writeable THEN wsets_ \cup {f} ELSE wsets_
    /\ maxfd_' = IF f > maxfd_ THEN f ELSE maxfd_

SelectModVariantKeeps(f, writeable) ==
    /\ rsets_' = rsets_ \cup {f}
    /\ wsets_' = IF writeable THEN wsets_ \cup {f} ELSE wsets_
    /\ UNCHANGED <<esets_, maxfd_>>

SelectMod(f, writeable) ==
    /\ rsets_' = rsets_ \cup {f}
    /\ wsets_' = IF writeable THEN wsets_ \cup {f} ELSE wsets_ \ {f}
    /\ UNCHANGED <<esets_, maxfd_>>

SelectDel(f) ==
    /\ rsets_' = rsets_ \ {f} /\ wsets_' = wsets_ \ {f} /\ esets_' = esets_ \ {f}
    /\ UNCHANGED maxfd_

\* select() looks at the descriptors up to maxfd_; exceptional is urgent data.
SelectReady(k) ==
    LET Seen(set) == {f \in set : f <= maxfd_}
    IN       {<<f, "READ">> : f \in {g \in Seen(rsets_) : "in" \in k[g]}}
        \cup {<<f, "WRITE">> : f \in {g \in Seen(wsets_) : "out" \in k[g]}}
        \cup {<<f, "ERROR">> : f \in {g \in Seen(esets_) : "pri" \in k[g]}}

(***************************************************************************)
(* poll.                                                                   *)
(***************************************************************************)

PollAdd(f, writeable) == pollfds_' = Append(pollfds_, [fd |-> f, out |-> writeable])

\* Positions of a descriptor; the loops stop at the first.
Entries(f) == {i \in DOMAIN pollfds_ : pollfds_[i].fd = f}
First(S) == CHOOSE i \in S : \A j \in S : i <= j

PollModVariantAdds(f, writeable) ==
    /\ pollfds_' = [pollfds_ EXCEPT ![First(Entries(f))].out = @ \/ writeable] /\ UNCHANGED crash

\* With no entry mod_event fails its assertion.
PollMod(f, writeable) ==
    IF Entries(f) = {} THEN crash' = "poll" /\ UNCHANGED pollfds_
    ELSE pollfds_' = [pollfds_ EXCEPT ![First(Entries(f))].out = writeable] /\ UNCHANGED crash

Erase(s, i) == SubSeq(s, 1, i - 1) \o SubSeq(s, i + 1, Len(s))

PollDelVariantNext(f) ==
    pollfds_' = IF Entries(f) = {} THEN pollfds_
                ELSE LET i == First(Entries(f))
                     IN  Erase(pollfds_, IF i < Len(pollfds_) THEN i + 1 ELSE i)

PollDel(f) ==
    pollfds_' = IF Entries(f) = {} THEN pollfds_ ELSE Erase(pollfds_, First(Entries(f)))

PollReady(k) ==
    LET fds == {pollfds_[i].fd : i \in DOMAIN pollfds_}
        outs == {pollfds_[i].fd : i \in {j \in DOMAIN pollfds_ : pollfds_[j].out}}
    IN       {<<f, "READ">> : f \in {g \in fds : k[g] \cap {"in", "pri"} # {}}}
        \cup {<<f, "WRITE">> : f \in {g \in outs : "out" \in k[g]}}
        \cup {<<f, "ERROR">> : f \in {g \in fds : "err" \in k[g]}}

(***************************************************************************)
(* epoll.                                                                  *)
(***************************************************************************)

EpollAddVariantUncounted(f, writeable) ==
    interest' = [interest EXCEPT ![f] = Flags(writeable)] /\ UNCHANGED <<fd_count_, crash>>

\* epoll_ctl fails with EEXIST or ENOENT, and ServiceLoop's caller asserts.
EpollAdd(f, writeable) ==
    IF interest[f] # "none" THEN crash' = "add" /\ UNCHANGED epollVars
    ELSE /\ interest' = [interest EXCEPT ![f] = Flags(writeable)]
         /\ fd_count_' = fd_count_ + 1 /\ UNCHANGED crash

EpollMod(f, writeable) ==
    /\ interest[f] # "none"
    /\ interest' = [interest EXCEPT ![f] = Flags(writeable)] /\ UNCHANGED fd_count_

EpollDel(f) ==
    interest' = [interest EXCEPT ![f] = "none"] /\ fd_count_' = fd_count_ + 1

\* EPOLLOUT stands in the place of EPOLLIN; EPOLLERR and EPOLLHUP always count.
EpollReady(k) ==
         {<<f, "READ">> : f \in {g \in Fds : interest[g] = "read" /\ "in" \in k[g]}}
    \cup {<<f, "WRITE">> : f \in {g \in Fds : interest[g] = "both" /\ "out" \in k[g]}}
    \cup {<<f, "ERROR">> : f \in {g \in Fds : interest[g] # "none" /\ "err" \in k[g]}}

Of(entries) == {e[1] : e \in entries}

\* epoll_wait fills at most fd_count_ places.
Fits(entries, all) ==
    /\ entries = {e \in all : e[1] \in Of(entries)}
    /\ Cardinality(Of(entries)) <= fd_count_
    /\ entries = all \/ Cardinality(Of(entries)) = fd_count_

(***************************************************************************)
(* ServiceLoop, over each of them.  Nothing in the tables depends on the    *)
(* entries that handle_events has returned: the calls that handlers make    *)
(* while run() goes through a batch come after it here.                     *)
(***************************************************************************)

Idle == ret = [m \in Methods |-> "none"] /\ kernel = [f \in Fds |-> {}]

\* Handlers register what is not registered and modify what is (Reactor shows
\* it of connections).
register_event(f, writeable) ==
    /\ Idle /\ f \notin handlers_ /\ handlers_' = handlers_ \cup {f} /\ fd_count_ < MaxCount
    /\ asked' = [asked EXCEPT ![f] = Flags(writeable)]
    /\ SelectAdd(f, writeable) /\ PollAdd(f, writeable) /\ EpollAdd(f, writeable)
    /\ UNCHANGED results

modify_event(f, writeable) ==
    /\ Idle /\ f \in handlers_ /\ UNCHANGED handlers_
    /\ asked' = [asked EXCEPT ![f] = Flags(writeable)]
    /\ SelectMod(f, writeable) /\ PollMod(f, writeable) /\ EpollMod(f, writeable)
    /\ UNCHANGED results

delete_event(f) ==
    /\ Idle /\ f \in handlers_ /\ handlers_' = handlers_ \ {f} /\ fd_count_ < MaxCount
    /\ asked' = [asked EXCEPT ![f] = "none"]
    /\ SelectDel(f) /\ PollDel(f) /\ EpollDel(f)
    /\ UNCHANGED <<results, crash>>

\* epoll_wait rejects an array of no places.
Result(r) ==
    [m \in Methods |-> IF m = "epoll" /\ fd_count_ = 0 THEN "failed"
                       ELSE IF r[m] = {} THEN "none" ELSE "some"]

\* One handle_events of each, on the same kernel; a signal makes them fail.
handle_events ==
    /\ Idle /\ kernel' \in [Fds -> Kernels]
    /\ \/ /\ \E entries \in SUBSET EpollReady(kernel') :
               /\ Fits(entries, EpollReady(kernel'))
               /\ ready' = [m \in Methods |-> CASE m = "select" -> SelectReady(kernel')
                                                [] m = "poll" -> PollReady(kernel')
                                                [] m = "epoll" -> entries]
          /\ ret' = Result(ready')
       \/ /\ ready' = [m \in Methods |-> {}] /\ ret' = [m \in Methods |-> "failed"]
    /\ UNCHANGED <<loopVars, selectVars, pollfds_, epollVars, crash>>

\* run() has dispatched the batch and clears it.
Clear ==
    /\ ~Idle /\ kernel' = [f \in Fds |-> {}]
    /\ ready' = [m \in Methods |-> {}] /\ ret' = [m \in Methods |-> "none"]
    /\ UNCHANGED <<loopVars, selectVars, pollfds_, epollVars, crash>>

Next ==
    /\ crash = "none"
    /\ \/ \E f \in Fds, writeable \in BOOLEAN :
            register_event(f, writeable) \/ modify_event(f, writeable)
       \/ \E f \in Fds : delete_event(f)
       \/ handle_events \/ Clear

Spec == Init /\ [][Next]_vars

(***************************************************************************)
(* Properties.                                                             *)
(***************************************************************************)

TypeOK ==
    /\ handlers_ \subseteq Fds /\ asked \in [Fds -> {"none", "read", "both"}]
    /\ rsets_ \subseteq Fds /\ wsets_ \subseteq Fds /\ esets_ \subseteq Fds
    /\ maxfd_ \in Fds \cup {-1}
    /\ pollfds_ \in Seq([fd : Fds, out : BOOLEAN])
    /\ interest \in [Fds -> {"none", "read", "both"}] /\ fd_count_ \in Nat
    /\ kernel \in [Fds -> Kernels] /\ ready \in [Methods -> SUBSET (Fds \X {"READ", "WRITE", "ERROR"})]
    /\ ret \in [Methods -> {"failed", "none", "some"}] /\ crash \in {"none", "poll", "add"}

Select == INSTANCE EventDispatcher
              WITH interest <- asked, ready <- ready["select"], ret <- ret["select"]
Poll == INSTANCE EventDispatcher WITH interest <- asked, ready <- ready["poll"], ret <- ret["poll"]
Epoll == INSTANCE EventDispatcher WITH interest <- asked, ready <- ready["epoll"], ret <- ret["epoll"]

\* Each dispatcher implements EventDispatcher: after any sequence of calls it
\* reports no event that was not asked for last and is not so, and misses none
\* that a handler waits for.
SelectImplements == Select!Spec
PollImplements == Poll!Spec
EpollImplements == Epoll!Spec

\* The tables stay in step with handlers_ over any reuse of descriptors: select
\* looks far enough, poll holds one entry for each, no assertion fails.
TablesAgree ==
    /\ handlers_ = rsets_ /\ handlers_ = esets_ /\ wsets_ \subseteq rsets_
    /\ \A f \in handlers_ : f <= maxfd_ /\ Cardinality(Entries(f)) = 1
    /\ Len(pollfds_) = Cardinality(handlers_)
    /\ handlers_ = {f \in Fds : interest[f] # "none"}
    /\ Cardinality(handlers_) <= fd_count_ /\ crash = "none"
=============================================================================
