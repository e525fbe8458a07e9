--------------------------- MODULE DispatchersProofs ---------------------------
(***************************************************************************)
(* Dispatchers for any descriptors: the tables of the three agree with the *)
(* loop's, and epoll implements EventDispatcher; select and poll do where  *)
(* no client sends urgent data.                                            *)
(***************************************************************************)
EXTENDS Dispatchers, SequenceTheorems, FiniteSetTheorems, TLAPS

USE FdsAssumption, UrgentAssumption, CountAssumption

Interests == {"none", "read", "both"}

\* Every table as a function of what each descriptor was last asked for.
Asked ==
    /\ asked \in [Fds -> Interests] /\ handlers_ = {g \in Fds : asked[g] # "none"}
    /\ crash = "none"

SelectTables ==
    /\ rsets_ = handlers_ /\ esets_ = handlers_ /\ wsets_ = {g \in Fds : asked[g] = "both"}
    /\ maxfd_ \in Fds \cup {-1} /\ \A g \in handlers_ : g <= maxfd_

PollTable ==
    /\ pollfds_ \in Seq([fd : Fds, out : BOOLEAN]) /\ Len(pollfds_) = Cardinality(handlers_)
    /\ \A i \in DOMAIN pollfds_ : /\ pollfds_[i].fd \in handlers_
                                  /\ pollfds_[i].out <=> asked[pollfds_[i].fd] = "both"
    /\ \A i, j \in DOMAIN pollfds_ : pollfds_[i].fd = pollfds_[j].fd => i = j
    /\ \A g \in handlers_ : \E i \in DOMAIN pollfds_ : pollfds_[i].fd = g

EpollTable == interest = asked /\ fd_count_ \in Nat /\ Cardinality(handlers_) <= fd_count_

Inv == Asked /\ SelectTables /\ PollTable /\ EpollTable

LEMMA HandlersFinite ==
  ASSUME Asked PROVE IsFiniteSet(handlers_) /\ Cardinality(handlers_) \in Nat
<1>1. handlers_ \subseteq Fds
  BY DEF Asked
<1> QED
  BY <1>1, FS_Subset, FS_CardinalityType

LEMMA InitInv == ASSUME Init PROVE Inv
<1>1. handlers_ = {} /\ Cardinality(handlers_) = 0
  BY FS_EmptySet DEF Init
<1>2. Asked
  BY <1>1 DEF Init, Asked, Interests
<1>3. SelectTables
  BY <1>1 DEF Init, SelectTables
<1>4. PollTable
  <2>1. pollfds_ = <<>> /\ Len(pollfds_) = 0 /\ DOMAIN pollfds_ = {}
    BY DEF Init
  <2> QED
    BY <1>1, <2>1 DEF PollTable
<1>5. EpollTable
  BY <1>1 DEF Init, EpollTable
<1> QED
  BY <1>2, <1>3, <1>4, <1>5 DEF Inv

\* The one entry of a registered descriptor.
LEMMA EntryOf ==
  ASSUME Inv, NEW g \in handlers_
  PROVE  \E i \in DOMAIN pollfds_ : pollfds_[i].fd = g /\ Entries(g) = {i} /\ First(Entries(g)) = i
<1>1. PICK i \in DOMAIN pollfds_ : pollfds_[i].fd = g
  BY DEF Inv, PollTable
<1>2. Entries(g) = {i}
  BY <1>1 DEF Entries, Inv, PollTable
<1>3. i \in Nat
  BY <1>1 DEF Inv, PollTable
<1>4. First(Entries(g)) = i
  BY <1>2, <1>3 DEF First
<1> QED
  BY <1>1, <1>2, <1>4

LEMMA Erased ==
  ASSUME NEW S, NEW s \in Seq(S), NEW i \in DOMAIN s
  PROVE  /\ Erase(s, i) \in Seq(S) /\ Len(Erase(s, i)) = Len(s) - 1
         /\ DOMAIN Erase(s, i) = 1..(Len(s) - 1)
         /\ \A j \in 1..(Len(s) - 1) : Erase(s, i)[j] = s[IF j < i THEN j ELSE j + 1]
<1>1. Len(s) \in Nat /\ i \in 1..Len(s)
  BY LenProperties
<1> DEFINE a == SubSeq(s, 1, i - 1)
           b == SubSeq(s, i + 1, Len(s))
<1>2. a \in Seq(S) /\ Len(a) = i - 1 /\ \A j \in 1..(i - 1) : a[j] = s[j]
  BY <1>1
<1>3. b \in Seq(S) /\ Len(b) = Len(s) - i /\ \A j \in 1..(Len(s) - i) : b[j] = s[i + j]
  BY <1>1
<1> HIDE DEF a, b
<1>4. /\ a \o b \in Seq(S) /\ Len(a \o b) = Len(a) + Len(b)
      /\ \A j \in 1..(Len(a) + Len(b)) : (a \o b)[j] = IF j <= Len(a) THEN a[j] ELSE b[j - Len(a)]
  BY <1>2, <1>3, ConcatProperties
<1>5. Erase(s, i) = a \o b
  BY DEF Erase, a, b
<1>6. Len(a) + Len(b) = Len(s) - 1
  BY <1>1, <1>2, <1>3
<1>7. ASSUME NEW j \in 1..(Len(s) - 1) PROVE (a \o b)[j] = s[IF j < i THEN j ELSE j + 1]
  <2>1. CASE j < i
    BY <1>1, <1>2, <1>4, <1>6, <2>1
  <2>2. CASE ~(j < i)
    <3>1. j - Len(a) = j - i + 1 /\ j - i + 1 \in 1..(Len(s) - i) /\ i + (j - i + 1) = j + 1
      BY <1>1, <1>2, <2>2
    <3>2. (a \o b)[j] = b[j - i + 1]
      <4>1. j \in 1..(Len(a) + Len(b)) /\ ~(j <= Len(a))
        BY <1>1, <1>2, <1>6, <2>2
      <4> QED
        BY <1>4, <3>1, <4>1
    <3> QED
      BY <1>3, <2>2, <3>1, <3>2
  <2> QED
    BY <2>1, <2>2
<1>8. DOMAIN (a \o b) = 1..(Len(s) - 1)
  <2> QED
    BY <1>4, <1>6, LenProperties
<1> QED
  BY <1>4, <1>5, <1>6, <1>7, <1>8

LEMMA RegisterInv ==
  ASSUME Inv, NEW g \in Fds, NEW writeable \in BOOLEAN, register_event(g, writeable)
  PROVE  Inv'
<1>0. /\ g \notin handlers_ /\ handlers_' = handlers_ \cup {g}
      /\ asked' = [asked EXCEPT ![g] = Flags(writeable)]
      /\ SelectAdd(g, writeable) /\ PollAdd(g, writeable) /\ EpollAdd(g, writeable)
  BY DEF register_event
<1>1. /\ asked[g] = "none" /\ Flags(writeable) \in {"read", "both"}
      /\ Flags(writeable) = "both" <=> writeable
  BY <1>0 DEF Inv, Asked, Flags
<1>2. /\ interest' = [interest EXCEPT ![g] = Flags(writeable)]
      /\ fd_count_' = fd_count_ + 1 /\ UNCHANGED crash
  BY <1>0, <1>1 DEF EpollAdd, Inv, EpollTable
<1>3. Asked'
  BY <1>0, <1>1, <1>2 DEF Inv, Asked, Interests
<1>4. SelectTables'
  <2>1. rsets_' = handlers_' /\ esets_' = handlers_'
    BY <1>0 DEF SelectAdd, Inv, SelectTables
  <2>2. wsets_' = {h \in Fds : asked'[h] = "both"}
    BY <1>0, <1>1 DEF SelectAdd, Inv, SelectTables, Asked
  <2>3. maxfd_' \in Fds \cup {-1} /\ \A h \in handlers_' : h <= maxfd_'
    <3>1. g \in Nat /\ maxfd_ \in Int /\ \A h \in handlers_ : h \in Nat /\ h <= maxfd_
      BY DEF Inv, Asked, SelectTables
    <3>2. maxfd_' = (IF g > maxfd_ THEN g ELSE maxfd_)
      BY <1>0 DEF SelectAdd
    <3>3. maxfd_' \in Fds \cup {-1}
      BY <3>2 DEF Inv, SelectTables
    <3>4. maxfd_' \in Int /\ maxfd_ <= maxfd_' /\ g <= maxfd_'
      BY <3>1, <3>2
    <3>5. ASSUME NEW h \in handlers_' PROVE h <= maxfd_'
      BY <1>0, <3>1, <3>4, <3>5
    <3> QED
      BY <3>3, <3>5
  <2> QED
    BY <2>1, <2>2, <2>3 DEF SelectTables
<1>5. Cardinality(handlers_') = Cardinality(handlers_) + 1 /\ Cardinality(handlers_) \in Nat
  BY <1>0, HandlersFinite, FS_AddElement DEF Inv
<1>6. PollTable'
  <2> DEFINE new == [fd |-> g, out |-> writeable]
  <2>1. /\ pollfds_' = Append(pollfds_, new) /\ new \in [fd : Fds, out : BOOLEAN]
        /\ pollfds_ \in Seq([fd : Fds, out : BOOLEAN]) /\ Len(pollfds_) = Cardinality(handlers_)
    BY <1>0 DEF PollAdd, Inv, PollTable
  <2> HIDE DEF new
  <2>2. /\ pollfds_' \in Seq([fd : Fds, out : BOOLEAN]) /\ Len(pollfds_') = Len(pollfds_) + 1
        /\ DOMAIN pollfds_' = 1..(Len(pollfds_) + 1) /\ DOMAIN pollfds_ = 1..Len(pollfds_)
        /\ Len(pollfds_) \in Nat
        /\ pollfds_'[Len(pollfds_) + 1] = new
        /\ \A i \in 1..Len(pollfds_) : pollfds_'[i] = pollfds_[i]
    BY <2>1
  <2>3. new.fd = g /\ (new.out <=> writeable)
    BY DEF new
  <2>4. ASSUME NEW i \in DOMAIN pollfds_'
        PROVE  \/ i \in DOMAIN pollfds_ /\ pollfds_'[i] = pollfds_[i] /\ pollfds_[i].fd # g
               \/ i = Len(pollfds_) + 1 /\ pollfds_'[i] = new
    <3>1. \A j \in DOMAIN pollfds_ : pollfds_[j].fd # g
      BY <1>0 DEF Inv, PollTable
    <3> QED
      BY <2>2, <2>4, <3>1
  <2>5. ASSUME NEW i \in DOMAIN pollfds_'
        PROVE  /\ pollfds_'[i].fd \in handlers_'
               /\ pollfds_'[i].out <=> asked'[pollfds_'[i].fd] = "both"
    <3>1. CASE i \in DOMAIN pollfds_ /\ pollfds_'[i] = pollfds_[i] /\ pollfds_[i].fd # g
      <4>1. pollfds_[i].fd \in handlers_ /\ (pollfds_[i].out <=> asked[pollfds_[i].fd] = "both")
        BY <3>1 DEF Inv, PollTable
      <4>2. asked'[pollfds_[i].fd] = asked[pollfds_[i].fd]
        BY <1>0, <3>1, <4>1 DEF Inv, Asked
      <4> QED
        BY <1>0, <3>1, <4>1, <4>2
    <3>2. CASE pollfds_'[i] = new
      BY <1>0, <1>1, <2>3, <3>2 DEF Inv, Asked
    <3> QED
      BY <2>4, <3>1, <3>2
  <2>6. ASSUME NEW i \in DOMAIN pollfds_', NEW j \in DOMAIN pollfds_', pollfds_'[i].fd = pollfds_'[j].fd
        PROVE  i = j
    BY <2>3, <2>4, <2>6 DEF Inv, PollTable
  <2>7. ASSUME NEW h \in handlers_' PROVE \E i \in DOMAIN pollfds_' : pollfds_'[i].fd = h
    <3>1. CASE h = g
      BY <2>2, <2>3, <3>1
    <3>2. CASE h \in handlers_
      <4>1. PICK i \in DOMAIN pollfds_ : pollfds_[i].fd = h
        BY <3>2 DEF Inv, PollTable
      <4> QED
        BY <2>2, <4>1
    <3> QED
      BY <1>0, <2>7, <3>1, <3>2
  <2> QED
    BY <1>5, <2>1, <2>2, <2>5, <2>6, <2>7 DEF PollTable
<1>7. EpollTable'
  BY <1>0, <1>2, <1>5 DEF Inv, EpollTable
<1> QED
  BY <1>3, <1>4, <1>6, <1>7 DEF Inv

LEMMA ModifyInv ==
  ASSUME Inv, NEW g \in Fds, NEW writeable \in BOOLEAN, modify_event(g, writeable)
  PROVE  Inv'
<1>0. /\ g \in handlers_ /\ handlers_' = handlers_
      /\ asked' = [asked EXCEPT ![g] = Flags(writeable)]
      /\ SelectMod(g, writeable) /\ PollMod(g, writeable) /\ EpollMod(g, writeable)
  BY DEF modify_event
<1>1. asked[g] # "none" /\ Flags(writeable) \in {"read", "both"} /\ (Flags(writeable) = "both" <=> writeable)
  BY <1>0 DEF Inv, Asked, Flags
<1>2. PICK i \in DOMAIN pollfds_ : pollfds_[i].fd = g /\ Entries(g) = {i} /\ First(Entries(g)) = i
  BY <1>0, EntryOf
<1>3. pollfds_' = [pollfds_ EXCEPT ![i].out = writeable] /\ UNCHANGED crash
  BY <1>0, <1>2 DEF PollMod
<1>4. Asked'
  BY <1>0, <1>1, <1>3 DEF Inv, Asked, Interests
<1>5. SelectTables'
  <2>1. rsets_' = handlers_' /\ esets_' = handlers_' /\ maxfd_' = maxfd_
    BY <1>0 DEF SelectMod, Inv, SelectTables
  <2>2. wsets_' = {h \in Fds : asked'[h] = "both"}
    BY <1>0, <1>1 DEF SelectMod, Inv, SelectTables, Asked
  <2> QED
    BY <1>0, <2>1, <2>2 DEF Inv, SelectTables
<1>6. PollTable'
  <2>1. pollfds_ \in Seq([fd : Fds, out : BOOLEAN]) /\ DOMAIN pollfds_ = 1..Len(pollfds_)
    BY DEF Inv, PollTable
  <2>2. pollfds_[i] \in [fd : Fds, out : BOOLEAN]
    BY <2>1, ElementOfSeq
  <2>3. pollfds_' = [pollfds_ EXCEPT ![i] = [fd |-> g, out |-> writeable]]
    <3>1. [pollfds_[i] EXCEPT !.out = writeable] = [fd |-> g, out |-> writeable]
      BY <1>2, <2>2
    <3> QED
      BY <1>3, <3>1
  <2>4. /\ pollfds_' \in Seq([fd : Fds, out : BOOLEAN]) /\ Len(pollfds_') = Len(pollfds_)
        /\ DOMAIN pollfds_' = DOMAIN pollfds_
    BY <2>1, <2>3
  <2>5. \A j \in DOMAIN pollfds_ : /\ pollfds_'[j].fd = pollfds_[j].fd
                                   /\ j # i => pollfds_'[j].out = pollfds_[j].out
                                   /\ j = i => pollfds_'[j].out = writeable
    BY <1>2, <2>1, <2>3
  <2>6. ASSUME NEW j \in DOMAIN pollfds_
        PROVE  pollfds_'[j].fd \in handlers_ /\ (pollfds_'[j].out <=> asked'[pollfds_'[j].fd] = "both")
    <3>1. pollfds_[j].fd \in handlers_ /\ (pollfds_[j].out <=> asked[pollfds_[j].fd] = "both")
      BY DEF Inv, PollTable
    <3>2. CASE j = i
      BY <1>0, <1>1, <1>2, <2>5, <3>1, <3>2 DEF Inv, Asked
    <3>3. CASE j # i
      <4>1. pollfds_[j].fd # g
        BY <1>2, <3>3 DEF Inv, PollTable
      <4>2. asked'[pollfds_[j].fd] = asked[pollfds_[j].fd]
        BY <1>0, <3>1, <4>1 DEF Inv, Asked
      <4> QED
        BY <2>5, <3>1, <3>3, <4>2
    <3> QED
      BY <3>2, <3>3
  <2>7. /\ \A j, k \in DOMAIN pollfds_' : pollfds_'[j].fd = pollfds_'[k].fd => j = k
        /\ \A h \in handlers_ : \E j \in DOMAIN pollfds_' : pollfds_'[j].fd = h
    BY <2>4, <2>5 DEF Inv, PollTable
  <2> QED
    BY <1>0, <2>4, <2>6, <2>7 DEF Inv, PollTable
<1>7. EpollTable'
  BY <1>0 DEF EpollMod, Inv, EpollTable
<1> QED
  BY <1>4, <1>5, <1>6, <1>7 DEF Inv

LEMMA DeleteInv ==
  ASSUME Inv, NEW g \in Fds, delete_event(g)
  PROVE  Inv'
<1>0. /\ g \in handlers_ /\ handlers_' = handlers_ \ {g} /\ asked' = [asked EXCEPT ![g] = "none"]
      /\ SelectDel(g) /\ PollDel(g) /\ EpollDel(g) /\ crash' = crash
  BY DEF delete_event
<1>1. Asked'
  BY <1>0 DEF Inv, Asked, Interests
<1>2. SelectTables'
  <2>1. rsets_' = handlers_' /\ esets_' = handlers_' /\ maxfd_' = maxfd_
    BY <1>0 DEF SelectDel, Inv, SelectTables
  <2>2. wsets_' = {h \in Fds : asked'[h] = "both"}
    BY <1>0 DEF SelectDel, Inv, SelectTables, Asked
  <2> QED
    BY <1>0, <2>1, <2>2 DEF Inv, SelectTables
<1>3. Cardinality(handlers_') = Cardinality(handlers_) - 1 /\ Cardinality(handlers_) \in Nat
      /\ Cardinality(handlers_') \in Nat
  BY <1>0, HandlersFinite, FS_RemoveElement, FS_CardinalityType DEF Inv
<1>4. PollTable'
  <2>1. PICK i \in DOMAIN pollfds_ : pollfds_[i].fd = g /\ Entries(g) = {i} /\ First(Entries(g)) = i
    BY <1>0, EntryOf
  <2>2. pollfds_' = Erase(pollfds_, i)
    BY <1>0, <2>1 DEF PollDel
  <2>3. /\ pollfds_ \in Seq([fd : Fds, out : BOOLEAN]) /\ DOMAIN pollfds_ = 1..Len(pollfds_)
        /\ Len(pollfds_) \in Nat /\ Len(pollfds_) = Cardinality(handlers_)
    BY DEF Inv, PollTable
  <2>4. /\ pollfds_' \in Seq([fd : Fds, out : BOOLEAN]) /\ Len(pollfds_') = Len(pollfds_) - 1
        /\ DOMAIN pollfds_' = 1..(Len(pollfds_) - 1)
        /\ \A j \in 1..(Len(pollfds_) - 1) : pollfds_'[j] = pollfds_[IF j < i THEN j ELSE j + 1]
    BY <2>2, <2>3, Erased
  <2>5. ASSUME NEW j \in DOMAIN pollfds_'
        PROVE  \E k \in DOMAIN pollfds_ : k = (IF j < i THEN j ELSE j + 1) /\ k # i /\ pollfds_'[j] = pollfds_[k]
    BY <2>3, <2>4, <2>5
  <2>6. ASSUME NEW j \in DOMAIN pollfds_'
        PROVE  /\ pollfds_'[j].fd \in handlers_'
               /\ pollfds_'[j].out <=> asked'[pollfds_'[j].fd] = "both"
    <3>1. PICK k \in DOMAIN pollfds_ : k # i /\ pollfds_'[j] = pollfds_[k]
      BY <2>5, <2>6
    <3>2. pollfds_[k].fd # g
      BY <2>1, <3>1 DEF Inv, PollTable
    <3>3. pollfds_[k].fd \in handlers_ /\ (pollfds_[k].out <=> asked[pollfds_[k].fd] = "both")
      BY <3>1 DEF Inv, PollTable
    <3>4. asked'[pollfds_[k].fd] = asked[pollfds_[k].fd]
      BY <1>0, <3>2, <3>3 DEF Inv, Asked
    <3> QED
      BY <1>0, <3>1, <3>2, <3>3, <3>4
  <2>7. ASSUME NEW j \in DOMAIN pollfds_', NEW m \in DOMAIN pollfds_', pollfds_'[j].fd = pollfds_'[m].fd
        PROVE  j = m
    <3>1. PICK k \in DOMAIN pollfds_ : k = (IF j < i THEN j ELSE j + 1) /\ pollfds_'[j] = pollfds_[k]
      BY <2>5, <2>7
    <3>2. PICK n \in DOMAIN pollfds_ : n = (IF m < i THEN m ELSE m + 1) /\ pollfds_'[m] = pollfds_[n]
      BY <2>5, <2>7
    <3>3. k = n
      BY <2>7, <3>1, <3>2 DEF Inv, PollTable
    <3> QED
      BY <2>3, <2>4, <2>7, <3>1, <3>2, <3>3
  <2>8. ASSUME NEW h \in handlers_' PROVE \E j \in DOMAIN pollfds_' : pollfds_'[j].fd = h
    <3>1. h \in handlers_ /\ h # g
      BY <1>0, <2>8
    <3>2. PICK k \in DOMAIN pollfds_ : pollfds_[k].fd = h
      BY <3>1 DEF Inv, PollTable
    <3>3. k # i
      BY <2>1, <3>1, <3>2
    <3>4. CASE k < i
      BY <2>3, <2>4, <3>2, <3>4
    <3>5. CASE i < k
      <4>1. k - 1 \in DOMAIN pollfds_' /\ ~(k - 1 < i) /\ (k - 1) + 1 = k
        BY <2>3, <2>4, <3>2, <3>5
      <4>2. pollfds_'[k - 1] = pollfds_[k]
        BY <2>4, <4>1
      <4> QED
        BY <3>2, <4>1, <4>2
    <3> QED
      BY <2>3, <3>3, <3>4, <3>5
  <2> QED
    BY <1>3, <2>3, <2>4, <2>6, <2>7, <2>8 DEF PollTable
<1>5. EpollTable'
  BY <1>0, <1>3 DEF EpollDel, Inv, EpollTable
<1> QED
  BY <1>1, <1>2, <1>4, <1>5 DEF Inv

LEMMA StepInv == ASSUME Inv, [Next]_vars PROVE Inv'
<1>1. CASE UNCHANGED <<loopVars, selectVars, pollfds_, epollVars, crash>>
  <2>1. Asked' /\ SelectTables' /\ EpollTable'
    BY <1>1 DEF Inv, loopVars, selectVars, epollVars, Asked, SelectTables, EpollTable
  <2>2. PollTable'
    BY <1>1 DEF Inv, loopVars, PollTable
  <2> QED
    BY <2>1, <2>2 DEF Inv
<1>2. CASE UNCHANGED vars
  BY <1>1, <1>2 DEF vars
<1>3. CASE handle_events \/ Clear
  BY <1>1, <1>3 DEF handle_events, Clear
<1> QED
  BY <1>2, <1>3, RegisterInv, ModifyInv, DeleteInv DEF Next

LEMMA InvAlways == Spec => []Inv
BY InitInv, StepInv, PTL DEF Spec

\* The tables of the three dispatchers stay in step with the loop's, in any
\* sequence of registrations, modifications and deletions.
THEOREM TablesInStep == Spec => []TablesAgree
<1>1. ASSUME Inv PROVE TablesAgree
  <2>1. \A g \in handlers_ : g <= maxfd_ /\ Cardinality(Entries(g)) = 1
    <3>1. ASSUME NEW g \in handlers_ PROVE Cardinality(Entries(g)) = 1
      <4>1. PICK i \in DOMAIN pollfds_ : Entries(g) = {i}
        BY <1>1, EntryOf
      <4> QED
        BY <4>1, FS_Singleton
    <3> QED
      BY <1>1, <3>1 DEF Inv, SelectTables
  <2>2. handlers_ = rsets_ /\ handlers_ = esets_ /\ wsets_ \subseteq rsets_
    BY <1>1 DEF Inv, Asked, SelectTables
  <2>3. handlers_ = {g \in Fds : interest[g] # "none"} /\ Cardinality(handlers_) <= fd_count_ /\ crash = "none"
    BY <1>1 DEF Inv, Asked, EpollTable
  <2>4. Len(pollfds_) = Cardinality(handlers_)
    BY <1>1 DEF Inv, PollTable
  <2> QED
    BY <2>1, <2>2, <2>3, <2>4 DEF TablesAgree
<1> QED
  BY <1>1, InvAlways, PTL

-----------------------------------------------------------------------------
(* What handle_events reports.                                              *)

Kinds == {"READ", "WRITE", "ERROR"}

LEMMA NoUrgent ==
  ASSUME ~UrgentData, NEW k \in [Fds -> Kernels], NEW g \in Fds
  PROVE  "pri" \notin k[g]
BY DEF Kernels

LEMMA SelectEntries ==
  ASSUME Inv, ~UrgentData, NEW k \in [Fds -> Kernels]
  PROVE  /\ SelectReady(k) \subseteq Fds \X Kinds
         /\ \A g \in Fds : /\ <<g, "READ">> \in SelectReady(k) <=> asked[g] # "none" /\ "in" \in k[g]
                           /\ <<g, "WRITE">> \in SelectReady(k) <=> asked[g] = "both" /\ "out" \in k[g]
                           /\ <<g, "ERROR">> \notin SelectReady(k)
<1>1. /\ rsets_ = handlers_ /\ esets_ = handlers_ /\ handlers_ = {g \in Fds : asked[g] # "none"}
      /\ wsets_ = {g \in Fds : asked[g] = "both"} /\ \A g \in handlers_ : g <= maxfd_
  BY DEF Inv, Asked, SelectTables
<1> DEFINE in == {g \in Fds : asked[g] # "none" /\ "in" \in k[g]}
           out == {g \in Fds : asked[g] = "both" /\ "out" \in k[g]}
<1>2. SelectReady(k) = {<<g, "READ">> : g \in in} \cup {<<g, "WRITE">> : g \in out}
  <2>1. {g \in {h \in rsets_ : h <= maxfd_} : "in" \in k[g]} = in
    BY <1>1
  <2>2. {g \in {h \in wsets_ : h <= maxfd_} : "out" \in k[g]} = out
    BY <1>1
  <2>3. {g \in {h \in esets_ : h <= maxfd_} : "pri" \in k[g]} = {}
    BY <1>1, NoUrgent
  <2> HIDE DEF in, out
  <2> QED
    BY <2>1, <2>2, <2>3 DEF SelectReady
<1>3. SelectReady(k) \subseteq Fds \X Kinds
  BY <1>2 DEF Kinds
<1>4. ASSUME NEW g \in Fds
      PROVE  /\ <<g, "READ">> \in SelectReady(k) <=> g \in in
             /\ <<g, "WRITE">> \in SelectReady(k) <=> g \in out
             /\ <<g, "ERROR">> \notin SelectReady(k)
  <2> HIDE DEF in, out
  <2> QED
    BY <1>2
<1> QED
  BY <1>3, <1>4

LEMMA PollEntries ==
  ASSUME Inv, ~UrgentData, NEW k \in [Fds -> Kernels]
  PROVE  /\ PollReady(k) \subseteq Fds \X Kinds
         /\ \A g \in Fds : /\ <<g, "READ">> \in PollReady(k) <=> asked[g] # "none" /\ "in" \in k[g]
                           /\ <<g, "WRITE">> \in PollReady(k) <=> asked[g] = "both" /\ "out" \in k[g]
                           /\ <<g, "ERROR">> \in PollReady(k) <=> asked[g] # "none" /\ "err" \in k[g]
<1> DEFINE in == {g \in Fds : asked[g] # "none" /\ "in" \in k[g]}
           out == {g \in Fds : asked[g] = "both" /\ "out" \in k[g]}
           err == {g \in Fds : asked[g] # "none" /\ "err" \in k[g]}
           fds == {pollfds_[i].fd : i \in DOMAIN pollfds_}
           outs == {pollfds_[i].fd : i \in {j \in DOMAIN pollfds_ : pollfds_[j].out}}
<1>1. handlers_ = {g \in Fds : asked[g] # "none"}
  BY DEF Inv, Asked
<1>2. fds = handlers_
  BY DEF Inv, PollTable
<1>3. outs = {g \in Fds : asked[g] = "both"}
  <2>1. ASSUME NEW g \in outs PROVE g \in Fds /\ asked[g] = "both"
    BY <1>1, <2>1 DEF Inv, PollTable
  <2>2. ASSUME NEW g \in Fds, asked[g] = "both" PROVE g \in outs
    <3>1. PICK i \in DOMAIN pollfds_ : pollfds_[i].fd = g
      BY <1>1, <2>2 DEF Inv, PollTable
    <3>2. pollfds_[i].out
      BY <2>2, <3>1 DEF Inv, PollTable
    <3> QED
      BY <3>1, <3>2
  <2> HIDE DEF outs
  <2> QED
    BY <2>1, <2>2
<1> HIDE DEF fds, outs
<1>4. PollReady(k) = {<<g, "READ">> : g \in in} \cup {<<g, "WRITE">> : g \in out} \cup {<<g, "ERROR">> : g \in err}
  <2>1. {g \in fds : k[g] \cap {"in", "pri"} # {}} = in
    BY <1>1, <1>2, NoUrgent
  <2>2. {g \in outs : "out" \in k[g]} = out
    BY <1>3
  <2>3. {g \in fds : "err" \in k[g]} = err
    BY <1>1, <1>2
  <2>4. PollReady(k) = {<<g, "READ">> : g \in {h \in fds : k[h] \cap {"in", "pri"} # {}}}
                       \cup {<<g, "WRITE">> : g \in {h \in outs : "out" \in k[h]}}
                       \cup {<<g, "ERROR">> : g \in {h \in fds : "err" \in k[h]}}
    BY DEF PollReady, fds, outs
  <2> HIDE DEF in, out, err
  <2> QED
    BY <2>1, <2>2, <2>3, <2>4
<1>5. PollReady(k) \subseteq Fds \X Kinds
  BY <1>4 DEF Kinds
<1>6. ASSUME NEW g \in Fds
      PROVE  /\ <<g, "READ">> \in PollReady(k) <=> g \in in
             /\ <<g, "WRITE">> \in PollReady(k) <=> g \in out
             /\ <<g, "ERROR">> \in PollReady(k) <=> g \in err
  <2> HIDE DEF in, out, err
  <2> QED
    BY <1>4
<1> QED
  BY <1>5, <1>6

\* epoll reports all it watches that is ready: its array has a place for each
\* registered descriptor, for fd_count_ is at least their number.
LEMMA EpollEntries ==
  ASSUME Inv, NEW k \in [Fds -> Kernels], NEW entries \in SUBSET EpollReady(k), Fits(entries, EpollReady(k))
  PROVE  /\ entries \subseteq Fds \X Kinds
         /\ fd_count_ = 0 => entries = {}
         /\ \A g \in Fds : /\ <<g, "READ">> \in entries <=> asked[g] = "read" /\ "in" \in k[g]
                           /\ <<g, "WRITE">> \in entries <=> asked[g] = "both" /\ "out" \in k[g]
                           /\ <<g, "ERROR">> \in entries <=> asked[g] # "none" /\ "err" \in k[g]
<1> DEFINE in == {g \in Fds : asked[g] = "read" /\ "in" \in k[g]}
           out == {g \in Fds : asked[g] = "both" /\ "out" \in k[g]}
           err == {g \in Fds : asked[g] # "none" /\ "err" \in k[g]}
           all == {<<g, "READ">> : g \in in} \cup {<<g, "WRITE">> : g \in out} \cup {<<g, "ERROR">> : g \in err}
<1>1. EpollReady(k) = all
  BY DEF EpollReady, Inv, EpollTable
<1>2. handlers_ = {g \in Fds : asked[g] # "none"} /\ Cardinality(handlers_) <= fd_count_ /\ fd_count_ \in Nat
      /\ IsFiniteSet(handlers_) /\ Cardinality(handlers_) \in Nat
  BY HandlersFinite DEF Inv, Asked, EpollTable
<1>3. in \subseteq handlers_ /\ out \subseteq handlers_ /\ err \subseteq handlers_
  BY <1>2
<1> HIDE DEF in, out, err
<1>4. Of(all) \subseteq handlers_ /\ \A e \in all : e[1] \in Of(all)
  BY <1>3 DEF Of
<1> HIDE DEF all
<1>5. entries = all
  <2>1. entries = {e \in all : e[1] \in Of(entries)} /\ (entries = all \/ Cardinality(Of(entries)) = fd_count_)
    BY <1>1 DEF Fits
  <2>2. Of(entries) \subseteq handlers_
    BY <1>1, <1>4 DEF Of
  <2>3. ASSUME Cardinality(Of(entries)) = fd_count_ PROVE entries = all
    <3>1. Cardinality(Of(entries)) <= Cardinality(handlers_)
      BY <1>2, <2>2, FS_Subset
    <3>2. Cardinality(Of(entries)) = Cardinality(handlers_)
      BY <1>2, <2>3, <3>1
    <3>3. Of(entries) = handlers_
      BY <1>2, <2>2, <3>2, FS_Subset
    <3> QED
      BY <1>4, <2>1, <3>3
  <2> QED
    BY <2>1, <2>3
<1>6. entries \subseteq Fds \X Kinds
  <2>1. handlers_ \subseteq Fds
    BY <1>2
  <2> QED
    BY <1>3, <1>5, <2>1 DEF all, Kinds
<1>7. fd_count_ = 0 => entries = {}
  <2>1. ASSUME fd_count_ = 0 PROVE handlers_ = {}
    BY <1>2, <2>1, FS_EmptySet
  <2> QED
    BY <1>4, <1>5, <2>1
<1>8. ASSUME NEW g \in Fds
      PROVE  /\ <<g, "READ">> \in entries <=> g \in in
             /\ <<g, "WRITE">> \in entries <=> g \in out
             /\ <<g, "ERROR">> \in entries <=> g \in err
  BY <1>5 DEF all
<1> QED
  BY <1>6, <1>7, <1>8 DEF in, out, err

-----------------------------------------------------------------------------
(* Each call of the loop is one of EventDispatcher's.                       *)

LEMMA HandleEvents ==
  ASSUME handle_events
  PROVE  /\ kernel' \in [Fds -> Kernels] /\ asked' = asked
         /\ \/ /\ ready'["select"] = SelectReady(kernel') /\ ready'["poll"] = PollReady(kernel')
               /\ ready'["epoll"] \in SUBSET EpollReady(kernel') /\ Fits(ready'["epoll"], EpollReady(kernel'))
               /\ ret' = Result(ready')
            \/ \A m \in Methods : ready'[m] = {} /\ ret'[m] = "failed"
<1>1. kernel' \in [Fds -> Kernels] /\ asked' = asked
  BY DEF handle_events, loopVars
<1>2. CASE ready' = [m \in Methods |-> {}] /\ ret' = [m \in Methods |-> "failed"]
  BY <1>1, <1>2
<1>3. ASSUME NEW entries \in SUBSET EpollReady(kernel'), Fits(entries, EpollReady(kernel')),
             ready' = [m \in Methods |-> CASE m = "select" -> SelectReady(kernel')
                                           [] m = "poll" -> PollReady(kernel')
                                           [] m = "epoll" -> entries],
             ret' = Result(ready')
      PROVE  /\ ready'["select"] = SelectReady(kernel') /\ ready'["poll"] = PollReady(kernel')
             /\ ready'["epoll"] \in SUBSET EpollReady(kernel') /\ Fits(ready'["epoll"], EpollReady(kernel'))
             /\ ret' = Result(ready')
  <2>1. "select" \in Methods /\ "poll" \in Methods /\ "epoll" \in Methods
    BY DEF Methods
  <2>2. ready'["select"] = SelectReady(kernel') /\ ready'["poll"] = PollReady(kernel') /\ ready'["epoll"] = entries
    BY <1>3, <2>1
  <2> QED
    BY <1>3, <2>2
<1> QED
  BY <1>1, <1>2, <1>3 DEF handle_events

LEMMA SelectHandle ==
  ASSUME Inv, ~UrgentData, handle_events
  PROVE  Select!handle_events
<1>1. kernel' \in [Fds -> Kernels] /\ asked' = asked /\ "select" \in Methods
  BY HandleEvents DEF Methods
<1>2. CASE ready'["select"] = {} /\ ret'["select"] = "failed"
  BY <1>1, <1>2 DEF Select!handle_events
<1>3. CASE ready'["select"] = SelectReady(kernel') /\ ret' = Result(ready')
  <2> DEFINE r == ready'["select"]
  <2>1. /\ r \subseteq Fds \X Kinds
        /\ \A g \in Fds : /\ <<g, "READ">> \in r <=> asked[g] # "none" /\ "in" \in kernel'[g]
                          /\ <<g, "WRITE">> \in r <=> asked[g] = "both" /\ "out" \in kernel'[g]
                          /\ <<g, "ERROR">> \notin r
    BY <1>1, <1>3, SelectEntries
  <2>2. ret'["select"] = IF r = {} THEN "none" ELSE "some"
    BY <1>1, <1>3 DEF Result
  <2> HIDE DEF r
  <2>3. Select!Sound(kernel', r)
    BY <2>1 DEF Select!Sound, Select!Events
  <2>4. Select!Complete(kernel', r)
    BY <2>1 DEF Select!Complete
  <2> QED
    BY <1>1, <2>1, <2>2, <2>3, <2>4 DEF r, Kinds, Select!handle_events, Select!Events
<1> QED
  BY <1>2, <1>3, HandleEvents DEF Methods

LEMMA SelectStep ==
  ASSUME Inv, ~UrgentData, [Next]_vars
  PROVE  [Select!Next]_Select!vars
<1>0. asked \in [Fds -> Interests] /\ handlers_ = {g \in Fds : asked[g] # "none"}
  BY DEF Inv, Asked
<1>1. CASE UNCHANGED vars
  BY <1>1 DEF vars, loopVars, results, Select!vars
<1>2. ASSUME NEW g \in Fds, NEW writeable \in BOOLEAN, register_event(g, writeable)
      PROVE  Select!add_event(g, writeable)
  BY <1>0, <1>2 DEF register_event, results, Flags, Select!add_event, Select!Interest
<1>3. ASSUME NEW g \in Fds, NEW writeable \in BOOLEAN, modify_event(g, writeable)
      PROVE  Select!mod_event(g, writeable)
  BY <1>0, <1>3 DEF modify_event, results, Flags, Select!mod_event, Select!Interest
<1>4. ASSUME NEW g \in Fds, delete_event(g) PROVE Select!del_event(g)
  BY <1>0, <1>4 DEF delete_event, results, Select!del_event
<1>5. ASSUME Clear PROVE Select!Clear
  <2>1. "select" \in Methods /\ asked' = asked
    BY <1>5 DEF Clear, loopVars, Methods
  <2>2. kernel' = [g \in Fds |-> {}] /\ ready'["select"] = {} /\ ret'["select"] = "none"
    BY <1>5, <2>1 DEF Clear
  <2> QED
    BY <2>1, <2>2 DEF Select!Clear
<1> QED
  BY <1>1, <1>2, <1>3, <1>4, <1>5, SelectHandle DEF Next, Select!Next

\* The select dispatcher reports what was last asked for and is so, and misses
\* nothing a handler waits for, over any sequence of calls, if clients send no
\* urgent data (which it takes for an error).
THEOREM SelectRefines == ~UrgentData => (Spec => SelectImplements)
<1> SUFFICES ASSUME ~UrgentData PROVE Spec => Select!Spec
  BY DEF SelectImplements
<1>1. Init => Select!Init
  BY DEF Init, Methods, Select!Init
<1> QED
  BY <1>1, InvAlways, SelectStep, PTL DEF Spec, Select!Spec

LEMMA PollHandle ==
  ASSUME Inv, ~UrgentData, handle_events
  PROVE  Poll!handle_events
<1>1. kernel' \in [Fds -> Kernels] /\ asked' = asked /\ "poll" \in Methods
  BY HandleEvents DEF Methods
<1>2. CASE ready'["poll"] = {} /\ ret'["poll"] = "failed"
  BY <1>1, <1>2 DEF Poll!handle_events
<1>3. CASE ready'["poll"] = PollReady(kernel') /\ ret' = Result(ready')
  <2> DEFINE r == ready'["poll"]
  <2>1. /\ r \subseteq Fds \X Kinds
        /\ \A g \in Fds : /\ <<g, "READ">> \in r <=> asked[g] # "none" /\ "in" \in kernel'[g]
                          /\ <<g, "WRITE">> \in r <=> asked[g] = "both" /\ "out" \in kernel'[g]
                          /\ <<g, "ERROR">> \in r <=> asked[g] # "none" /\ "err" \in kernel'[g]
    BY <1>1, <1>3, PollEntries
  <2>2. ret'["poll"] = IF r = {} THEN "none" ELSE "some"
    BY <1>1, <1>3 DEF Result
  <2> HIDE DEF r
  <2>3. Poll!Sound(kernel', r)
    BY <2>1 DEF Poll!Sound, Poll!Events
  <2>4. Poll!Complete(kernel', r)
    BY <2>1 DEF Poll!Complete
  <2> QED
    BY <1>1, <2>1, <2>2, <2>3, <2>4 DEF r, Kinds, Poll!handle_events, Poll!Events
<1> QED
  BY <1>2, <1>3, HandleEvents DEF Methods

LEMMA PollStep ==
  ASSUME Inv, ~UrgentData, [Next]_vars
  PROVE  [Poll!Next]_Poll!vars
<1>0. asked \in [Fds -> Interests] /\ handlers_ = {g \in Fds : asked[g] # "none"}
  BY DEF Inv, Asked
<1>1. CASE UNCHANGED vars
  BY <1>1 DEF vars, loopVars, results, Poll!vars
<1>2. ASSUME NEW g \in Fds, NEW writeable \in BOOLEAN, register_event(g, writeable)
      PROVE  Poll!add_event(g, writeable)
  BY <1>0, <1>2 DEF register_event, results, Flags, Poll!add_event, Poll!Interest
<1>3. ASSUME NEW g \in Fds, NEW writeable \in BOOLEAN, modify_event(g, writeable)
      PROVE  Poll!mod_event(g, writeable)
  BY <1>0, <1>3 DEF modify_event, results, Flags, Poll!mod_event, Poll!Interest
<1>4. ASSUME NEW g \in Fds, delete_event(g) PROVE Poll!del_event(g)
  BY <1>0, <1>4 DEF delete_event, results, Poll!del_event
<1>5. ASSUME Clear PROVE Poll!Clear
  <2>1. "poll" \in Methods /\ asked' = asked
    BY <1>5 DEF Clear, loopVars, Methods
  <2>2. kernel' = [g \in Fds |-> {}] /\ ready'["poll"] = {} /\ ret'["poll"] = "none"
    BY <1>5, <2>1 DEF Clear
  <2> QED
    BY <2>1, <2>2 DEF Poll!Clear
<1> QED
  BY <1>1, <1>2, <1>3, <1>4, <1>5, PollHandle DEF Next, Poll!Next

\* So does poll, on the same condition (it takes urgent data for input).
THEOREM PollRefines == ~UrgentData => (Spec => PollImplements)
<1> SUFFICES ASSUME ~UrgentData PROVE Spec => Poll!Spec
  BY DEF PollImplements
<1>1. Init => Poll!Init
  BY DEF Init, Methods, Poll!Init
<1> QED
  BY <1>1, InvAlways, PollStep, PTL DEF Spec, Poll!Spec

LEMMA EpollHandle ==
  ASSUME Inv, handle_events
  PROVE  Epoll!handle_events
<1>1. kernel' \in [Fds -> Kernels] /\ asked' = asked /\ "epoll" \in Methods
  BY HandleEvents DEF Methods
<1>2. CASE ready'["epoll"] = {} /\ ret'["epoll"] = "failed"
  BY <1>1, <1>2 DEF Epoll!handle_events
<1>3. CASE /\ ready'["epoll"] \in SUBSET EpollReady(kernel') /\ Fits(ready'["epoll"], EpollReady(kernel'))
           /\ ret' = Result(ready')
  <2> DEFINE r == ready'["epoll"]
  <2>1. /\ r \subseteq Fds \X Kinds
        /\ fd_count_ = 0 => r = {}
        /\ \A g \in Fds : /\ <<g, "READ">> \in r <=> asked[g] = "read" /\ "in" \in kernel'[g]
                          /\ <<g, "WRITE">> \in r <=> asked[g] = "both" /\ "out" \in kernel'[g]
                          /\ <<g, "ERROR">> \in r <=> asked[g] # "none" /\ "err" \in kernel'[g]
    BY <1>1, <1>3, EpollEntries
  <2>2. /\ ret'["epoll"] \in {"failed", "none", "some"}
        /\ ret'["epoll"] = "failed" => r = {}
        /\ ret'["epoll"] # "failed" => (ret'["epoll"] = "none" <=> r = {})
    <3>1. ret'["epoll"] = IF fd_count_ = 0 THEN "failed" ELSE IF r = {} THEN "none" ELSE "some"
      BY <1>1, <1>3 DEF Result
    <3> HIDE DEF r
    <3> QED
      BY <2>1, <3>1
  <2> HIDE DEF r
  <2>3. Epoll!Sound(kernel', r)
    BY <2>1 DEF Epoll!Sound, Epoll!Events
  <2>4. Epoll!Complete(kernel', r)
    BY <2>1 DEF Epoll!Complete
  <2> QED
    BY <1>1, <2>1, <2>2, <2>3, <2>4 DEF r, Kinds, Epoll!handle_events, Epoll!Events
<1> QED
  BY <1>2, <1>3, HandleEvents DEF Methods

LEMMA EpollStep ==
  ASSUME Inv, [Next]_vars
  PROVE  [Epoll!Next]_Epoll!vars
<1>0. asked \in [Fds -> Interests] /\ handlers_ = {g \in Fds : asked[g] # "none"}
  BY DEF Inv, Asked
<1>1. CASE UNCHANGED vars
  BY <1>1 DEF vars, loopVars, results, Epoll!vars
<1>2. ASSUME NEW g \in Fds, NEW writeable \in BOOLEAN, register_event(g, writeable)
      PROVE  Epoll!add_event(g, writeable)
  BY <1>0, <1>2 DEF register_event, results, Flags, Epoll!add_event, Epoll!Interest
<1>3. ASSUME NEW g \in Fds, NEW writeable \in BOOLEAN, modify_event(g, writeable)
      PROVE  Epoll!mod_event(g, writeable)
  BY <1>0, <1>3 DEF modify_event, results, Flags, Epoll!mod_event, Epoll!Interest
<1>4. ASSUME NEW g \in Fds, delete_event(g) PROVE Epoll!del_event(g)
  BY <1>0, <1>4 DEF delete_event, results, Epoll!del_event
<1>5. ASSUME Clear PROVE Epoll!Clear
  <2>1. "epoll" \in Methods /\ asked' = asked
    BY <1>5 DEF Clear, loopVars, Methods
  <2>2. kernel' = [g \in Fds |-> {}] /\ ready'["epoll"] = {} /\ ret'["epoll"] = "none"
    BY <1>5, <2>1 DEF Clear
  <2> QED
    BY <2>1, <2>2 DEF Epoll!Clear
<1> QED
  BY <1>1, <1>2, <1>3, <1>4, <1>5, EpollHandle DEF Next, Epoll!Next

\* So does epoll, unconditionally: the counter that sizes its array, which also
\* grows with every deletion, never leaves a ready descriptor out.
THEOREM EpollRefines == Spec => EpollImplements
<1> SUFFICES Spec => Epoll!Spec
  BY DEF EpollImplements
<1>1. Init => Epoll!Init
  BY DEF Init, Methods, Epoll!Init
<1> QED
  BY <1>1, InvAlways, EpollStep, PTL DEF Spec, Epoll!Spec
=============================================================================
