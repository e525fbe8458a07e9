---------------------------- MODULE PyReactorProofs ----------------------------
(***************************************************************************)
(* PyReactor for any loops, clients, chunks and bounds: run() finds a      *)
(* handler for all that select returned, a connection is watched in one    *)
(* direction, and the tcp program's replies are what was sent.             *)
(***************************************************************************)
EXTENDS PyReactor, Remainders, SequenceTheorems, TLAPS

USE NamesAssumption, SizesAssumption

Buf == {b \in [text : Seq(Nat), put : Nat] : b.put <= Len(b.text)}

\* What the steps below find in the variables they read.
Typed ==
    /\ program \in {"reactor", "tcp"} /\ unstarted \subseteq Threads
    /\ loop_service \in Seq(Threads) /\ index \in Nat /\ pc \in [Loops -> Steps]
    /\ inputs \in [Loops -> SUBSET (Conns \cup {Listen})] /\ outputs \in [Loops -> SUBSET Conns]
    /\ handlers \in [Loops -> SUBSET (Conns \cup {Listen})]
    /\ functors \in [Loops -> Seq(Conns)]
    /\ rlist \in [Loops -> SUBSET (Conns \cup {Listen})] /\ wlist \in [Loops -> SUBSET Conns]
    /\ reading \in [Loops -> Conns \cup {None}]
    /\ conn \in [Conns -> {"none", "queued", "open", "closed"}] /\ on \in [Conns -> Loops]
    /\ arrived \in [Conns -> Nat] /\ received \in [Conns -> Nat]
    /\ recv_buffer \in [Conns -> Buf] /\ send_buffer \in [Conns -> Buf]

\* No loop runs before it is started, and nothing is accepted before the base loop runs.
Starts ==
    /\ \A t \in unstarted : pc[t] = "none"
    /\ main # "run" => pc[Base] = "none" /\ \A c \in Conns : conn[c] = "none"
    /\ \A l \in Loops : reading[l] = None <=> pc[l] # "recv"

\* The tables say what the connections are.
Tables ==
    \A l \in Loops :
        /\ \A c \in Conns : /\ c \in handlers[l] <=> conn[c] = "open" /\ on[c] = l
                            /\ c \in outputs[l] <=> c \in handlers[l] /\ Pending(c)
                            /\ c \in inputs[l] <=> c \in handlers[l] /\ ~Pending(c)
        /\ Listen \in inputs[l] => Listen \in handlers[l]

\* What is left of a batch is still watched for what it was returned for.
Batch ==
    \A l \in Loops : /\ rlist[l] \subseteq inputs[l] /\ wlist[l] \subseteq outputs[l]
                     /\ reading[l] # None => reading[l] \in inputs[l] \ rlist[l]

Silent == \A c \in Conns : conn[c] # "open" => ~Pending(c)

Queues ==
    \A l \in Loops : \A i \in DOMAIN functors[l] :
        /\ conn[functors[l][i]] = "queued" /\ on[functors[l][i]] = l
        /\ \A j \in DOMAIN functors[l] : functors[l][i] = functors[l][j] => i = j

Inv == Typed /\ Starts /\ Tables /\ Batch /\ Silent /\ Queues

-----------------------------------------------------------------------------
(* Buffers.                                                                 *)

LEMMA BufEmpty == Empty \in Buf
<1>1. <<>> \in Seq(Nat) /\ Len(<<>>) = 0
  OBVIOUS
<1> QED
  BY <1>1 DEF Empty, Buf

LEMMA NumberSeq ==
  ASSUME NEW from \in Nat, NEW n \in Nat
  PROVE  /\ Number(from, n) \in Seq(Nat) /\ Len(Number(from, n)) = n
         /\ \A i \in 1..n : Number(from, n)[i] = from + i
<1>1. \A i \in 1..n : from + i \in Nat
  OBVIOUS
<1>2. Number(from, n) \in Seq(Nat)
  BY <1>1 DEF Number
<1>3. DOMAIN Number(from, n) = 1..n
  BY DEF Number
<1> QED
  BY <1>2, <1>3, LenProperties DEF Number

\* What is pushed is there to be sent.
LEMMA PushFills ==
  ASSUME program \in {"reactor", "tcp"}, NEW b \in Buf, NEW s \in Seq(Nat), Len(s) # 0
  PROVE  push(b, s) \in Buf /\ push(b, s).put > 0 /\ push(b, s).text # <<>>
<1>1. /\ b.text \in Seq(Nat) /\ b.put \in Nat /\ b.put <= Len(b.text)
      /\ Len(b.text) \in Nat /\ Len(s) \in Nat /\ Len(s) > 0
  BY DEF Buf
<1>2. CASE program = "reactor"
  <2> DEFINE end == b.put + Len(s)
             n == IF end > Len(b.text) THEN end ELSE Len(b.text)
             t == [i \in 1..n |-> IF b.put < i /\ i <= end THEN s[i - b.put] ELSE b.text[i]]
  <2>1. push(b, s) = [text |-> t, put |-> end]
    BY <1>2 DEF push, Overwrite
  <2>2. n \in Nat /\ end \in Nat /\ end > 0 /\ end <= n
    BY <1>1
  <2>3. ASSUME NEW i \in 1..n PROVE (IF b.put < i /\ i <= end THEN s[i - b.put] ELSE b.text[i]) \in Nat
    <3>1. CASE b.put < i /\ i <= end
      <4>1. i - b.put \in 1..Len(s)
        BY <1>1, <2>2, <3>1
      <4> QED
        BY <3>1, <4>1, ElementOfSeq
    <3>2. CASE ~(b.put < i /\ i <= end)
      <4>1. i \in 1..Len(b.text)
        BY <1>1, <2>2, <3>2
      <4> QED
        BY <1>1, <3>2, <4>1, ElementOfSeq
    <3> QED
      BY <3>1, <3>2
  <2> HIDE DEF n, end
  <2>4. t \in Seq(Nat)
    BY <2>2, <2>3
  <2>5. Len(t) = n
    BY <2>2, <2>4, LenProperties
  <2> HIDE DEF t
  <2>6. t # <<>>
    BY <2>2, <2>5
  <2> QED
    BY <2>1, <2>2, <2>4, <2>5, <2>6 DEF Buf
<1>3. CASE program = "tcp"
  <2> DEFINE t == b.text \o s
  <2>1. push(b, s) = [text |-> t, put |-> Len(b.text) + Len(s)]
    BY <1>3 DEF push
  <2>2. t \in Seq(Nat) /\ Len(t) = Len(b.text) + Len(s)
    BY <1>1, ConcatProperties
  <2> HIDE DEF t
  <2>3. t # <<>>
    BY <1>1, <2>2
  <2> QED
    BY <1>1, <2>1, <2>2, <2>3 DEF Buf
<1> QED
  BY <1>2, <1>3

LEMMA TakenEmpties ==
  ASSUME program \in {"reactor", "tcp"}, NEW b \in Buf
  PROVE  /\ Taken(b) \in Buf
         /\ program = "reactor" => Taken(b).put = 0
         /\ program = "tcp" => Taken(b) = Empty
<1>1. b.text \in Seq(Nat) /\ b.put \in Nat /\ b = [text |-> b.text, put |-> b.put] /\ Len(b.text) \in Nat
  BY DEF Buf
<1>2. [b EXCEPT !.put = 0] = [text |-> b.text, put |-> 0]
  BY <1>1
<1>3. [text |-> b.text, put |-> 0] \in Buf
  BY <1>1 DEF Buf
<1> QED
  BY <1>2, <1>3, BufEmpty DEF Taken

-----------------------------------------------------------------------------
(* The tables.                                                              *)

LEMMA InitInv == ASSUME Init PROVE Inv
<1>1. Typed
  <2>1. Base \in Loops /\ None \in Conns \cup {None}
    BY DEF Loops
  <2>2. "none" \in Steps
    BY DEF Steps
  <2>3. /\ \A l \in Loops : functors[l] = <<>>
        /\ functors \in [Loops -> Seq(Conns)] /\ loop_service \in Seq(Threads)
    BY DEF Init
  <2> QED
    BY <2>1, <2>2, <2>3, BufEmpty DEF Init, Typed
<1>2. Starts
  BY DEF Init, Starts, Loops
<1>3. \A c \in Conns : conn[c] = "none" /\ ~Pending(c)
  <2>1. ASSUME NEW c \in Conns PROVE conn[c] = "none" /\ send_buffer[c] = Empty
    BY DEF Init
  <2>2. Empty.text = <<>> /\ ~(Empty.put > 0)
    BY DEF Empty
  <2> QED
    BY <2>1, <2>2 DEF Pending
<1>4. Tables /\ Batch
  BY <1>3 DEF Init, Tables, Batch
<1>5. Silent
  BY <1>3 DEF Silent
<1>6. Queues
  <2>1. \A l \in Loops : DOMAIN functors[l] = {}
    BY DEF Init
  <2> QED
    BY <2>1 DEF Queues
<1> QED
  BY <1>1, <1>2, <1>4, <1>5, <1>6 DEF Inv

\* A step that leaves connections, tables and queues alone, and takes nothing
\* into the batch.
LEMMA Elsewhere ==
  ASSUME Inv, UNCHANGED <<program, tables, functors, conn, on, send_buffer>>,
         \A l \in Loops : /\ rlist'[l] \subseteq rlist[l] /\ wlist'[l] \subseteq wlist[l]
                          /\ reading'[l] \in {reading[l], None}
  PROVE  Tables' /\ Batch' /\ Silent' /\ Queues'
<1>1. Tables' /\ Silent' /\ Queues'
  BY DEF Inv, tables, Tables, Silent, Queues, Pending
<1>2. Batch'
  BY DEF Inv, tables, Batch
<1> QED
  BY <1>1, <1>2

LEMMA DieInv ==
  ASSUME Inv, NEW l \in Loops, pc[l] # "none", Die(l)
  PROVE  Inv'
<1>1. /\ pc' = [pc EXCEPT ![l] = "dead"] /\ rlist' = [rlist EXCEPT ![l] = {}]
      /\ wlist' = [wlist EXCEPT ![l] = {}] /\ reading' = [reading EXCEPT ![l] = None]
      /\ UNCHANGED <<poolVars, tables, functors, conn, on, network, data>>
  BY DEF Die
<1>2. Typed'
  BY <1>1 DEF Inv, Typed, poolVars, tables, network, data, Steps
<1>3. Starts'
  BY <1>1 DEF Inv, Typed, Starts, poolVars, Steps
<1>4. \A k \in Loops : /\ rlist'[k] \subseteq rlist[k] /\ wlist'[k] \subseteq wlist[k]
                       /\ reading'[k] \in {reading[k], None}
  BY <1>1 DEF Inv, Typed
<1>5. UNCHANGED <<program, tables, functors, conn, on, send_buffer>>
  BY <1>1 DEF poolVars, data
<1> QED
  BY <1>2, <1>3, <1>4, <1>5, Elsewhere DEF Inv

LEMMA MainInv ==
  ASSUME Inv, StartThread \/ TestLoop
  PROVE  Inv'
<1>1. UNCHANGED <<program, index, published, tables, functors, batch, conn, on, network, data>>
  BY DEF StartThread, TestLoop
<1>2. CASE StartThread
  <2>1. PICK t \in unstarted : unstarted' = unstarted \ {t} /\ pc' = [pc EXCEPT ![t] = "publish"]
    BY <1>2 DEF StartThread
  <2>2. main = "start" /\ main' = "get_loop" /\ loop_service' = loop_service /\ t \in Loops /\ t # Base
    BY <1>2 DEF StartThread, Inv, Typed, Loops
  <2>3. Typed'
    BY <1>1, <2>1, <2>2 DEF Inv, Typed, tables, batch, network, data, Steps
  <2>4. Starts'
    BY <1>1, <2>1, <2>2 DEF Inv, Typed, Starts, batch
  <2>5. Tables' /\ Batch' /\ Silent' /\ Queues'
    BY <1>1, Elsewhere DEF batch, data
  <2> QED
    BY <2>3, <2>4, <2>5 DEF Inv
<1>3. CASE TestLoop
  <2>1. PICK t \in Threads : loop_service' = IF published[t] THEN Append(loop_service, t) ELSE loop_service
    BY <1>3 DEF TestLoop
  <2>2. main = "get_loop" /\ main' # "run" /\ pc' = pc /\ unstarted' = unstarted
    BY <1>3 DEF TestLoop
  <2>3. Typed'
    BY <1>1, <2>1, <2>2 DEF Inv, Typed, tables, batch, network, data
  <2>4. Starts'
    BY <1>1, <2>2 DEF Inv, Starts, batch
  <2>5. Tables' /\ Batch' /\ Silent' /\ Queues'
    BY <1>1, Elsewhere DEF batch, data
  <2> QED
    BY <2>3, <2>4, <2>5 DEF Inv
<1> QED
  BY <1>2, <1>3

LEMMA RunBaseInv ==
  ASSUME Inv, RunBase
  PROVE  Inv'
<1>1. /\ main = "start" /\ main' = "run" /\ pc' = [pc EXCEPT ![Base] = "select"]
      /\ inputs' = [inputs EXCEPT ![Base] = {Listen}]
      /\ handlers' = [handlers EXCEPT ![Base] = {Listen}] /\ Base \in Loops
      /\ UNCHANGED <<program, unstarted, loop_service, index, outputs, functors, batch, conn, on, network, data>>
  BY DEF RunBase, Loops
<1>2. \A c \in Conns : conn[c] = "none" /\ pc[Base] = "none" /\ Listen # c
  BY <1>1 DEF Inv, Starts
<1>3. Typed'
  BY <1>1 DEF Inv, Typed, batch, network, data, Steps
<1>4. Starts'
  BY <1>1, <1>2 DEF Inv, Typed, Starts, batch, Loops
<1>5. Tables'
  <2>1. \A l \in Loops : \A c \in Conns : c \notin handlers[l] /\ c \notin inputs[l] /\ c \notin outputs[l]
    BY <1>2 DEF Inv, Tables
  <2>2. \A l \in Loops : \A c \in Conns : c \notin handlers'[l] /\ c \notin inputs'[l] /\ c \notin outputs'[l]
    BY <1>1, <1>2, <2>1 DEF Inv, Typed
  <2>3. \A l \in Loops : Listen \in inputs'[l] => Listen \in handlers'[l]
    BY <1>1 DEF Inv, Typed, Tables
  <2> QED
    BY <1>1, <1>2, <2>2, <2>3 DEF Tables
<1>6. Batch'
  <2>1. \A c \in Conns : c \notin inputs[Base]
    BY <1>1, <1>2 DEF Inv, Tables
  <2>2. rlist[Base] \subseteq {Listen} /\ reading[Base] = None
    BY <1>1, <1>2, <2>1 DEF Inv, Typed, Starts, Batch
  <2> QED
    BY <1>1, <2>2 DEF Inv, Typed, Batch, batch
<1>7. Silent' /\ Queues'
  BY <1>1 DEF Inv, Silent, Queues, Pending, data
<1> QED
  BY <1>3, <1>4, <1>5, <1>6, <1>7 DEF Inv

\* Steps of one loop that only move it on.
LEMMA MoveInv ==
  ASSUME Inv, NEW l \in Loops, pc[l] \notin {"none", "recv"}, NEW next \in Steps \ {"none", "recv"},
         pc' = [pc EXCEPT ![l] = next], main' = "run" <=> main = "run",
         UNCHANGED <<program, unstarted, loop_service, index, tables, functors, batch, conn, on, network, data>>
  PROVE  Inv'
<1>1. Typed'
  BY DEF Inv, Typed, tables, batch, network, data
<1>2. Starts'
  BY DEF Inv, Typed, Starts, batch
<1>3. Tables' /\ Batch' /\ Silent' /\ Queues'
  BY Elsewhere DEF batch, data
<1> QED
  BY <1>1, <1>2, <1>3 DEF Inv

LEMMA SelectInv ==
  ASSUME Inv, NEW l \in Loops, Select(l)
  PROVE  Inv'
<1> DEFINE ready == {c \in inputs[l] : Readable(c)}
<1>1. /\ pc[l] = "select" /\ pc' = [pc EXCEPT ![l] = "read"]
      /\ rlist' = [rlist EXCEPT ![l] = ready] /\ wlist' = [wlist EXCEPT ![l] = outputs[l]]
      /\ UNCHANGED <<poolVars, tables, functors, reading, conn, on, network, data>>
  BY DEF Select
<1>2. ready \subseteq inputs[l]
  OBVIOUS
<1> HIDE DEF ready
<1>3. Typed'
  <2>1. inputs[l] \subseteq Conns \cup {Listen} /\ outputs[l] \subseteq Conns
    BY DEF Inv, Typed
  <2>2. rlist' \in [Loops -> SUBSET (Conns \cup {Listen})] /\ wlist' \in [Loops -> SUBSET Conns]
    BY <1>1, <1>2, <2>1 DEF Inv, Typed
  <2> QED
    BY <1>1, <2>2 DEF Inv, Typed, poolVars, tables, network, data, Steps
<1>4. Starts'
  BY <1>1 DEF Inv, Typed, Starts, poolVars
<1>5. Tables' /\ Silent' /\ Queues'
  BY <1>1 DEF Inv, poolVars, tables, data, Tables, Silent, Queues, Pending
<1>6. Batch'
  <2>1. reading[l] = None
    BY <1>1 DEF Inv, Starts
  <2> QED
    BY <1>1, <1>2, <2>1 DEF Inv, Typed, Batch, tables
<1> QED
  BY <1>3, <1>4, <1>5, <1>6 DEF Inv

LEMMA AcceptInv ==
  ASSUME Inv, Accept
  PROVE  Inv'
<1>1. /\ pc[Base] = "read" /\ rlist' = [rlist EXCEPT ![Base] = @ \ {Listen}] /\ Base \in Loops
      /\ UNCHANGED <<program, unstarted, main, loop_service, pc, tables, wlist, reading, network, data>>
  BY DEF Accept, Loops
<1>2. PICK c \in Conns, l \in Loops :
        /\ conn[c] = "none" /\ conn' = [conn EXCEPT ![c] = "queued"] /\ on' = [on EXCEPT ![c] = l]
        /\ functors' = [functors EXCEPT ![l] = Append(@, c)] /\ index' \in Nat
  <2>1. PICK c \in Backlog :
          LET n == Len(loop_service)
              l == IF n = 0 THEN Base ELSE loop_service[(index % n) + 1]
          IN  /\ conn' = [conn EXCEPT ![c] = "queued"] /\ on' = [on EXCEPT ![c] = l]
              /\ functors' = [functors EXCEPT ![l] = Append(@, c)]
              /\ index' = IF n = 0 THEN index ELSE index + 1
    BY DEF Accept
  <2>2. loop_service \in Seq(Threads) /\ index \in Nat /\ Len(loop_service) \in Nat
    BY DEF Inv, Typed
  <2>3. CASE Len(loop_service) = 0
    BY <1>1, <2>1, <2>2, <2>3 DEF Backlog
  <2>4. CASE Len(loop_service) # 0
    <3>1. (index % Len(loop_service)) + 1 \in 1..Len(loop_service)
      BY <2>2, <2>4
    <3>2. loop_service[(index % Len(loop_service)) + 1] \in Loops
      BY <2>2, <3>1, ElementOfSeq DEF Loops
    <3> DEFINE l == loop_service[(index % Len(loop_service)) + 1]
    <3>3. /\ conn' = [conn EXCEPT ![c] = "queued"] /\ on' = [on EXCEPT ![c] = l]
          /\ functors' = [functors EXCEPT ![l] = Append(@, c)] /\ index' = index + 1
      BY <2>1, <2>4
    <3>4. c \in Conns /\ conn[c] = "none" /\ index + 1 \in Nat
      BY <2>2 DEF Backlog
    <3>5. l \in Loops
      BY <3>2
    <3> HIDE DEF l
    <3> QED
      BY <3>3, <3>4, <3>5
  <2> QED
    BY <2>3, <2>4
<1>3. functors[l] \in Seq(Conns) /\ functors'[l] = Append(functors[l], c)
      /\ \A k \in Loops : k # l => functors'[k] = functors[k]
  BY <1>2 DEF Inv, Typed
<1>4. Typed'
  <2>1. functors' \in [Loops -> Seq(Conns)]
    BY <1>2, <1>3 DEF Inv, Typed
  <2>2. rlist' \in [Loops -> SUBSET (Conns \cup {Listen})]
    BY <1>1 DEF Inv, Typed
  <2> QED
    BY <1>1, <1>2, <2>1, <2>2 DEF Inv, Typed, tables, network, data
<1>5. Starts'
  <2>1. main = "run"
    BY <1>1 DEF Inv, Starts
  <2> QED
    BY <1>1, <2>1 DEF Inv, Starts
<1>6. Tables'
  BY <1>1, <1>2 DEF Inv, Typed, Tables, tables, Pending, data
<1>7. Batch'
  BY <1>1 DEF Inv, Typed, Batch, tables
<1>8. Silent'
  BY <1>1, <1>2 DEF Inv, Typed, Silent, Pending, data
<1>9. Queues'
  <2>1. /\ DOMAIN functors[l] = 1..Len(functors[l]) /\ Len(functors[l]) \in Nat
        /\ DOMAIN functors'[l] = 1..(Len(functors[l]) + 1)
        /\ functors'[l][Len(functors[l]) + 1] = c
        /\ \A i \in DOMAIN functors[l] : functors'[l][i] = functors[l][i]
    BY <1>3
  <2>2. ASSUME NEW k \in Loops, NEW i \in DOMAIN functors'[k]
        PROVE  \/ /\ i \in DOMAIN functors[k] /\ functors'[k][i] = functors[k][i] /\ functors[k][i] # c
                  /\ conn'[functors[k][i]] = "queued" /\ on'[functors[k][i]] = k
               \/ k = l /\ i = Len(functors[l]) + 1 /\ functors'[k][i] = c
    <3>1. CASE i \in DOMAIN functors[k] /\ functors'[k][i] = functors[k][i]
      <4>1. conn[functors[k][i]] = "queued" /\ on[functors[k][i]] = k
        BY <3>1 DEF Inv, Queues
      <4>2. functors[k][i] \in Conns
        BY <3>1 DEF Inv, Typed
      <4> QED
        BY <1>2, <3>1, <4>1, <4>2 DEF Inv, Typed
    <3> QED
      BY <1>3, <2>1, <2>2, <3>1
  <2>3. conn'[c] = "queued" /\ on'[c] = l
    BY <1>2 DEF Inv, Typed
  <2> QED
    BY <2>2, <2>3 DEF Inv, Queues
<1> QED
  BY <1>4, <1>5, <1>6, <1>7, <1>8, <1>9 DEF Inv

\* Entries other than those of c in the tables of l.
OthersAlone(l, c) ==
    \A k \in Loops, d \in Conns \cup {Listen} : k # l \/ d # c =>
        /\ d \in handlers'[k] <=> d \in handlers[k]
        /\ d \in inputs'[k] <=> d \in inputs[k]
        /\ d \in outputs'[k] <=> d \in outputs[k]

TablesTyped ==
    /\ inputs \in [Loops -> SUBSET (Conns \cup {Listen})] /\ outputs \in [Loops -> SUBSET Conns]
    /\ handlers \in [Loops -> SUBSET (Conns \cup {Listen})]

\* What unregister and modify do to the tables of a loop.
LEMMA Unregistered ==
  ASSUME TablesTyped, NEW l \in Loops, NEW c \in Conns, unregister(l, c)
  PROVE  /\ TablesTyped' /\ OthersAlone(l, c)
         /\ c \notin handlers'[l] /\ c \notin inputs'[l] /\ c \notin outputs'[l]
<1>1. \A k \in Loops : /\ inputs'[k] = IF k = l THEN inputs[l] \ {c} ELSE inputs[k]
                       /\ outputs'[k] = IF k = l THEN outputs[l] \ {c} ELSE outputs[k]
                       /\ handlers'[k] = IF k = l THEN handlers[l] \ {c} ELSE handlers[k]
  BY DEF TablesTyped, unregister
<1>2. TablesTyped'
  BY DEF TablesTyped, unregister
<1>3. OthersAlone(l, c)
  BY <1>1 DEF OthersAlone
<1> QED
  BY <1>1, <1>2, <1>3

LEMMA ModifiedRead ==
  ASSUME TablesTyped, NEW l \in Loops, NEW c \in Conns, modify(l, c, "READ")
  PROVE  /\ TablesTyped' /\ OthersAlone(l, c)
         /\ c \in handlers'[l] /\ c \in inputs'[l] /\ c \notin outputs'[l]
<1>0. /\ inputs' = [inputs EXCEPT ![l] = @ \cup {c}] /\ outputs' = [outputs EXCEPT ![l] = @ \ {c}]
      /\ handlers' = [handlers EXCEPT ![l] = @ \cup {c}]
  BY DEF modify
<1>1. \A k \in Loops : /\ inputs'[k] = IF k = l THEN inputs[l] \cup {c} ELSE inputs[k]
                       /\ outputs'[k] = IF k = l THEN outputs[l] \ {c} ELSE outputs[k]
                       /\ handlers'[k] = IF k = l THEN handlers[l] \cup {c} ELSE handlers[k]
  BY <1>0 DEF TablesTyped
<1>2. TablesTyped'
  BY <1>0 DEF TablesTyped
<1>3. OthersAlone(l, c)
  BY <1>1 DEF OthersAlone
<1> QED
  BY <1>1, <1>2, <1>3

LEMMA ModifiedWrite ==
  ASSUME TablesTyped, NEW l \in Loops, NEW c \in Conns, modify(l, c, "WRITE")
  PROVE  /\ TablesTyped' /\ OthersAlone(l, c)
         /\ c \in handlers'[l] /\ c \notin inputs'[l] /\ c \in outputs'[l]
<1>0. /\ inputs' = [inputs EXCEPT ![l] = @ \ {c}] /\ outputs' = [outputs EXCEPT ![l] = @ \cup {c}]
      /\ handlers' = [handlers EXCEPT ![l] = @ \cup {c}]
  BY DEF modify
<1>1. \A k \in Loops : /\ inputs'[k] = IF k = l THEN inputs[l] \ {c} ELSE inputs[k]
                       /\ outputs'[k] = IF k = l THEN outputs[l] \cup {c} ELSE outputs[k]
                       /\ handlers'[k] = IF k = l THEN handlers[l] \cup {c} ELSE handlers[k]
  BY <1>0 DEF TablesTyped
<1>2. TablesTyped'
  BY <1>0 DEF TablesTyped
<1>3. OthersAlone(l, c)
  BY <1>1 DEF OthersAlone
<1> QED
  BY <1>1, <1>2, <1>3

\* A step that handles connection c of loop l, and what is left of the batch does
\* not hold c.
LEMMA HandledInv ==
  ASSUME Inv, NEW l \in Loops, NEW c \in Conns, program' = program, OthersAlone(l, c),
         c \in handlers'[l] <=> conn'[c] = "open",
         c \in outputs'[l] <=> c \in handlers'[l] /\ Pending(c)',
         c \in inputs'[l] <=> c \in handlers'[l] /\ ~Pending(c)',
         Pending(c)' => conn'[c] = "open",
         on[c] = l, on' = on,
         \A d \in Conns : d # c => conn'[d] = conn[d] /\ send_buffer'[d] = send_buffer[d],
         \A k \in Loops : /\ rlist'[k] = rlist[k] /\ wlist'[k] \subseteq wlist[k]
                          /\ reading'[k] = IF k = l THEN None ELSE reading[k],
         c \notin rlist[l], c \notin wlist'[l]
  PROVE  Tables' /\ Batch' /\ Silent'
<1>1. \A k \in Loops, d \in Conns \cup {Listen} : k # l \/ d # c =>
        /\ d \in handlers'[k] <=> d \in handlers[k]
        /\ d \in inputs'[k] <=> d \in inputs[k]
        /\ d \in outputs'[k] <=> d \in outputs[k]
  BY DEF OthersAlone
<1>2. \A d \in Conns : d # c => (Pending(d)' <=> Pending(d))
  BY DEF Pending
<1>3. Tables'
  <2>1. ASSUME NEW k \in Loops, NEW d \in Conns
        PROVE  /\ d \in handlers'[k] <=> conn'[d] = "open" /\ on'[d] = k
               /\ d \in outputs'[k] <=> d \in handlers'[k] /\ Pending(d)'
               /\ d \in inputs'[k] <=> d \in handlers'[k] /\ ~Pending(d)'
    <3>1. CASE d # c
      <4>1. /\ d \in handlers[k] <=> conn[d] = "open" /\ on[d] = k
            /\ d \in outputs[k] <=> d \in handlers[k] /\ Pending(d)
            /\ d \in inputs[k] <=> d \in handlers[k] /\ ~Pending(d)
        BY DEF Inv, Tables
      <4> QED
        BY <1>1, <1>2, <3>1, <4>1
    <3>2. CASE d = c /\ k # l
      <4>1. c \notin handlers[k] /\ c \notin outputs[k] /\ c \notin inputs[k]
        BY <3>2 DEF Inv, Tables
      <4> QED
        BY <1>1, <3>2, <4>1
    <3>3. CASE d = c /\ k = l
      BY <1>1, <3>3
    <3> QED
      BY <3>1, <3>2, <3>3
  <2>2. ASSUME NEW k \in Loops, Listen \in inputs'[k] PROVE Listen \in handlers'[k]
    <3>1. Listen # c
      OBVIOUS
    <3> QED
      BY <1>1, <2>2, <3>1 DEF Inv, Tables
  <2> QED
    BY <2>1, <2>2 DEF Tables
<1>4. Batch'
  <2>1. ASSUME NEW k \in Loops
        PROVE  /\ rlist'[k] \subseteq inputs'[k] /\ wlist'[k] \subseteq outputs'[k]
               /\ reading'[k] # None => reading'[k] \in inputs'[k] \ rlist'[k]
    <3>1. /\ rlist[k] \subseteq inputs[k] /\ wlist[k] \subseteq outputs[k]
          /\ reading[k] # None => reading[k] \in inputs[k] \ rlist[k]
      BY DEF Inv, Batch
    <3>2. rlist[k] \subseteq Conns \cup {Listen} /\ wlist[k] \subseteq Conns /\ reading[k] \in Conns \cup {None}
      BY DEF Inv, Typed
    <3>3. CASE k = l
      BY <1>1, <3>1, <3>2, <3>3
    <3>4. CASE k # l
      BY <1>1, <3>1, <3>2, <3>4
    <3> QED
      BY <3>3, <3>4
  <2> QED
    BY <2>1 DEF Batch
<1>5. Silent'
  BY <1>2 DEF Inv, Silent
<1> QED
  BY <1>3, <1>4, <1>5

LEMMA BeginReadInv ==
  ASSUME Inv, NEW l \in Loops, BeginRead(l)
  PROVE  Inv'
<1>1. PICK c \in rlist[l] \ {Listen} :
        IF c \notin handlers[l] THEN Die(l)
        ELSE /\ rlist' = [rlist EXCEPT ![l] = @ \ {c}]
             /\ reading' = [reading EXCEPT ![l] = c] /\ pc' = [pc EXCEPT ![l] = "recv"]
             /\ UNCHANGED <<poolVars, tables, functors, wlist, conn, on, network, data>>
  BY DEF BeginRead
<1>2. pc[l] = "read" /\ c \in Conns /\ c \in inputs[l] /\ c # None
  BY DEF BeginRead, Inv, Typed, Batch
<1>3. CASE c \notin handlers[l]
  BY <1>1, <1>2, <1>3, DieInv
<1>4. CASE c \in handlers[l]
  <2>1. /\ rlist' = [rlist EXCEPT ![l] = @ \ {c}]
        /\ reading' = [reading EXCEPT ![l] = c] /\ pc' = [pc EXCEPT ![l] = "recv"]
        /\ UNCHANGED <<poolVars, tables, functors, wlist, conn, on, network, data>>
    BY <1>1, <1>4
  <2>2. Typed'
    BY <1>2, <2>1 DEF Inv, Typed, poolVars, tables, network, data, Steps
  <2>3. Starts'
    BY <1>2, <2>1 DEF Inv, Typed, Starts, poolVars
  <2>4. Tables' /\ Silent' /\ Queues'
    BY <2>1 DEF Inv, poolVars, tables, data, Tables, Silent, Queues, Pending
  <2>5. Batch'
    BY <1>2, <2>1 DEF Inv, Typed, Batch, tables
  <2> QED
    BY <2>2, <2>3, <2>4, <2>5 DEF Inv
<1> QED
  BY <1>3, <1>4

\* The connection in do_read.
LEMMA ReadingIs ==
  ASSUME Inv, NEW l \in Loops, pc[l] = "recv"
  PROVE  /\ reading[l] \in Conns \cup {Listen} /\ reading[l] # None
         /\ reading[l] \in inputs[l] /\ reading[l] \notin rlist[l]
         /\ reading[l] \in Conns
BY DEF Inv, Typed, Starts, Batch

LEMMA RecvEofInv ==
  ASSUME Inv, NEW l \in Loops, RecvEof(l)
  PROVE  Inv'
<1>1. PICK c \in Conns : c = reading[l] /\ pc[l] = "recv" /\ c # None /\ c \in inputs[l] /\ c \notin rlist[l]
  BY ReadingIs DEF RecvEof
<1>2. conn[c] = "open" /\ on[c] = l /\ ~Pending(c) /\ c \notin outputs[l]
  BY <1>1 DEF Inv, Tables
<1>3. CASE Die(l)
  BY <1>1, <1>3, DieInv
<1>4. CASE /\ unregister(l, c) /\ conn' = [conn EXCEPT ![c] = "closed"]
           /\ pc' = [pc EXCEPT ![l] = "read"] /\ reading' = [reading EXCEPT ![l] = None]
           /\ UNCHANGED <<poolVars, functors, rlist, wlist, on, network, data>>
  <2>1. /\ TablesTyped' /\ OthersAlone(l, c)
        /\ c \notin handlers'[l] /\ c \notin inputs'[l] /\ c \notin outputs'[l]
    BY <1>1, <1>4, Unregistered DEF Inv, Typed, TablesTyped
  <2>2. Typed'
    BY <1>1, <1>4, <2>1 DEF Inv, Typed, TablesTyped, poolVars, network, data, Steps
  <2>3. Starts'
    <3>1. main = "run"
      BY <1>1, <1>2 DEF Inv, Starts
    <3> QED
      BY <1>1, <1>4, <3>1 DEF Inv, Typed, Starts, poolVars
  <2>4. Tables' /\ Batch' /\ Silent'
    <3>1. conn'[c] = "closed" /\ \A d \in Conns : d # c => conn'[d] = conn[d]
      BY <1>1, <1>4 DEF Inv, Typed
    <3>2. ~Pending(c)'
      <4>1. Pending(c)' <=> Pending(c)
        BY <1>4 DEF Pending, poolVars, data
      <4> QED
        BY <1>2, <4>1
    <3>3. c \notin wlist'[l] /\ \A k \in Loops : reading'[k] = IF k = l THEN None ELSE reading[k]
      BY <1>2, <1>4 DEF Inv, Typed, Batch
    <3>4. program' = program /\ on' = on /\ rlist' = rlist /\ wlist' = wlist /\ send_buffer' = send_buffer
      BY <1>4 DEF poolVars, data
    <3> QED
      BY <1>1, <1>2, <2>1, <3>1, <3>2, <3>3, <3>4, HandledInv
  <2>5. Queues'
    <3>1. \A k \in Loops : \A i \in DOMAIN functors[k] : functors[k][i] \in Conns /\ functors[k][i] # c
      BY <1>2 DEF Inv, Typed, Queues
    <3> QED
      BY <1>4, <3>1 DEF Inv, Typed, Queues
  <2> QED
    BY <2>2, <2>3, <2>4, <2>5 DEF Inv
<1> QED
  BY <1>1, <1>3, <1>4 DEF RecvEof

\* on_read: the reply makes the connection pending and watched for output.
LEMMA FinishInv ==
  ASSUME Inv, NEW l \in Loops, NEW c \in Conns, pc[l] = "recv", c = reading[l],
         NEW recvd \in Buf, recvd.text # <<>>, Finish(l, c, recvd),
         received' \in [Conns -> Nat],
         UNCHANGED <<poolVars, functors, rlist, wlist, conn, on, network>>
  PROVE  Inv'
<1>1. c # None /\ c \in inputs[l] /\ c \notin rlist[l]
  BY ReadingIs
<1>2. conn[c] = "open" /\ on[c] = l /\ c \notin outputs[l]
  BY <1>1 DEF Inv, Tables
<1>3. program \in {"reactor", "tcp"} /\ recv_buffer \in [Conns -> Buf] /\ send_buffer \in [Conns -> Buf]
  BY DEF Inv, Typed
<1>4. recvd.text \in Seq(Nat) /\ Len(recvd.text) # 0
  <2>1. recvd.text \in Seq(Nat)
    BY DEF Buf
  <2> QED
    BY <2>1, EmptySeq
<1> DEFINE full == push(send_buffer[c], recvd.text)
<1>5. full \in Buf /\ full.put > 0 /\ full.text # <<>>
  BY <1>3, <1>4, PushFills
<1>6. Taken(recvd) \in Buf
  BY <1>3, TakenEmpties
<1>7. /\ recv_buffer' = [recv_buffer EXCEPT ![c] = Taken(recvd)] /\ send_buffer' = [send_buffer EXCEPT ![c] = full]
      /\ modify(l, c, "WRITE")
      /\ pc' = [pc EXCEPT ![l] = "read"] /\ reading' = [reading EXCEPT ![l] = None]
  BY DEF Finish
<1>8. /\ send_buffer'[c] = full /\ \A d \in Conns : d # c => send_buffer'[d] = send_buffer[d]
      /\ recv_buffer' \in [Conns -> Buf] /\ send_buffer' \in [Conns -> Buf]
  <2> HIDE DEF full
  <2> QED
    BY <1>3, <1>5, <1>6, <1>7
<1>9. /\ TablesTyped' /\ OthersAlone(l, c)
      /\ c \in handlers'[l] /\ c \notin inputs'[l] /\ c \in outputs'[l]
  BY <1>7, ModifiedWrite DEF Inv, Typed, TablesTyped
<1>10. Pending(c)'
  <2> HIDE DEF full
  <2> QED
    BY <1>3, <1>5, <1>8 DEF Pending
<1> HIDE DEF full
<1>11. Typed'
  BY <1>7, <1>8, <1>9 DEF Inv, Typed, TablesTyped, poolVars, network, Steps
<1>12. Starts'
  BY <1>7 DEF Inv, Typed, Starts, poolVars, Steps
<1>13. Tables' /\ Batch' /\ Silent'
  <2>1. c \notin wlist'[l] /\ \A k \in Loops : reading'[k] = IF k = l THEN None ELSE reading[k]
    BY <1>2, <1>7 DEF Inv, Typed, Batch
  <2>2. program' = program /\ on' = on /\ rlist' = rlist /\ wlist' = wlist /\ conn' = conn
    BY DEF poolVars
  <2> QED
    BY <1>1, <1>2, <1>8, <1>9, <1>10, <2>1, <2>2, HandledInv
<1>14. Queues'
  BY DEF Inv, Queues
<1> QED
  BY <1>11, <1>12, <1>13, <1>14 DEF Inv

LEMMA RecvInv ==
  ASSUME Inv, NEW l \in Loops, Recv(l)
  PROVE  Inv'
<1>1. PICK c \in Conns : c = reading[l] /\ pc[l] = "recv" /\ c # None /\ c \in inputs[l] /\ c \notin rlist[l]
  BY ReadingIs DEF Recv
<1> DEFINE n == IF Available(c) < Chunk THEN Available(c) ELSE Chunk
           recvd == push(recv_buffer[c], Number(received[c], n))
<1>2. /\ Available(c) > 0 /\ received' = [received EXCEPT ![c] = @ + n]
      /\ IF n < Chunk THEN Finish(l, c, recvd)
         ELSE /\ recv_buffer' = [recv_buffer EXCEPT ![c] = recvd]
              /\ UNCHANGED <<send_buffer, tables, pc, reading>>
      /\ UNCHANGED <<poolVars, functors, rlist, wlist, conn, on, network, wire>>
  BY <1>1 DEF Recv
<1>3. n \in Nat /\ n > 0
  <2>1. Available(c) \in Int
    BY DEF Inv, Typed, Available
  <2> QED
    BY <1>2, <2>1
<1> HIDE DEF n
<1>4. recvd \in Buf /\ recvd.text # <<>>
  <2>1. recv_buffer[c] \in Buf /\ received[c] \in Nat /\ program \in {"reactor", "tcp"}
    BY DEF Inv, Typed
  <2>2. Number(received[c], n) \in Seq(Nat) /\ Len(Number(received[c], n)) # 0
    <3>1. Number(received[c], n) \in Seq(Nat) /\ Len(Number(received[c], n)) = n
      BY <1>3, <2>1, NumberSeq
    <3> QED
      BY <1>3, <3>1
  <2> QED
    BY <2>1, <2>2, PushFills
<1>5. received' \in [Conns -> Nat]
  BY <1>2, <1>3 DEF Inv, Typed
<1> HIDE DEF recvd
<1>6. CASE n < Chunk
  BY <1>1, <1>2, <1>4, <1>5, <1>6, FinishInv
<1>7. CASE ~(n < Chunk)
  <2>1. /\ recv_buffer' = [recv_buffer EXCEPT ![c] = recvd]
        /\ UNCHANGED <<send_buffer, tables, pc, reading>>
    BY <1>2, <1>7
  <2>2. Typed'
    BY <1>2, <1>4, <1>5, <2>1 DEF Inv, Typed, poolVars, tables, network
  <2>3. Starts'
    BY <1>2, <2>1 DEF Inv, Starts, poolVars
  <2>4. Tables' /\ Batch' /\ Silent' /\ Queues'
    BY <1>2, <2>1, Elsewhere DEF poolVars
  <2> QED
    BY <2>2, <2>3, <2>4 DEF Inv
<1> QED
  BY <1>6, <1>7

LEMMA RecvEndInv ==
  ASSUME Inv, NEW l \in Loops, RecvEnd(l)
  PROVE  Inv'
<1>1. PICK c \in Conns : c = reading[l] /\ pc[l] = "recv"
  BY ReadingIs DEF RecvEnd
<1>2. /\ Started(c) /\ Finish(l, c, recv_buffer[c])
      /\ UNCHANGED <<poolVars, functors, rlist, wlist, conn, on, network, received, wire>>
  BY <1>1 DEF RecvEnd
<1>3. recv_buffer[c] \in Buf /\ recv_buffer[c].text # <<>>
  <2>1. recv_buffer[c] \in Buf
    BY DEF Inv, Typed
  <2>2. recv_buffer[c].put \in Nat /\ recv_buffer[c].put <= Len(recv_buffer[c].text) /\ recv_buffer[c].put > 0
    BY <1>2, <2>1 DEF Buf, Started
  <2> QED
    BY <2>1, <2>2
<1>4. received' \in [Conns -> Nat]
  BY <1>2 DEF Inv, Typed
<1> QED
  BY <1>1, <1>2, <1>3, <1>4, FinishInv

LEMMA WriteInv ==
  ASSUME Inv, NEW l \in Loops, Write(l)
  PROVE  Inv'
<1>1. PICK c \in wlist[l] :
        \/ (c \notin handlers[l] \/ send_buffer[c].text # <<>>) /\ Die(l)
        \/ /\ c \in handlers[l] /\ client[c] # "rst"
           /\ wlist' = [wlist EXCEPT ![l] = @ \ {c}]
           /\ wire' = [wire EXCEPT ![c] = @ \o send_buffer[c].text]
           /\ send_buffer' = [send_buffer EXCEPT ![c] = Taken(@)]
           /\ modify(l, c, "READ")
           /\ UNCHANGED <<poolVars, pc, functors, rlist, reading, conn, on, network,
                          received, recv_buffer>>
  BY DEF Write
<1>2. pc[l] = "write" /\ c \in Conns /\ c \in outputs[l]
  BY DEF Write, Inv, Typed, Batch
<1>3. CASE Die(l)
  BY <1>2, <1>3, DieInv
<1>4. CASE /\ wlist' = [wlist EXCEPT ![l] = @ \ {c}]
           /\ send_buffer' = [send_buffer EXCEPT ![c] = Taken(@)]
           /\ modify(l, c, "READ")
           /\ UNCHANGED <<poolVars, pc, functors, rlist, reading, conn, on, network, received, recv_buffer>>
  <2>1. conn[c] = "open" /\ on[c] = l /\ c \notin inputs[l] /\ reading[l] = None
    BY <1>2 DEF Inv, Tables, Starts
  <2>2. program \in {"reactor", "tcp"} /\ send_buffer \in [Conns -> Buf] /\ send_buffer[c] \in Buf
    BY <1>2 DEF Inv, Typed
  <2>3. /\ Taken(send_buffer[c]) \in Buf
        /\ program = "reactor" => Taken(send_buffer[c]).put = 0
        /\ program = "tcp" => Taken(send_buffer[c]) = Empty
    BY <2>2, TakenEmpties
  <2>4. /\ send_buffer'[c] = Taken(send_buffer[c]) /\ send_buffer' \in [Conns -> Buf]
        /\ \A d \in Conns : d # c => send_buffer'[d] = send_buffer[d]
    BY <1>2, <1>4, <2>2, <2>3
  <2>5. ~Pending(c)'
    <3>1. program' = program
      BY <1>4 DEF poolVars
    <3>2. CASE program = "reactor"
      BY <2>3, <2>4, <3>1, <3>2 DEF Pending
    <3>3. CASE program = "tcp"
      BY <2>3, <2>4, <3>1, <3>3 DEF Pending, Empty
    <3> QED
      BY <2>2, <3>2, <3>3
  <2>6. /\ TablesTyped' /\ OthersAlone(l, c)
        /\ c \in handlers'[l] /\ c \in inputs'[l] /\ c \notin outputs'[l]
    BY <1>2, <1>4, ModifiedRead DEF Inv, Typed, TablesTyped
  <2>7. Typed'
    BY <1>4, <2>4, <2>6 DEF Inv, Typed, TablesTyped, poolVars, network
  <2>8. Starts'
    BY <1>4 DEF Inv, Starts, poolVars
  <2>9. Tables' /\ Batch' /\ Silent'
    <3>1. c \notin wlist'[l] /\ \A k \in Loops : wlist'[k] \subseteq wlist[k]
      BY <1>4 DEF Inv, Typed
    <3>2. c \notin rlist[l]
      BY <2>1 DEF Inv, Batch
    <3>3. program' = program /\ on' = on /\ rlist' = rlist /\ conn' = conn
          /\ \A k \in Loops : reading'[k] = IF k = l THEN None ELSE reading[k]
      BY <1>4, <2>1 DEF poolVars
    <3> QED
      BY <1>2, <2>1, <2>4, <2>5, <2>6, <3>1, <3>2, <3>3, HandledInv
  <2>10. Queues'
    BY <1>4 DEF Inv, Queues
  <2> QED
    BY <2>7, <2>8, <2>9, <2>10 DEF Inv
<1> QED
  BY <1>1, <1>3, <1>4

LEMMA RunFunctorInv ==
  ASSUME Inv, NEW l \in Loops, RunFunctor(l)
  PROVE  Inv'
<1>1. functors[l] # <<>> /\ functors[l] \in Seq(Conns) /\ pc[l] = "drain" /\ reading[l] = None
  BY DEF RunFunctor, Inv, Typed, Starts
<1>2. PICK c \in Conns : c = Head(functors[l]) /\ 1 \in DOMAIN functors[l] /\ c = functors[l][1]
  BY <1>1
<1>3. /\ functors' = [functors EXCEPT ![l] = Tail(@)]
      /\ modify(l, c, "READ") /\ conn' = [conn EXCEPT ![c] = "open"]
      /\ UNCHANGED <<poolVars, pc, batch, on, network, data>>
  BY <1>2 DEF RunFunctor
<1>4. conn[c] = "queued" /\ on[c] = l
  BY <1>2 DEF Inv, Queues
<1>5. c \notin inputs[l] /\ c \notin outputs[l] /\ ~Pending(c)
  BY <1>4 DEF Inv, Tables, Silent
<1>6. /\ TablesTyped' /\ OthersAlone(l, c)
      /\ c \in handlers'[l] /\ c \in inputs'[l] /\ c \notin outputs'[l]
  BY <1>3, ModifiedRead DEF Inv, Typed, TablesTyped
<1>7. /\ functors'[l] = Tail(functors[l]) /\ Tail(functors[l]) \in Seq(Conns)
      /\ \A k \in Loops : k # l => functors'[k] = functors[k]
      /\ functors' \in [Loops -> Seq(Conns)]
  BY <1>1, <1>3 DEF Inv, Typed
<1>8. conn'[c] = "open" /\ \A d \in Conns : d # c => conn'[d] = conn[d]
  BY <1>3 DEF Inv, Typed
<1>9. Typed'
  BY <1>3, <1>6, <1>7 DEF Inv, Typed, TablesTyped, poolVars, batch, network, data
<1>10. Starts'
  <2>1. main = "run"
    BY <1>4 DEF Inv, Starts
  <2> QED
    BY <1>3, <2>1 DEF Inv, Starts, poolVars, batch
<1>11. Tables' /\ Batch' /\ Silent'
  <2>1. ~Pending(c)'
    <3>1. Pending(c)' <=> Pending(c)
      BY <1>3 DEF Pending, poolVars, data
    <3> QED
      BY <1>5, <3>1
  <2>2. c \notin rlist[l] /\ c \notin wlist'[l]
    BY <1>3, <1>5 DEF Inv, Batch, batch
  <2>3. /\ program' = program /\ on' = on /\ rlist' = rlist /\ wlist' = wlist /\ send_buffer' = send_buffer
        /\ \A k \in Loops : reading'[k] = IF k = l THEN None ELSE reading[k]
    BY <1>1, <1>3 DEF poolVars, batch, data
  <2> QED
    BY <1>4, <1>6, <1>8, <2>1, <2>2, <2>3, HandledInv
<1>12. Queues'
  <2>1. ASSUME NEW k \in Loops, NEW i \in DOMAIN functors'[k]
        PROVE  \E j \in DOMAIN functors[k] :
                  /\ functors'[k][i] = functors[k][j] /\ functors[k][j] # c
                  /\ j = IF k = l THEN i + 1 ELSE i
    <3>1. CASE k = l
      <4>1. i \in 1..(Len(functors[l]) - 1) /\ functors'[l][i] = functors[l][i + 1]
            /\ DOMAIN functors[l] = 1..Len(functors[l]) /\ Len(functors[l]) \in Nat
        BY <1>1, <1>7, <2>1, <3>1
      <4>2. i + 1 \in DOMAIN functors[l] /\ i + 1 # 1
        BY <4>1
      <4>3. functors[l][i + 1] # c
        BY <1>2, <4>2 DEF Inv, Queues
      <4> QED
        BY <3>1, <4>1, <4>2, <4>3
    <3>2. CASE k # l
      <4>1. i \in DOMAIN functors[k] /\ functors'[k][i] = functors[k][i]
        BY <1>7, <2>1, <3>2
      <4>2. on[functors[k][i]] = k
        BY <4>1 DEF Inv, Queues
      <4> QED
        BY <1>4, <3>2, <4>1, <4>2
    <3> QED
      BY <3>1, <3>2
  <2>2. ASSUME NEW k \in Loops, NEW i \in DOMAIN functors'[k]
        PROVE  conn'[functors'[k][i]] = "queued" /\ on'[functors'[k][i]] = k
    <3>1. PICK j \in DOMAIN functors[k] : functors'[k][i] = functors[k][j] /\ functors[k][j] # c
      BY <2>1
    <3>2. conn[functors[k][j]] = "queued" /\ on[functors[k][j]] = k /\ functors[k][j] \in Conns
      BY <3>1 DEF Inv, Typed, Queues
    <3> QED
      BY <1>3, <1>8, <3>1, <3>2
  <2>3. ASSUME NEW k \in Loops, NEW i \in DOMAIN functors'[k], NEW m \in DOMAIN functors'[k],
               functors'[k][i] = functors'[k][m]
        PROVE  i = m
    <3>1. PICK j \in DOMAIN functors[k] : functors'[k][i] = functors[k][j] /\ j = IF k = l THEN i + 1 ELSE i
      BY <2>1
    <3>2. PICK n \in DOMAIN functors[k] : functors'[k][m] = functors[k][n] /\ n = IF k = l THEN m + 1 ELSE m
      BY <2>1
    <3>3. j = n
      <4>1. functors[k][j] = functors[k][n]
        BY <2>3, <3>1, <3>2
      <4> QED
        BY <4>1 DEF Inv, Queues
    <3>4. CASE k = l
      <4>1. DOMAIN functors'[l] = 1..(Len(functors[l]) - 1) /\ Len(functors[l]) \in Nat
        BY <1>1, <1>7
      <4>2. i \in Int /\ m \in Int /\ i + 1 = m + 1
        BY <3>1, <3>2, <3>3, <3>4, <4>1
      <4> QED
        BY <4>2
    <3>5. CASE k # l
      BY <3>1, <3>2, <3>3, <3>5
    <3> QED
      BY <3>4, <3>5
  <2> QED
    BY <2>2, <2>3 DEF Queues
<1> QED
  BY <1>9, <1>10, <1>11, <1>12 DEF Inv

LEMMA StepInv == ASSUME Inv, [Next]_vars PROVE Inv'
<1>1. CASE UNCHANGED vars
  <2>1. Typed' /\ Starts'
    BY <1>1 DEF vars, poolVars, tables, batch, network, data, Inv, Typed, Starts
  <2>2. Tables' /\ Batch' /\ Silent' /\ Queues'
    BY <1>1, Elsewhere DEF vars, poolVars, batch, data
  <2> QED
    BY <2>1, <2>2 DEF Inv
<1>2. ASSUME NEW c \in Conns, Client(c) PROVE Inv'
  <2>1. UNCHANGED <<poolVars, pc, tables, functors, batch, conn, on, data>> /\ arrived' \in [Conns -> Nat]
    <3>1. arrived' = arrived \/ arrived' = [arrived EXCEPT ![c] = @ + 1]
      BY <1>2 DEF Client
    <3>2. arrived' \in [Conns -> Nat]
      <4>1. arrived \in [Conns -> Nat]
        BY DEF Inv, Typed
      <4> QED
        BY <3>1, <4>1
    <3> QED
      BY <1>2, <3>2 DEF Client
  <2>2. Typed' /\ Starts'
    BY <2>1 DEF poolVars, tables, batch, data, Inv, Typed, Starts
  <2>3. Tables' /\ Batch' /\ Silent' /\ Queues'
    BY <2>1, Elsewhere DEF poolVars, batch, data
  <2> QED
    BY <2>2, <2>3 DEF Inv
<1>3. ASSUME NEW l \in Loops, RecvFails(l) PROVE Inv'
  BY <1>3, DieInv DEF RecvFails
<1>4. ASSUME NEW l \in Loops, EndReads(l) \/ EndWrites(l) \/ EndDrain(l) PROVE Inv'
  <2>1. PICK next \in {"write", "drain", "select"} :
          pc[l] \in {"read", "write", "drain"} /\ pc' = [pc EXCEPT ![l] = next]
    BY <1>4 DEF EndReads, EndWrites, EndDrain
  <2>2. UNCHANGED <<poolVars, tables, functors, batch, conn, on, network, data>>
    BY <1>4 DEF EndReads, EndWrites, EndDrain
  <2> QED
    BY <2>1, <2>2, MoveInv DEF poolVars, Steps
<1>5. ASSUME NEW t \in Threads, Publish(t) \/ Notify(t) PROVE Inv'
  <2>1. PICK next \in {"notify", "select"} : pc[t] \in {"publish", "notify"} /\ pc' = [pc EXCEPT ![t] = next]
    BY <1>5 DEF Publish, Notify
  <2>2. /\ UNCHANGED <<program, unstarted, loop_service, index, tables, functors, batch, conn, on, network, data>>
        /\ main' = "run" <=> main = "run"
    BY <1>5 DEF Publish, Notify
  <2> QED
    BY <2>1, <2>2, MoveInv DEF Loops, Steps
<1>6. ASSUME NEW l \in Loops, LoopStep(l) PROVE Inv'
  BY <1>3, <1>4, <1>5, <1>6, SelectInv, BeginReadInv, RecvEofInv, RecvInv, RecvEndInv, WriteInv, RunFunctorInv,
     AcceptInv DEF LoopStep
<1> QED
  BY <1>1, <1>2, <1>6, MainInv, RunBaseInv DEF Next, Main

LEMMA InvAlways == Spec => []Inv
BY InitInv, StepInv, PTL DEF Spec

\* run() finds a handler for each descriptor select returned, whatever the
\* handlers before it in the batch have unregistered and modified.
THEOREM BatchIsHandled == Spec => []NoKeyError
<1>1. ASSUME Inv PROVE NoKeyError
  <2>1. ASSUME NEW l \in Loops, NEW c \in rlist[l] \cup wlist[l] PROVE c \in handlers[l]
    <3>1. c \in Conns \cup {Listen} /\ (c \in inputs[l] \/ c \in outputs[l])
      BY <1>1, <2>1 DEF Inv, Typed, Batch
    <3>2. c = Listen => c \notin outputs[l]
      BY <1>1 DEF Inv, Typed
    <3> QED
      BY <1>1, <3>1, <3>2 DEF Inv, Tables
  <2> QED
    BY <2>1 DEF NoKeyError
<1> QED
  BY <1>1, InvAlways, PTL

\* A connection is watched by its own loop only, for output exactly while a
\* reply is pending.
THEOREM WatchedOneWay == Spec => []OneDirection
<1>1. ASSUME Inv PROVE OneDirection
  BY <1>1 DEF Inv, Tables, OneDirection
<1> QED
  BY <1>1, InvAlways, PTL

-----------------------------------------------------------------------------
(* The tcp program's replies.                                               *)

\* What was received, as far as it has come.
Stream(c) == (wire[c] \o send_buffer[c].text) \o recv_buffer[c].text

Echoed ==
    /\ wire \in [Conns -> Seq(Nat)]
    /\ program = "tcp" => \A c \in Conns : Stream(c) = Number(0, received[c])

LEMMA NumbersJoin ==
  ASSUME NEW k \in Nat, NEW n \in Nat
  PROVE  Number(0, k) \o Number(k, n) = Number(0, k + n)
<1> DEFINE a == Number(0, k)
           b == Number(k, n)
           e == Number(0, k + n)
<1>1. /\ a \in Seq(Nat) /\ Len(a) = k /\ \A i \in 1..k : a[i] = 0 + i
      /\ b \in Seq(Nat) /\ Len(b) = n /\ \A i \in 1..n : b[i] = k + i
      /\ e \in Seq(Nat) /\ Len(e) = k + n /\ \A i \in 1..(k + n) : e[i] = 0 + i
  <2>1. 0 \in Nat /\ k + n \in Nat
    OBVIOUS
  <2>2. a \in Seq(Nat) /\ Len(a) = k /\ \A i \in 1..k : a[i] = 0 + i
    BY <2>1, NumberSeq
  <2>3. b \in Seq(Nat) /\ Len(b) = n /\ \A i \in 1..n : b[i] = k + i
    BY NumberSeq
  <2>4. e \in Seq(Nat) /\ Len(e) = k + n /\ \A i \in 1..(k + n) : e[i] = 0 + i
    BY <2>1, NumberSeq
  <2> QED
    BY <2>2, <2>3, <2>4
<1> HIDE DEF a, b, e
<1>2. /\ a \o b \in Seq(Nat) /\ Len(a \o b) = k + n
      /\ \A i \in 1..(k + n) : (a \o b)[i] = IF i <= k THEN a[i] ELSE b[i - k]
  BY <1>1, ConcatProperties
<1>3. ASSUME NEW i \in 1..(k + n) PROVE (a \o b)[i] = e[i]
  <2>1. CASE i <= k
    BY <1>1, <1>2, <2>1
  <2>2. CASE ~(i <= k)
    <3>1. i - k \in 1..n
      BY <2>2
    <3> QED
      BY <1>1, <1>2, <2>2, <3>1
  <2> QED
    BY <2>1, <2>2
<1>4. a \o b = e
  BY <1>1, <1>2, <1>3, SeqEqual
<1> QED
  BY <1>4 DEF a, b, e

\* The bytes in c's buffers and on the wire, as sequences.
LEMMA Parts ==
  ASSUME Inv, Echoed, NEW c \in Conns
  PROVE  \E w, s, r \in Seq(Nat) : w = wire[c] /\ s = send_buffer[c].text /\ r = recv_buffer[c].text
<1>1. wire[c] \in Seq(Nat) /\ send_buffer[c] \in Buf /\ recv_buffer[c] \in Buf
  BY DEF Inv, Typed, Echoed
<1> QED
  BY <1>1 DEF Buf

LEMMA EchoStep ==
  ASSUME Inv, Echoed, [Next]_vars
  PROVE  Echoed'
<1>0. /\ recv_buffer \in [Conns -> Buf] /\ send_buffer \in [Conns -> Buf]
      /\ received \in [Conns -> Nat] /\ wire \in [Conns -> Seq(Nat)]
  BY DEF Inv, Typed, Echoed
<1>1. CASE UNCHANGED <<program, data>>
  BY <1>1 DEF Echoed, Stream, data
<1>2. CASE UNCHANGED vars
  BY <1>1, <1>2 DEF vars, poolVars
<1>3. CASE Main
  BY <1>1, <1>3 DEF Main, StartThread, TestLoop, RunBase
<1>4. ASSUME NEW c \in Conns, Client(c) PROVE Echoed'
  BY <1>1, <1>4 DEF Client, poolVars
<1>5. ASSUME NEW l \in Loops, Die(l) PROVE Echoed'
  BY <1>1, <1>5 DEF Die, poolVars
<1>6. ASSUME NEW l \in Loops, Recv(l) PROVE Echoed'
  <2>1. PICK c \in Conns : c = reading[l]
    BY <1>6, ReadingIs DEF Recv
  <2> DEFINE n == IF Available(c) < Chunk THEN Available(c) ELSE Chunk
             new == Number(received[c], n)
             recvd == push(recv_buffer[c], new)
  <2>2. /\ Available(c) > 0 /\ received' = [received EXCEPT ![c] = @ + n]
        /\ \/ Finish(l, c, recvd)
           \/ recv_buffer' = [recv_buffer EXCEPT ![c] = recvd] /\ send_buffer' = send_buffer
        /\ wire' = wire /\ program' = program
    BY <1>6, <2>1 DEF Recv, poolVars
  <2>3. n \in Nat /\ received[c] \in Nat
    <3>1. Available(c) \in Int
      BY DEF Inv, Typed, Available
    <3> QED
      BY <1>0, <2>2, <3>1
  <2> HIDE DEF n
  <2>4. new \in Seq(Nat)
    BY <2>3, NumberSeq
  <2>5. SUFFICES ASSUME program = "tcp", NEW d \in Conns PROVE Stream(d)' = Number(0, received'[d])
    BY <1>0, <2>2 DEF Echoed
  <2>6. Stream(d) = Number(0, received[d])
    BY <2>5 DEF Echoed
  <2>7. CASE d # c
    <3>1. /\ recv_buffer'[d] = recv_buffer[d] /\ send_buffer'[d] = send_buffer[d]
          /\ received'[d] = received[d] /\ wire'[d] = wire[d]
      BY <1>0, <2>2, <2>7 DEF Finish
    <3> QED
      BY <2>6, <3>1 DEF Stream
  <2>8. CASE d = c
    <3>1. PICK w \in Seq(Nat), s \in Seq(Nat), r \in Seq(Nat) :
            w = wire[c] /\ s = send_buffer[c].text /\ r = recv_buffer[c].text
      BY Parts
    <3>2. received'[c] = received[c] + n /\ wire'[c] = w
      BY <1>0, <2>2, <3>1
    <3>3. recvd.text = r \o new
      BY <2>5, <3>1 DEF push
    <3>4. (w \o s) \o r = Number(0, received[c])
      BY <2>6, <2>8, <3>1 DEF Stream
    <3>5. ((w \o s) \o r) \o new = Number(0, received[c] + n)
      BY <2>3, <3>4, NumbersJoin
    <3> HIDE DEF new, recvd
    <3>6. CASE recv_buffer' = [recv_buffer EXCEPT ![c] = recvd] /\ send_buffer' = send_buffer
      <4>1. Stream(c)' = (w \o s) \o (r \o new)
        BY <1>0, <3>1, <3>2, <3>3, <3>6 DEF Stream
      <4>2. (w \o s) \o (r \o new) = ((w \o s) \o r) \o new
        BY <2>4, SMTT(30)
      <4> QED
        BY <2>8, <3>2, <3>5, <4>1, <4>2
    <3>7. CASE Finish(l, c, recvd)
      <4>1. send_buffer'[c] = push(send_buffer[c], recvd.text) /\ recv_buffer'[c] = Taken(recvd)
        BY <1>0, <3>7 DEF Finish
      <4>2. send_buffer'[c].text = s \o (r \o new) /\ recv_buffer'[c].text = <<>>
        <5>1. push(send_buffer[c], recvd.text).text = send_buffer[c].text \o recvd.text
          BY <2>5 DEF push
        <5>2. Taken(recvd).text = <<>>
          BY <2>5 DEF Taken, Empty
        <5>3. send_buffer'[c].text = send_buffer[c].text \o recvd.text
          BY <4>1, <5>1
        <5>4. send_buffer'[c].text = s \o (r \o new)
          BY <3>1, <3>3, <5>3
        <5> QED
          BY <4>1, <5>2, <5>4
      <4>3. Stream(c)' = (w \o (s \o (r \o new))) \o <<>>
        BY <3>2, <4>2 DEF Stream
      <4>4. (w \o (s \o (r \o new))) \o <<>> = ((w \o s) \o r) \o new
        <5>1. PICK m \in Seq(Nat) : m = new
          BY <2>4
        <5>2. (w \o (s \o (r \o m))) \o <<>> = ((w \o s) \o r) \o m
          BY SMTT(30)
        <5> QED
          BY <5>1, <5>2, Zenon
      <4> QED
        BY <2>8, <3>2, <3>5, <4>3, <4>4
    <3> QED
      BY <2>2, <3>6, <3>7
  <2> QED
    BY <2>7, <2>8
<1>7. ASSUME NEW l \in Loops, RecvEnd(l) PROVE Echoed'
  <2>1. PICK c \in Conns : c = reading[l]
    BY <1>7, ReadingIs DEF RecvEnd
  <2>2. Finish(l, c, recv_buffer[c]) /\ received' = received /\ wire' = wire /\ program' = program
    BY <1>7, <2>1 DEF RecvEnd, poolVars
  <2>3. SUFFICES ASSUME program = "tcp", NEW d \in Conns PROVE Stream(d)' = Number(0, received'[d])
    BY <1>0, <2>2 DEF Echoed
  <2>4. Stream(d) = Number(0, received[d])
    BY <2>3 DEF Echoed
  <2>5. CASE d # c
    <3>1. recv_buffer'[d] = recv_buffer[d] /\ send_buffer'[d] = send_buffer[d]
      BY <1>0, <2>2, <2>5 DEF Finish
    <3> QED
      BY <2>2, <2>4, <3>1 DEF Stream
  <2>6. CASE d = c
    <3>1. PICK w \in Seq(Nat), s \in Seq(Nat), r \in Seq(Nat) :
            w = wire[c] /\ s = send_buffer[c].text /\ r = recv_buffer[c].text
      BY Parts
    <3>2. send_buffer'[c] = push(send_buffer[c], r) /\ recv_buffer'[c] = Taken(recv_buffer[c])
      BY <1>0, <2>2, <3>1 DEF Finish
    <3>3. send_buffer'[c].text = s \o r /\ recv_buffer'[c].text = <<>>
      <4>1. push(send_buffer[c], r).text = send_buffer[c].text \o r
        BY <2>3 DEF push
      <4>2. Taken(recv_buffer[c]).text = <<>>
        BY <2>3 DEF Taken, Empty
      <4> QED
        BY <3>1, <3>2, <4>1, <4>2
    <3>4. Stream(c)' = (w \o (s \o r)) \o <<>>
      BY <2>2, <3>1, <3>3 DEF Stream
    <3>5. (w \o (s \o r)) \o <<>> = (w \o s) \o r
      OBVIOUS
    <3>6. (w \o s) \o r = Number(0, received[c])
      BY <2>4, <2>6, <3>1 DEF Stream
    <3> QED
      BY <2>2, <2>6, <3>4, <3>5, <3>6
  <2> QED
    BY <2>5, <2>6
<1>8. ASSUME NEW l \in Loops, Write(l) PROVE Echoed'
  <2>1. PICK c \in Conns :
          \/ Die(l)
          \/ /\ wire' = [wire EXCEPT ![c] = @ \o send_buffer[c].text]
             /\ send_buffer' = [send_buffer EXCEPT ![c] = Taken(@)]
             /\ UNCHANGED <<poolVars, received, recv_buffer>>
    <3>1. wlist[l] \subseteq Conns
      BY DEF Inv, Typed
    <3> QED
      BY <1>8, <3>1 DEF Write
  <2>2. CASE Die(l)
    BY <1>5, <2>2
  <2>3. CASE /\ wire' = [wire EXCEPT ![c] = @ \o send_buffer[c].text]
             /\ send_buffer' = [send_buffer EXCEPT ![c] = Taken(@)]
             /\ UNCHANGED <<poolVars, received, recv_buffer>>
    <3>1. PICK w \in Seq(Nat), s \in Seq(Nat), r \in Seq(Nat) :
            w = wire[c] /\ s = send_buffer[c].text /\ r = recv_buffer[c].text
      BY Parts
    <3>2. wire'[c] = w \o s /\ wire' \in [Conns -> Seq(Nat)] /\ program' = program
          /\ \A d \in Conns : d # c => wire'[d] = wire[d]
      BY <1>0, <2>3, <3>1 DEF poolVars
    <3>3. SUFFICES ASSUME program = "tcp", NEW d \in Conns PROVE Stream(d)' = Number(0, received'[d])
      BY <3>2 DEF Echoed
    <3>4. Stream(d) = Number(0, received[d]) /\ received' = received /\ recv_buffer' = recv_buffer
      BY <2>3, <3>3 DEF Echoed
    <3>5. CASE d # c
      <4>1. send_buffer'[d] = send_buffer[d]
        BY <1>0, <2>3, <3>5
      <4> QED
        BY <3>2, <3>4, <3>5, <4>1 DEF Stream
    <3>6. CASE d = c
      <4>1. send_buffer'[c].text = <<>>
        BY <1>0, <2>3, <3>3 DEF Taken, Empty
      <4>2. Stream(c)' = ((w \o s) \o <<>>) \o r
        BY <3>1, <3>2, <3>4, <4>1 DEF Stream
      <4>3. ((w \o s) \o <<>>) \o r = (w \o s) \o r
        OBVIOUS
      <4>4. (w \o s) \o r = Number(0, received[c])
        BY <3>1, <3>4, <3>6 DEF Stream
      <4> QED
        BY <3>4, <3>6, <4>2, <4>3, <4>4
    <3> QED
      BY <3>5, <3>6
  <2> QED
    BY <2>1, <2>2, <2>3
<1>9. ASSUME NEW l \in Loops,
             \/ Select(l) \/ BeginRead(l) \/ RecvFails(l) \/ RecvEof(l) \/ EndReads(l) \/ EndWrites(l)
             \/ RunFunctor(l) \/ EndDrain(l) \/ Accept \/ (l \in Threads /\ (Publish(l) \/ Notify(l)))
      PROVE  Echoed'
  <2>1. UNCHANGED <<program, data>>
    BY <1>9 DEF Select, BeginRead, RecvFails, RecvEof, EndReads, EndWrites, RunFunctor, EndDrain, Accept,
                Publish, Notify, Die, poolVars
  <2> QED
    BY <1>1, <2>1
<1>10. ASSUME NEW l \in Loops, LoopStep(l) PROVE Echoed'
  BY <1>6, <1>7, <1>8, <1>9, <1>10 DEF LoopStep
<1> QED
  BY <1>2, <1>3, <1>4, <1>10 DEF Next

\* In the tcp program a client gets back what it sent, each byte once and in
\* order, however the bytes are split over recv() calls and turns of the loop.
THEOREM EchoInOrder == Spec => []EchoIsFifo
<1>1. ASSUME Init PROVE Echoed
  <2>1. ASSUME NEW c \in Conns PROVE Stream(c) = Number(0, received[c])
    <3>1. wire[c] = <<>> /\ send_buffer[c].text = <<>> /\ recv_buffer[c].text = <<>> /\ received[c] = 0
      BY <1>1 DEF Init, Empty
    <3>2. Number(0, 0) \in Seq(Nat) /\ Len(Number(0, 0)) = 0
      BY NumberSeq
    <3>3. Number(0, 0) = <<>>
      BY <3>2
    <3>4. (<<>> \o <<>>) \o <<>> = <<>>
      OBVIOUS
    <3> QED
      BY <3>1, <3>3, <3>4 DEF Stream
  <2>2. wire \in [Conns -> Seq(Nat)]
    BY <1>1 DEF Init
  <2> QED
    BY <2>1, <2>2 DEF Echoed
<1>2. ASSUME Inv, Echoed PROVE EchoIsFifo
  <2>1. SUFFICES ASSUME program = "tcp", NEW c \in Conns
                 PROVE  wire[c] = Number(0, Len(wire[c])) /\ Len(wire[c]) <= received[c]
    BY DEF EchoIsFifo
  <2>2. PICK w \in Seq(Nat), s \in Seq(Nat), r \in Seq(Nat) :
          w = wire[c] /\ s = send_buffer[c].text /\ r = recv_buffer[c].text
    BY <1>2, Parts
  <2>3. (w \o s) \o r = Number(0, received[c]) /\ received[c] \in Nat
    BY <1>2, <2>1, <2>2 DEF Inv, Typed, Echoed, Stream
  <2>4. PICK q \in Seq(Nat) : q = s \o r
    BY ConcatProperties
  <2>5. (w \o s) \o r = w \o q
    <3>1. (w \o s) \o r = w \o (s \o r)
      OBVIOUS
    <3> QED
      BY <2>4, <3>1
  <2>6. /\ Len(w) \in Nat /\ Len(q) \in Nat /\ Len(w \o q) = Len(w) + Len(q)
        /\ \A i \in 1..(Len(w) + Len(q)) : (w \o q)[i] = IF i <= Len(w) THEN w[i] ELSE q[i - Len(w)]
    BY ConcatProperties, LenProperties
  <2>7. /\ Len(w \o q) = received[c]
        /\ \A i \in 1..received[c] : (w \o q)[i] = 0 + i
    <3>1. /\ Len(Number(0, received[c])) = received[c]
          /\ \A i \in 1..received[c] : Number(0, received[c])[i] = 0 + i
      BY <2>3, NumberSeq
    <3> QED
      BY <2>3, <2>5, <3>1
  <2>8. Len(w) <= received[c]
    BY <2>3, <2>6, <2>7
  <2>9. \A i \in 1..Len(w) : w[i] = 0 + i
    BY <2>3, <2>6, <2>7
  <2>10. /\ Number(0, Len(w)) \in Seq(Nat) /\ Len(Number(0, Len(w))) = Len(w)
         /\ \A i \in 1..Len(w) : Number(0, Len(w))[i] = 0 + i
    BY <2>6, NumberSeq
  <2>11. w = Number(0, Len(w))
    BY <2>9, <2>10, SeqEqual
  <2> QED
    BY <2>2, <2>8, <2>11
<1> QED
  BY <1>1, <1>2, InitInv, StepInv, EchoStep, PTL DEF Spec

-----------------------------------------------------------------------------
(* The pool.                                                                *)

Runs(t) == pc[t] \notin {"none", "publish"}

\* The main thread starts the threads one after the other, and nothing dies
\* before it runs the base loop.
Filling ==
    /\ main \in {"start", "get_loop", "waiting", "run"}
    /\ main # "run" => index = 0 /\ \A l \in Loops : pc[l] # "dead"
    /\ main \in {"start", "run"} => \A t \in Threads : ~Starting(t)
    /\ main \in {"get_loop", "waiting"} => \E t \in Threads : Starting(t)
    /\ \A t, u \in Threads : Starting(t) /\ Starting(u) => t = u

\* A thread that has set its __loop is on its way to run it, and none other is
\* in the pool; the one get_loop waits for has its notify before it.
Publishing ==
    /\ published \in [Threads -> BOOLEAN]
    /\ \A t \in Threads : published[t] <=> Runs(t)
    /\ \A i \in 1..Len(loop_service) : Runs(loop_service[i])
    /\ main = "waiting" => \A t \in Threads : Starting(t) => pc[t] \in {"publish", "notify"}

PoolInv == Inv /\ Filling /\ Publishing /\ (index > 0 => Len(loop_service) > 0)

\* A step of a running loop other than Accept.
LoopWork(l) ==
    \/ Select(l) \/ BeginRead(l) \/ RecvFails(l) \/ RecvEof(l) \/ Recv(l) \/ RecvEnd(l)
    \/ EndReads(l) \/ Write(l) \/ EndWrites(l) \/ RunFunctor(l) \/ EndDrain(l)

\* An exception leaves a handler that some open connection has called.
LEMMA DeathIsServing ==
  ASSUME Inv, NEW l \in Loops, LoopWork(l), pc'[l] = "dead"
  PROVE  main = "run"
<1>1. \A c \in Conns : c \in inputs[l] \/ c \in outputs[l] => conn[c] = "open"
  BY DEF Inv, Tables
<1>2. \A c \in Conns : conn[c] = "open" => main = "run"
  BY DEF Inv, Starts
<1>3. pc \in [Loops -> Steps]
  BY DEF Inv, Typed
<1>4. CASE BeginRead(l)
  <2>1. PICK c \in rlist[l] \ {Listen} : TRUE
    BY <1>4 DEF BeginRead
  <2>2. c \in Conns /\ c \in inputs[l]
    BY <2>1 DEF Inv, Typed, Batch
  <2> QED
    BY <1>1, <1>2, <2>2
<1>5. CASE RecvFails(l) \/ RecvEof(l) \/ Recv(l) \/ RecvEnd(l)
  <2>1. pc[l] = "recv"
    BY <1>5 DEF RecvFails, RecvEof, Recv, RecvEnd
  <2>2. reading[l] \in Conns /\ reading[l] \in inputs[l]
    BY <2>1, ReadingIs
  <2> QED
    BY <1>1, <1>2, <2>2
<1>6. CASE Write(l)
  <2>1. PICK c \in wlist[l] : TRUE
    BY <1>6 DEF Write
  <2>2. c \in Conns /\ c \in outputs[l]
    BY <2>1 DEF Inv, Typed, Batch
  <2> QED
    BY <1>1, <1>2, <2>2
<1>7. CASE Select(l) \/ EndReads(l) \/ EndWrites(l) \/ EndDrain(l)
  <2>1. pc' = [pc EXCEPT ![l] = "read"] \/ pc' = [pc EXCEPT ![l] = "write"]
        \/ pc' = [pc EXCEPT ![l] = "drain"] \/ pc' = [pc EXCEPT ![l] = "select"]
    BY <1>7 DEF Select, EndReads, EndWrites, EndDrain
  <2> QED
    BY <1>3, <2>1
<1>8. CASE RunFunctor(l)
  BY <1>8 DEF RunFunctor
<1> QED
  BY <1>4, <1>5, <1>6, <1>7, <1>8 DEF LoopWork

\* What a loop does is no matter of the pool, but that it may die of it.
LEMMA WorkIsLocal ==
  ASSUME Inv, NEW l \in Loops, LoopWork(l)
  PROVE  /\ UNCHANGED poolVars
         /\ \A k \in Loops : k # l => pc'[k] = pc[k]
         /\ pc[l] \notin {"none", "publish", "notify", "dead"}
         /\ pc'[l] \notin {"none", "publish", "notify"}
<1>1. pc \in [Loops -> Steps]
  BY DEF Inv, Typed
<1>2. UNCHANGED poolVars
  BY DEF LoopWork, Select, BeginRead, RecvFails, RecvEof, Recv, RecvEnd, EndReads, Write, EndWrites,
         RunFunctor, EndDrain, Die
<1>3. pc[l] \in {"select", "read", "recv", "write", "drain"}
  BY DEF LoopWork, Select, BeginRead, RecvFails, RecvEof, Recv, RecvEnd, EndReads, Write, EndWrites,
         RunFunctor, EndDrain
<1>4. \E next \in {"select", "read", "recv", "write", "drain", "dead"} :
        pc' = [pc EXCEPT ![l] = next] \/ pc' = pc
  <2>1. CASE Select(l) \/ EndReads(l) \/ EndWrites(l) \/ EndDrain(l) \/ RunFunctor(l)
    BY <2>1 DEF Select, EndReads, EndWrites, RunFunctor, EndDrain
  <2>2. CASE BeginRead(l) \/ RecvFails(l) \/ RecvEof(l)
    BY <2>2 DEF BeginRead, RecvFails, RecvEof, Die
  <2>3. CASE Recv(l) \/ RecvEnd(l) \/ Write(l)
    BY <2>3 DEF Recv, RecvEnd, Write, Finish, Die
  <2> QED
    BY <2>1, <2>2, <2>3 DEF LoopWork
<1> QED
  BY <1>1, <1>2, <1>3, <1>4

LEMMA PoolInvInit == ASSUME Init PROVE PoolInv
<1>1. \A l \in Loops : pc[l] = "none"
  BY DEF Init
<1>2. loop_service = <<>> /\ Len(<<>>) = 0
  BY DEF Init
<1>3. \A t \in Threads : ~Starting(t) /\ ~Runs(t) /\ ~published[t]
  BY <1>1 DEF Init, Loops, Starting, Runs
<1>4. Filling
  BY <1>1, <1>3 DEF Init, Filling
<1>5. Publishing
  BY <1>2, <1>3 DEF Init, Publishing
<1> QED
  BY <1>4, <1>5, InitInv DEF PoolInv, Init

\* Steps that do not touch the pool, but for the loop of a thread that runs.
LEMMA PoolElsewhere ==
  ASSUME PoolInv, UNCHANGED poolVars, NEW l \in Loops, \A k \in Loops : k # l => pc'[k] = pc[k],
         \/ pc'[l] = pc[l]
         \/ /\ pc[l] \notin {"none", "publish", "notify"} /\ pc'[l] \notin {"none", "publish", "notify"}
            /\ pc'[l] = "dead" => main = "run"
  PROVE  Filling' /\ Publishing' /\ (index' > 0 => Len(loop_service') > 0)
<1>1. UNCHANGED <<main, loop_service, index, published>>
  BY DEF poolVars
<1>2. \A t \in Threads : t \in Loops
  BY DEF Loops
<1>3. \A t \in Threads : (Starting(t)' <=> Starting(t)) /\ (Runs(t)' <=> Runs(t))
  BY <1>1, <1>2 DEF Starting, Runs
<1>4. Filling'
  BY <1>1, <1>3 DEF PoolInv, Filling
<1>5. Publishing'
  <2>1. \A i \in 1..Len(loop_service) : Runs(loop_service[i])'
    <3>1. \A i \in 1..Len(loop_service) : loop_service[i] \in Threads
      BY ElementOfSeq DEF PoolInv, Inv, Typed
    <3>2. \A i \in 1..Len(loop_service) : Runs(loop_service[i])
      BY DEF PoolInv, Publishing
    <3> QED
      BY <1>1, <1>3, <3>1, <3>2 DEF Runs
  <2>2. main = "waiting" => \A t \in Threads : Starting(t)' => pc'[t] \in {"publish", "notify"}
    BY <1>2, <1>3 DEF PoolInv, Publishing
  <2> QED
    BY <1>1, <1>3, <2>1, <2>2 DEF PoolInv, Publishing
<1> QED
  BY <1>1, <1>4, <1>5 DEF PoolInv

LEMMA StartThreadPool ==
  ASSUME PoolInv, StartThread
  PROVE  /\ Filling' /\ Publishing' /\ (index' > 0 => Len(loop_service') > 0)
         /\ \E t \in Threads : /\ pc[t] = "none" /\ pc'[t] = "publish"
                               /\ \A k \in Loops : k # t => pc'[k] = pc[k]
<1>1. PICK t \in unstarted : pc' = [pc EXCEPT ![t] = "publish"]
  BY DEF StartThread
<1>2. main = "start" /\ main' = "get_loop" /\ UNCHANGED <<loop_service, index, published>>
  BY DEF StartThread
<1>3. t \in Threads /\ t \in Loops /\ pc[t] = "none" /\ pc'[t] = "publish"
      /\ \A k \in Loops : k # t => pc'[k] = pc[k]
  BY <1>1 DEF PoolInv, Inv, Typed, Starts, Loops
<1>4. \A i \in 1..Len(loop_service) : loop_service[i] \in Threads /\ loop_service[i] # t
  BY <1>3, ElementOfSeq DEF PoolInv, Inv, Typed, Publishing, Runs
<1>5. \A u \in Threads : ~Starting(u)
  BY <1>2 DEF PoolInv, Filling
<1>6. \A u \in Threads : u \in Loops /\ (Starting(u)' <=> u = t) /\ (Runs(u)' <=> Runs(u))
  BY <1>2, <1>3, <1>4, <1>5 DEF Starting, Runs, Loops
<1>7. Filling'
  <2>1. \A l \in Loops : pc'[l] # "dead"
    BY <1>2, <1>3 DEF PoolInv, Filling
  <2> QED
    BY <1>2, <1>3, <1>6, <2>1 DEF PoolInv, Filling
<1>8. Publishing'
  BY <1>2, <1>4, <1>6 DEF PoolInv, Publishing
<1> QED
  BY <1>2, <1>3, <1>7, <1>8 DEF PoolInv

LEMMA TestLoopPool ==
  ASSUME PoolInv, TestLoop
  PROVE  /\ Filling' /\ Publishing' /\ (index' > 0 => Len(loop_service') > 0)
         /\ UNCHANGED <<pc, index>> /\ main = "get_loop" /\ main' \in {"start", "waiting"}
         /\ \/ loop_service' = loop_service
            \/ \E t \in Threads : Starting(t) /\ Runs(t) /\ loop_service' = Append(loop_service, t)
<1>1. PICK t \in Threads :
        /\ Starting(t)
        /\ main' = IF published[t] THEN "start" ELSE "waiting"
        /\ loop_service' = IF published[t] THEN Append(loop_service, t) ELSE loop_service
  BY DEF TestLoop
<1>2. main = "get_loop" /\ UNCHANGED <<index, published, pc>>
  BY DEF TestLoop
<1>3. loop_service \in Seq(Threads) /\ Len(loop_service) \in Nat
  BY DEF PoolInv, Inv, Typed
<1>4. published[t] <=> Runs(t)
  BY DEF PoolInv, Publishing
<1>5. CASE published[t]
  <2>1. main' = "start" /\ loop_service' = Append(loop_service, t)
    BY <1>1, <1>5
  <2>2. /\ Len(loop_service') = Len(loop_service) + 1
        /\ \A i \in 1..Len(loop_service) : loop_service'[i] = loop_service[i]
        /\ loop_service'[Len(loop_service) + 1] = t
    BY <1>3, <2>1
  <2>3. ASSUME NEW u \in Threads PROVE ~Starting(u)'
    <3>1. CASE u = t
      BY <1>3, <2>2, <3>1 DEF Starting
    <3>2. CASE u # t
      <4>1. ~Starting(u)
        BY <1>1, <3>2 DEF PoolInv, Filling
      <4> QED
        BY <1>2, <1>3, <2>2, <4>1 DEF Starting
    <3> QED
      BY <3>1, <3>2
  <2>4. Filling'
    BY <1>2, <2>1, <2>3 DEF PoolInv, Filling
  <2>5. Publishing'
    <3>1. \A u \in Threads : Runs(u)' <=> Runs(u)
      BY <1>2 DEF Runs
    <3>2. \A i \in 1..Len(loop_service') : loop_service'[i] \in Threads /\ Runs(loop_service'[i])
      <4>1. \A i \in 1..Len(loop_service) : loop_service[i] \in Threads /\ Runs(loop_service[i])
        BY <1>3, ElementOfSeq DEF PoolInv, Publishing
      <4> QED
        BY <1>3, <1>4, <1>5, <2>2, <4>1
    <3>3. (\A i \in 1..Len(loop_service) : Runs(loop_service[i]))'
      BY <1>2, <3>2 DEF Runs
    <3> QED
      BY <1>2, <2>1, <3>1, <3>3 DEF PoolInv, Publishing
  <2> QED
    BY <1>1, <1>2, <1>3, <1>4, <1>5, <2>1, <2>2, <2>4, <2>5
<1>6. CASE ~published[t]
  <2>1. main' = "waiting" /\ loop_service' = loop_service
    BY <1>1, <1>6
  <2>2. \A u \in Threads : (Starting(u)' <=> Starting(u)) /\ (Runs(u)' <=> Runs(u))
    BY <1>2, <2>1 DEF Starting, Runs
  <2>3. (\A i \in 1..Len(loop_service) : Runs(loop_service[i]))'
    BY <1>2, <2>1 DEF Runs, PoolInv, Publishing
  <2>4. \A u \in Threads : Starting(u) => u = t /\ pc[u] \in {"publish", "notify"}
    <3>1. pc[t] = "publish"
      BY <1>1, <1>4, <1>6 DEF Starting, Runs
    <3> QED
      BY <1>1, <3>1 DEF PoolInv, Filling
  <2>5. Filling'
    BY <1>1, <1>2, <2>1, <2>2 DEF PoolInv, Filling
  <2>6. Publishing'
    BY <1>2, <2>1, <2>2, <2>3, <2>4 DEF PoolInv, Publishing
  <2> QED
    BY <1>2, <2>1, <2>5, <2>6 DEF PoolInv
<1> QED
  BY <1>5, <1>6

LEMMA RunBasePool ==
  ASSUME PoolInv, RunBase
  PROVE  Filling' /\ Publishing' /\ (index' > 0 => Len(loop_service') > 0)
<1>1. /\ main = "start" /\ main' = "run" /\ pc' = [pc EXCEPT ![Base] = "select"]
      /\ UNCHANGED <<loop_service, index, published>>
  BY DEF RunBase
<1>2. \A t \in Threads : pc'[t] = pc[t]
  BY <1>1 DEF PoolInv, Inv, Typed, Loops
<1>3. \A t \in Threads : (Starting(t)' <=> Starting(t)) /\ (Runs(t)' <=> Runs(t))
  BY <1>1, <1>2 DEF Starting, Runs
<1>4. \A i \in 1..Len(loop_service) : loop_service[i] \in Threads
  BY ElementOfSeq DEF PoolInv, Inv, Typed
<1>5. Filling'
  BY <1>1, <1>3 DEF PoolInv, Filling
<1>6. Publishing'
  BY <1>1, <1>3, <1>4 DEF PoolInv, Publishing
<1> QED
  BY <1>1, <1>5, <1>6 DEF PoolInv

LEMMA PublishPool ==
  ASSUME PoolInv, NEW t \in Threads, Publish(t)
  PROVE  Filling' /\ Publishing' /\ (index' > 0 => Len(loop_service') > 0)
<1>1. /\ pc[t] = "publish" /\ pc' = [pc EXCEPT ![t] = "notify"]
      /\ published' = [published EXCEPT ![t] = TRUE] /\ UNCHANGED <<main, loop_service, index>>
  BY DEF Publish
<1>2. pc \in [Loops -> Steps] /\ t \in Loops /\ Threads \subseteq Loops
  BY DEF PoolInv, Inv, Typed, Loops
<1>3. pc'[t] = "notify" /\ \A k \in Loops : k # t => pc'[k] = pc[k]
  BY <1>1, <1>2
<1>4. \A u \in Threads : (Starting(u)' <=> Starting(u)) /\ (Runs(u)' <=> Runs(u) \/ u = t)
  BY <1>1, <1>2, <1>3 DEF Starting, Runs
<1>5. \A i \in 1..Len(loop_service) : loop_service[i] \in Threads
  BY ElementOfSeq DEF PoolInv, Inv, Typed
<1>6. Filling'
  BY <1>1, <1>3, <1>4 DEF PoolInv, Filling
<1>7. Publishing'
  <2>1. published' \in [Threads -> BOOLEAN] /\ \A u \in Threads : published'[u] <=> Runs(u)'
    BY <1>1, <1>4 DEF PoolInv, Publishing
  <2>2. (\A i \in 1..Len(loop_service) : Runs(loop_service[i]))'
    <3>1. \A i \in 1..Len(loop_service) : Runs(loop_service[i])
      BY DEF PoolInv, Publishing
    <3> QED
      BY <1>1, <1>4, <1>5, <3>1 DEF Runs
  <2>3. main = "waiting" => \A u \in Threads : Starting(u)' => pc'[u] \in {"publish", "notify"}
    BY <1>2, <1>3, <1>4 DEF PoolInv, Publishing
  <2> QED
    BY <1>1, <2>1, <2>2, <2>3 DEF Publishing
<1> QED
  BY <1>1, <1>6, <1>7 DEF PoolInv

LEMMA NotifyPool ==
  ASSUME PoolInv, NEW t \in Threads, Notify(t)
  PROVE  /\ Filling' /\ Publishing' /\ (index' > 0 => Len(loop_service') > 0)
         /\ main' = main \/ (main = "waiting" /\ main' = "get_loop")
         /\ UNCHANGED <<loop_service, index>>
         /\ pc[t] = "notify" /\ pc'[t] = "select" /\ \A k \in Loops : k # t => pc'[k] = pc[k]
<1>1. /\ pc[t] = "notify" /\ pc' = [pc EXCEPT ![t] = "select"]
      /\ main' = IF main = "waiting" /\ Starting(t) THEN "get_loop" ELSE main
      /\ UNCHANGED <<published, loop_service, index>>
  BY DEF Notify
<1>2. pc \in [Loops -> Steps] /\ t \in Loops /\ Threads \subseteq Loops
  BY DEF PoolInv, Inv, Typed, Loops
<1>3. pc'[t] = "select" /\ \A k \in Loops : k # t => pc'[k] = pc[k]
  BY <1>1, <1>2
<1>4. \A u \in Threads : (Starting(u)' <=> Starting(u)) /\ (Runs(u)' <=> Runs(u))
  BY <1>1, <1>2, <1>3 DEF Starting, Runs
<1>5. \A i \in 1..Len(loop_service) : loop_service[i] \in Threads
  BY ElementOfSeq DEF PoolInv, Inv, Typed
<1>6. Filling'
  BY <1>1, <1>3, <1>4 DEF PoolInv, Filling
<1>7. Publishing'
  <2>1. ASSUME main' = "waiting", NEW u \in Threads, Starting(u)' PROVE pc'[u] \in {"publish", "notify"}
    <3>1. main = "waiting" /\ ~Starting(t)
      BY <1>1, <2>1
    <3>2. u # t /\ Starting(u)
      BY <1>4, <2>1, <3>1
    <3> QED
      BY <1>2, <1>3, <3>1, <3>2 DEF PoolInv, Publishing
  <2>2. (\A i \in 1..Len(loop_service) : Runs(loop_service[i]))'
    <3>1. \A i \in 1..Len(loop_service) : Runs(loop_service[i])
      BY DEF PoolInv, Publishing
    <3> QED
      BY <1>1, <1>4, <1>5, <3>1 DEF Runs
  <2> QED
    BY <1>1, <1>4, <2>1, <2>2 DEF PoolInv, Publishing
<1> QED
  BY <1>1, <1>3, <1>6, <1>7 DEF PoolInv

LEMMA AcceptPool ==
  ASSUME PoolInv, Accept
  PROVE  /\ Filling' /\ Publishing' /\ (index' > 0 => Len(loop_service') > 0)
         /\ main = "run" /\ UNCHANGED <<main, loop_service, pc>>
         /\ index' = IF Len(loop_service) = 0 THEN index ELSE index + 1
<1>1. UNCHANGED <<main, loop_service, pc, published>> /\ pc[Base] = "read" /\ Base \in Loops
  BY DEF Accept, Loops
<1>2. index' = IF Len(loop_service) = 0 THEN index ELSE index + 1
  BY DEF Accept
<1>3. main = "run"
  BY <1>1 DEF PoolInv, Inv, Starts
<1>4. Filling'
  BY <1>1, <1>3 DEF PoolInv, Filling, Starting
<1>5. Publishing'
  BY <1>1, <1>3 DEF PoolInv, Publishing, Starting, Runs
<1>6. loop_service \in Seq(Threads) /\ Len(loop_service) \in Nat
  BY DEF PoolInv, Inv, Typed
<1> QED
  BY <1>1, <1>2, <1>3, <1>4, <1>5, <1>6 DEF PoolInv

LEMMA PoolInvStep == ASSUME PoolInv, [Next]_vars PROVE PoolInv'
<1>0. Inv' /\ Base \in Loops
  BY StepInv DEF PoolInv, Loops
<1>1. CASE UNCHANGED vars
  BY <1>0, <1>1, PoolElsewhere DEF vars, PoolInv
<1>2. ASSUME NEW c \in Conns, Client(c) PROVE PoolInv'
  BY <1>0, <1>2, PoolElsewhere DEF Client, PoolInv
<1>3. ASSUME NEW l \in Loops, LoopWork(l) PROVE PoolInv'
  BY <1>0, <1>3, PoolElsewhere, WorkIsLocal, DeathIsServing DEF PoolInv
<1>4. CASE Main
  BY <1>0, <1>4, StartThreadPool, TestLoopPool, RunBasePool DEF Main, PoolInv
<1>5. ASSUME NEW l \in Loops, LoopStep(l) PROVE PoolInv'
  BY <1>0, <1>3, <1>5, AcceptPool, PublishPool, NotifyPool DEF LoopStep, LoopWork, PoolInv
<1> QED
  BY <1>1, <1>2, <1>4, <1>5 DEF Next

LEMMA PoolInvAlways == Spec => []PoolInv
BY PoolInvInit, PoolInvStep, PTL DEF Spec

\* get_loop tests __loop and waits in one step, so the thread it waits for has
\* always its notify before it: the wakeup cannot be lost.
NoLostWakeup ==
    main = "waiting" => \E t \in Threads : Starting(t) /\ pc[t] \in {"publish", "notify"}

THEOREM WaitIsNotified == Spec => []NoLostWakeup
<1>1. ASSUME PoolInv PROVE NoLostWakeup
  BY <1>1 DEF PoolInv, Filling, Publishing, NoLostWakeup
<1> QED
  BY <1>1, PoolInvAlways, PTL

\* What a step of one thread does to the threads as users of the pool see them.
LEMMA LifeMoves ==
  ASSUME PoolInv, NEW t \in Loops, \A k \in Loops : k # t => pc'[k] = pc[k]
  PROVE  /\ t \in Threads => Lives' = [Lives EXCEPT ![t] = Life(t)']
         /\ t = Base \/ Life(t)' = Life(t) => Lives' = Lives
<1>1. \A u \in Threads : u # t => Life(u)' = Life(u)
  BY DEF Life, Loops
<1>2. Lives' = [u \in Threads |-> Life(u)']
  BY DEF Lives
<1>3. Base \notin Threads
  OBVIOUS
<1> QED
  BY <1>1, <1>2, <1>3 DEF Lives

Serving == IF main = "run" THEN "serving" ELSE "filling"

LEMMA PoolStutters ==
  ASSUME UNCHANGED <<Serving, Lives, loop_service, index>>
  PROVE  UNCHANGED Promise!vars
<1>1. Last' = Last
  BY DEF Last
<1> QED
  BY <1>1 DEF Promise!vars, Serving

\* Outside the pool and not yet started, or the one that get_loop waits for.
LEMMA Outside ==
  ASSUME PoolInv, NEW t \in Threads, t \notin Promise!Pooled
  PROVE  Starting(t) \/ Life(t) = "none"
BY DEF Promise!Pooled, Starting, Life

LEMMA PromiseInit == ASSUME Init PROVE Promise!Init
<1>1. \A t \in Threads : Life(t) = "none"
  BY DEF Init, Life, Loops
<1>2. Lives = [t \in Threads |-> "none"]
  BY <1>1 DEF Lives
<1>3. Last = 0
  BY DEF Init, Last
<1> QED
  BY <1>2, <1>3 DEF Init, Promise!Init

LEMMA MainPromise ==
  ASSUME PoolInv, Main
  PROVE  [Promise!Next]_(Promise!vars)
<1>1. \A l \in Loops : l \in Threads \/ l = Base
  BY DEF Loops
<1>2. CASE StartThread
  <2>1. PICK t \in Threads : /\ pc[t] = "none" /\ pc'[t] = "publish"
                             /\ \A k \in Loops : k # t => pc'[k] = pc[k]
    BY <1>2, StartThreadPool
  <2>2. main = "start" /\ main' = "get_loop" /\ UNCHANGED <<loop_service, index>>
    BY <1>2 DEF StartThread
  <2>3. Lives[t] = "none" /\ Lives' = [Lives EXCEPT ![t] = "starting"]
    <3>1. Life(t) = "none" /\ Life(t)' = "starting"
      BY <2>1 DEF Life
    <3>2. t \in Loops
      BY DEF Loops
    <3> QED
      BY <2>1, <3>1, <3>2, LifeMoves DEF Lives
  <2>4. \A u \in Threads \ Promise!Pooled : Lives[u] = "none"
    BY <2>2, Outside DEF PoolInv, Filling, Lives
  <2>5. Last' = Last
    BY <2>2 DEF Last
  <2>6. Promise!Create(t)
    BY <2>2, <2>3, <2>4, <2>5 DEF Promise!Create, Promise!Moves
  <2> QED
    BY <2>6 DEF Promise!Next
<1>3. CASE TestLoop
  <2>1. /\ UNCHANGED <<pc, index>> /\ main = "get_loop" /\ main' \in {"start", "waiting"}
        /\ \/ loop_service' = loop_service
           \/ \E t \in Threads : Starting(t) /\ Runs(t) /\ loop_service' = Append(loop_service, t)
    BY <1>3, TestLoopPool
  <2>2. Lives' = Lives
    BY <2>1 DEF Lives, Life
  <2>3. CASE loop_service' = loop_service
    BY <2>1, <2>2, <2>3, PoolStutters DEF Serving
  <2>4. ASSUME NEW t \in Threads, Starting(t), Runs(t), loop_service' = Append(loop_service, t)
        PROVE  Promise!Next
    <3>1. Last' = Last
      <4>1. index = 0
        BY <2>1 DEF PoolInv, Filling
      <4> QED
        BY <2>1, <4>1 DEF Last
    <3>2. Lives[t] = "running"
      <4>1. pc[t] # "dead"
        BY <2>1 DEF PoolInv, Filling, Loops
      <4> QED
        BY <2>4, <4>1 DEF Runs, Lives, Life
    <3>3. t \notin Promise!Pooled
      BY <2>4 DEF Starting, Promise!Pooled
    <3>4. Promise!Add(t)
      BY <2>1, <2>2, <2>4, <3>1, <3>2, <3>3 DEF Promise!Add
    <3> QED
      BY <3>4 DEF Promise!Next
  <2> QED
    BY <2>1, <2>3, <2>4
<1>4. CASE RunBase
  <2>1. /\ main = "start" /\ main' = "run" /\ pc' = [pc EXCEPT ![Base] = "select"]
        /\ UNCHANGED <<loop_service, index>>
    BY <1>4 DEF RunBase
  <2>2. Lives' = Lives
    <3>1. Base \in Loops /\ pc \in [Loops -> Steps]
      BY DEF Loops, PoolInv, Inv, Typed
    <3> QED
      BY <2>1, <3>1, LifeMoves
  <2>3. \A u \in Threads \ Promise!Pooled : Lives[u] = "none"
    BY <2>1, Outside DEF PoolInv, Filling, Lives
  <2>4. Last' = Last
    BY <2>1 DEF Last
  <2>5. Promise!Serve
    BY <2>1, <2>2, <2>3, <2>4 DEF Promise!Serve
  <2> QED
    BY <2>5 DEF Promise!Next
<1> QED
  BY <1>2, <1>3, <1>4 DEF Main

LEMMA ThreadPromise ==
  ASSUME PoolInv, NEW t \in Threads, Publish(t) \/ Notify(t)
  PROVE  [Promise!Next]_(Promise!vars)
<1>0. t \in Loops /\ pc \in [Loops -> Steps]
  BY DEF Loops, PoolInv, Inv, Typed
<1>1. CASE Publish(t)
  <2>1. /\ pc[t] = "publish" /\ pc' = [pc EXCEPT ![t] = "notify"]
        /\ UNCHANGED <<main, loop_service, index>>
    BY <1>1 DEF Publish
  <2>2. Life(t) = "starting" /\ Life(t)' = "running"
    BY <1>0, <2>1 DEF Life
  <2>3. Lives[t] = "starting" /\ Lives' = [Lives EXCEPT ![t] = "running"]
    BY <1>0, <2>1, <2>2, LifeMoves DEF Lives
  <2>4. Last' = Last
    BY <2>1 DEF Last
  <2>5. Promise!Begin(t)
    BY <2>1, <2>3, <2>4 DEF Promise!Begin, Promise!Moves
  <2> QED
    BY <2>5 DEF Promise!Next
<1>2. CASE Notify(t)
  <2>1. /\ main' = main \/ (main = "waiting" /\ main' = "get_loop")
        /\ UNCHANGED <<loop_service, index>>
        /\ pc[t] = "notify" /\ pc'[t] = "select" /\ \A k \in Loops : k # t => pc'[k] = pc[k]
    BY <1>2, NotifyPool
  <2>2. Life(t)' = Life(t)
    BY <2>1 DEF Life
  <2>3. Lives' = Lives
    BY <1>0, <2>1, <2>2, LifeMoves
  <2>4. Serving' = Serving
    BY <2>1 DEF Serving
  <2> QED
    BY <2>1, <2>3, <2>4, PoolStutters
<1> QED
  BY <1>1, <1>2

\* The loop that is next has its turn, dead or alive.
LEMMA AcceptPromise ==
  ASSUME PoolInv, Accept
  PROVE  [Promise!Next]_(Promise!vars)
<1>1. /\ main = "run" /\ UNCHANGED <<main, loop_service, pc>>
      /\ index' = IF Len(loop_service) = 0 THEN index ELSE index + 1
  BY AcceptPool
<1>2. Lives' = Lives /\ Serving' = Serving
  BY <1>1 DEF Lives, Life, Serving
<1>3. index \in Nat /\ Len(loop_service) \in Nat
  BY DEF PoolInv, Inv, Typed
<1>4. CASE Len(loop_service) = 0
  BY <1>1, <1>2, <1>4, PoolStutters
<1>5. CASE Len(loop_service) # 0
  <2>1. PICK n \in Nat \ {0} : n = Len(loop_service)
    BY <1>3, <1>5
  <2>2. Last' = (index % n) + 1
    <3>1. index' = index + 1 /\ index' # 0 /\ index' - 1 = index
      BY <1>1, <1>3, <1>5
    <3> QED
      BY <1>1, <2>1, <3>1 DEF Last
  <2>3. index % n \in 0..(n - 1)
    BY <1>3, DivMod
  <2>4. index % n = Last % n
    <3>1. CASE index = 0
      BY <3>1 DEF Last
    <3>2. CASE index # 0
      <4>1. PICK i \in Nat : index = i + 1
        BY <1>3, <3>2, index - 1 \in Nat
      <4>2. (i + 1) % n = ((i % n) + 1) % n
        BY ModNext
      <4>3. Last = (i % n) + 1
        <5>1. index - 1 = i
          BY <4>1
        <5> QED
          BY <2>1, <3>2, <5>1 DEF Last
      <4> QED
        BY <4>1, <4>2, <4>3
    <3> QED
      BY <3>1, <3>2
  <2>5. Last' \in 1..n
    BY <2>2, <2>3
  <2>6. Promise!Give
    BY <1>1, <1>2, <2>1, <2>2, <2>4, <2>5 DEF Promise!Give, Serving
  <2> QED
    BY <2>6 DEF Promise!Next
<1> QED
  BY <1>4, <1>5

LEMMA WorkPromise ==
  ASSUME PoolInv, NEW l \in Loops, LoopWork(l)
  PROVE  [Promise!Next]_(Promise!vars)
<1>1. /\ UNCHANGED <<main, loop_service, index>> /\ \A k \in Loops : k # l => pc'[k] = pc[k]
      /\ pc[l] \notin {"none", "publish", "notify", "dead"}
      /\ pc'[l] \notin {"none", "publish", "notify"}
  BY WorkIsLocal DEF PoolInv, poolVars
<1>2. Serving' = Serving /\ Last' = Last
  BY <1>1 DEF Serving, Last
<1>3. Life(l) = "running"
  BY <1>1 DEF Life
<1>4. CASE pc'[l] # "dead" \/ l = Base
  <2>1. l = Base \/ Life(l)' = Life(l)
    BY <1>1, <1>4 DEF Life
  <2>2. Lives' = Lives
    BY <1>1, <2>1, LifeMoves
  <2> QED
    BY <1>1, <1>2, <2>2, PoolStutters
<1>5. CASE pc'[l] = "dead" /\ l \in Threads
  <2>1. main = "run"
    BY <1>5, DeathIsServing DEF PoolInv
  <2>2. l \in Promise!Pooled
    <3>1. ~Starting(l)
      BY <1>5, <2>1 DEF PoolInv, Filling
    <3> QED
      BY <1>3, <1>5, <3>1, Outside
  <2>3. Lives[l] = "running" /\ Lives' = [Lives EXCEPT ![l] = "gone"]
    <3>1. Life(l)' = "gone"
      BY <1>5 DEF Life
    <3> QED
      BY <1>1, <1>3, <1>5, <3>1, LifeMoves DEF Lives
  <2>4. Promise!Die(l)
    BY <1>1, <1>2, <2>1, <2>2, <2>3 DEF Promise!Die, Promise!Moves, Serving
  <2> QED
    BY <1>5, <2>4 DEF Promise!Next
<1> QED
  BY <1>4, <1>5 DEF Loops

LEMMA PromiseNext == ASSUME PoolInv, [Next]_vars PROVE [Promise!Next]_(Promise!vars)
<1>1. CASE UNCHANGED vars
  <2>1. UNCHANGED <<Serving, Lives, loop_service, index>>
    BY <1>1 DEF vars, poolVars, Serving, Lives, Life
  <2> QED
    BY <2>1, PoolStutters
<1>2. ASSUME NEW c \in Conns, Client(c) PROVE UNCHANGED Promise!vars
  <2>1. UNCHANGED <<Serving, Lives, loop_service, index>>
    BY <1>2 DEF Client, poolVars, Serving, Lives, Life
  <2> QED
    BY <2>1, PoolStutters
<1>3. ASSUME NEW l \in Loops, LoopStep(l) PROVE [Promise!Next]_(Promise!vars)
  BY <1>3, WorkPromise, AcceptPromise, ThreadPromise DEF LoopStep, LoopWork
<1> QED
  BY <1>1, <1>2, <1>3, MainPromise DEF Next

\* Although a client can kill a loop at any time, the pool of the Python servers
\* is the one that LoopPool describes, for any number of threads and for ever:
\* loops are taken in one by one while they run and handed out in turn.
THEOREM PyPoolKeepsPromise == Spec => KeepsPoolPromise
<1>1. ASSUME PoolInv, [Next]_vars PROVE PoolInv' /\ [Promise!Next]_(Promise!vars)
  BY <1>1, PoolInvStep, PromiseNext
<1> QED
  BY <1>1, PoolInvInit, PromiseInit, PTL DEF Spec, KeepsPoolPromise, Promise!Spec

-----------------------------------------------------------------------------
(* What a loop dies of.                                                     *)

HasInput(c) == Available(c) > 0 \/ client[c] \in {"fin", "rst"}

\* What select returned as readable stays so until it is read.
Fed ==
    /\ client \in [Conns -> {"idle", "up", "fin", "rst"}]
    /\ \A l \in Loops : /\ \A c \in rlist[l] \ {Listen} : HasInput(c)
                        /\ reading[l] # None => HasInput(reading[l]) \/ Started(reading[l])

LEMMA FedElsewhere ==
  ASSUME Fed, UNCHANGED <<client, arrived, received, recv_buffer>>,
         \A l \in Loops : rlist'[l] \subseteq rlist[l] /\ reading'[l] \in {reading[l], None}
  PROVE  Fed'
<1>1. \A l \in Loops : \A c \in rlist'[l] \ {Listen} : HasInput(c)'
  BY DEF Fed, HasInput, Available
<1>2. ASSUME NEW l \in Loops, reading'[l] # None
      PROVE  (HasInput(reading[l]) \/ Started(reading[l]))'
  <2>1. reading'[l] = reading[l]
    BY <1>2
  <2> QED
    BY <1>2, <2>1 DEF Fed, HasInput, Available, Started
<1> QED
  BY <1>1, <1>2 DEF Fed

LEMMA FedClient ==
  ASSUME Inv, Fed, NEW c \in Conns, Client(c)
  PROVE  Fed'
<1>1. UNCHANGED <<rlist, reading, received, recv_buffer>>
  BY DEF Client, batch, data
<1>2. arrived \in [Conns -> Nat] /\ received \in [Conns -> Nat]
      /\ client \in [Conns -> {"idle", "up", "fin", "rst"}]
  BY DEF Inv, Typed, Fed
<1>3. CASE client' = client /\ arrived' = [arrived EXCEPT ![c] = @ + 1]
  <2>1. \A d \in Conns : HasInput(d) => HasInput(d)'
    <3>1. \A d \in Conns : arrived'[d] >= arrived[d]
      BY <1>2, <1>3
    <3>2. \A d \in Conns : arrived'[d] \in Nat
      BY <1>2, <1>3
    <3> QED
      BY <1>1, <1>2, <1>3, <3>1, <3>2 DEF HasInput, Available
  <2> QED
    BY <1>1, <1>3, <2>1 DEF Fed, Inv, Typed, Started
<1>4. ASSUME arrived' = arrived, NEW to \in {"up", "fin", "rst"}, client' = [client EXCEPT ![c] = to],
             client[c] \in {"fin", "rst"} => to \in {"fin", "rst"}
      PROVE  Fed'
  <2>1. client' \in [Conns -> {"idle", "up", "fin", "rst"}]
    BY <1>2, <1>4
  <2>2. \A d \in Conns : client[d] \in {"fin", "rst"} => client'[d] \in {"fin", "rst"}
    BY <1>2, <1>4
  <2>3. \A d \in Conns : HasInput(d) => HasInput(d)'
    BY <1>1, <1>4, <2>2 DEF HasInput, Available
  <2> QED
    BY <1>1, <2>1, <2>3 DEF Fed, Inv, Typed, Started
<1> QED
  BY <1>3, <1>4 DEF Client

\* recv() takes from the connection being read, which no batch holds.
LEMMA FedRecv ==
  ASSUME Inv, Fed, NEW l \in Loops, Recv(l) \/ RecvEnd(l)
  PROVE  Fed'
<1>1. PICK c \in Conns : c = reading[l] /\ pc[l] = "recv" /\ c # None /\ c \in inputs[l] /\ c \notin rlist[l]
  BY ReadingIs DEF Recv, RecvEnd
<1>2. ASSUME NEW k \in Loops
      PROVE  c \notin rlist[k] /\ (reading[k] = c => k = l)
  <2>1. \A m \in Loops : c \in inputs[m] => on[c] = m
    BY DEF Inv, Tables
  <2> QED
    BY <1>1, <2>1 DEF Inv, Batch
<1>3. UNCHANGED <<client, arrived, rlist>> /\ reading \in [Loops -> Conns \cup {None}]
      /\ received \in [Conns -> Nat] /\ recv_buffer \in [Conns -> Buf]
  BY DEF Recv, RecvEnd, network, Inv, Typed
<1>4. ASSUME \A d \in Conns : d # c => received'[d] = received[d] /\ recv_buffer'[d] = recv_buffer[d],
             \/ reading' = [reading EXCEPT ![l] = None]
             \/ reading' = reading /\ Started(c)'
      PROVE  Fed'
  <2>1. \A d \in Conns : d # c => (HasInput(d)' <=> HasInput(d)) /\ (Started(d)' <=> Started(d))
    BY <1>3, <1>4 DEF HasInput, Available, Started
  <2>2. \A k \in Loops : \A d \in rlist[k] \ {Listen} : d \in Conns /\ d # c
    BY <1>2 DEF Inv, Typed
  <2>3. \A k \in Loops : \A d \in rlist[k] \ {Listen} : HasInput(d)'
    BY <2>1, <2>2 DEF Fed
  <2>4. ASSUME NEW k \in Loops, reading'[k] # None
        PROVE  (HasInput(reading[k]) \/ Started(reading[k]))'
    <3>1. reading'[k] = reading[k] /\ reading[k] \in Conns /\ (k = l => Started(c)')
      BY <1>3, <1>4, <2>4
    <3>2. CASE k = l
      BY <1>1, <3>1, <3>2 DEF Started
    <3>3. CASE k # l
      <4>1. reading[k] # c /\ (HasInput(reading[k]) \/ Started(reading[k]))
        BY <1>2, <2>4, <3>1, <3>3 DEF Fed
      <4>2. HasInput(reading[k])' \/ Started(reading[k])'
        BY <2>1, <3>1, <4>1 DEF HasInput, Available, Started
      <4> QED
        BY <4>2
    <3> QED
      BY <3>2, <3>3
  <2> QED
    BY <1>3, <2>3, <2>4 DEF Fed
<1>5. CASE RecvEnd(l)
  <2>1. received' = received /\ Finish(l, c, recv_buffer[c])
    BY <1>1, <1>5 DEF RecvEnd
  <2>2. \A d \in Conns : d # c => recv_buffer'[d] = recv_buffer[d]
    BY <1>3, <2>1 DEF Finish
  <2> QED
    BY <1>4, <2>1, <2>2 DEF Finish
<1>6. CASE Recv(l)
  <2> DEFINE n == IF Available(c) < Chunk THEN Available(c) ELSE Chunk
             recvd == push(recv_buffer[c], Number(received[c], n))
  <2>1. /\ Available(c) > 0 /\ received' = [received EXCEPT ![c] = @ + n]
        /\ IF n < Chunk THEN Finish(l, c, recvd)
           ELSE /\ recv_buffer' = [recv_buffer EXCEPT ![c] = recvd]
                /\ UNCHANGED <<send_buffer, tables, pc, reading>>
    BY <1>1, <1>6 DEF Recv
  <2>2. n \in Nat /\ n > 0
    <3>1. Available(c) \in Int
      BY DEF Inv, Typed, Available
    <3> QED
      BY <2>1, <3>1
  <2> HIDE DEF n
  <2>3. recvd.put > 0
    <3>1. Number(received[c], n) \in Seq(Nat) /\ Len(Number(received[c], n)) = n
      BY <1>3, <2>2, NumberSeq
    <3> QED
      BY <1>3, <2>2, <3>1, PushFills DEF Inv, Typed
  <2> HIDE DEF recvd
  <2>4. \A d \in Conns : d # c => received'[d] = received[d]
    BY <1>3, <2>1
  <2>5. CASE n < Chunk
    <3>1. Finish(l, c, recvd)
      BY <2>1, <2>5
    <3>2. \A d \in Conns : d # c => recv_buffer'[d] = recv_buffer[d]
      BY <1>3, <3>1 DEF Finish
    <3> QED
      BY <1>4, <2>4, <3>1, <3>2 DEF Finish
  <2>6. CASE ~(n < Chunk)
    <3>1. recv_buffer' = [recv_buffer EXCEPT ![c] = recvd] /\ reading' = reading
      BY <2>1, <2>6
    <3>2. \A d \in Conns : d # c => recv_buffer'[d] = recv_buffer[d]
      BY <1>3, <3>1
    <3>3. recv_buffer'[c].put > 0
      BY <1>3, <2>3, <3>1
    <3> QED
      BY <1>4, <2>4, <3>1, <3>2, <3>3 DEF Started
  <2> QED
    BY <2>5, <2>6
<1> QED
  BY <1>5, <1>6

LEMMA FedDie ==
  ASSUME Inv, Fed, NEW l \in Loops, Die(l)
  PROVE  Fed'
<1>1. /\ rlist' = [rlist EXCEPT ![l] = {}] /\ reading' = [reading EXCEPT ![l] = None]
      /\ UNCHANGED <<client, arrived, received, recv_buffer>>
  BY DEF Die, network, data
<1>2. \A k \in Loops : rlist'[k] \subseteq rlist[k] /\ reading'[k] \in {reading[k], None}
  BY <1>1 DEF Inv, Typed
<1> QED
  BY <1>1, <1>2, FedElsewhere

LEMMA FedStep == ASSUME Inv, Fed, [Next]_vars PROVE Fed'
<1>1. CASE UNCHANGED vars
  BY <1>1, FedElsewhere DEF vars, batch, network, data
<1>2. CASE Main
  BY <1>2, FedElsewhere DEF Main, StartThread, TestLoop, RunBase, batch, network, data
<1>3. CASE Accept
  <2>1. rlist' = [rlist EXCEPT ![Base] = @ \ {Listen}] /\ UNCHANGED <<reading, network, data>>
    BY <1>3 DEF Accept
  <2>2. \A k \in Loops : rlist'[k] \subseteq rlist[k]
    BY <2>1 DEF Inv, Typed
  <2> QED
    BY <2>1, <2>2, FedElsewhere DEF network, data
<1>4. ASSUME NEW t \in Threads, Publish(t) \/ Notify(t) PROVE Fed'
  BY <1>4, FedElsewhere DEF Publish, Notify, batch, network, data
<1>5. ASSUME NEW l \in Loops, Select(l) PROVE Fed'
  <2>1. /\ rlist' = [rlist EXCEPT ![l] = {c \in inputs[l] : Readable(c)}]
        /\ UNCHANGED <<reading, client, arrived, received, recv_buffer>>
    BY <1>5 DEF Select, network, data
  <2>2. \A c \in inputs[l] : Readable(c) /\ c # Listen => HasInput(c)
    BY DEF Readable, HasInput
  <2>3. \A k \in Loops : \A c \in rlist'[k] \ {Listen} : HasInput(c)
    BY <2>1, <2>2 DEF Inv, Typed, Fed
  <2>4. \A k \in Loops : \A c \in rlist'[k] \ {Listen} : HasInput(c)'
    BY <2>1, <2>3 DEF HasInput, Available
  <2>5. \A k \in Loops : reading'[k] # None => (HasInput(reading[k]) \/ Started(reading[k]))'
    BY <2>1 DEF Fed, HasInput, Available, Started
  <2> QED
    BY <2>1, <2>4, <2>5 DEF Fed
<1>6. ASSUME NEW l \in Loops, BeginRead(l) PROVE Fed'
  <2>1. PICK c \in rlist[l] \ {Listen} :
          IF c \notin handlers[l] THEN Die(l)
          ELSE /\ rlist' = [rlist EXCEPT ![l] = @ \ {c}] /\ reading' = [reading EXCEPT ![l] = c]
               /\ UNCHANGED <<client, arrived, received, recv_buffer>>
    BY <1>6 DEF BeginRead, network, data
  <2>2. CASE Die(l)
    BY <2>2, FedDie
  <2>3. CASE /\ rlist' = [rlist EXCEPT ![l] = @ \ {c}] /\ reading' = [reading EXCEPT ![l] = c]
             /\ UNCHANGED <<client, arrived, received, recv_buffer>>
    <3>1. HasInput(c)'
      BY <2>1, <2>3 DEF Fed, HasInput, Available
    <3>2. \A k \in Loops : reading'[k] # None => (HasInput(reading[k]) \/ Started(reading[k]))'
      <4>1. ASSUME NEW k \in Loops, k # l, reading'[k] # None
            PROVE  (HasInput(reading[k]) \/ Started(reading[k]))'
        <5>1. reading'[k] = reading[k]
          BY <2>3, <4>1 DEF Inv, Typed
        <5> QED
          BY <2>3, <4>1, <5>1 DEF Fed, HasInput, Available, Started
      <4>2. reading'[l] = c
        BY <2>3 DEF Inv, Typed
      <4>3. HasInput(reading[l])'
        BY <3>1, <4>2 DEF HasInput, Available
      <4> QED
        BY <4>1, <4>3
    <3>3. \A k \in Loops : rlist'[k] \subseteq rlist[k]
      BY <2>3 DEF Inv, Typed
    <3>4. \A k \in Loops : \A d \in rlist'[k] \ {Listen} : HasInput(d)'
      BY <2>3, <3>3 DEF Fed, HasInput, Available
    <3> QED
      BY <2>3, <3>2, <3>4 DEF Fed
  <2> QED
    BY <2>1, <2>2, <2>3
<1>7. ASSUME NEW l \in Loops, RecvFails(l) PROVE Fed'
  BY <1>7, FedDie DEF RecvFails
<1>8. ASSUME NEW l \in Loops, RecvEof(l) PROVE Fed'
  <2>1. CASE Die(l)
    BY <2>1, FedDie
  <2>2. CASE reading' = [reading EXCEPT ![l] = None] /\ UNCHANGED <<rlist, network, data>>
    <3>1. \A k \in Loops : reading'[k] \in {reading[k], None}
      BY <2>2 DEF Inv, Typed
    <3> QED
      BY <2>2, <3>1, FedElsewhere DEF network, data
  <2> QED
    BY <1>8, <2>1, <2>2 DEF RecvEof
<1>9. ASSUME NEW l \in Loops, Write(l) PROVE Fed'
  <2>1. CASE Die(l)
    BY <2>1, FedDie
  <2>2. CASE UNCHANGED <<rlist, reading, network, received, recv_buffer>>
    BY <2>2, FedElsewhere DEF network
  <2> QED
    BY <1>9, <2>1, <2>2 DEF Write
<1>10. ASSUME NEW l \in Loops, EndReads(l) \/ EndWrites(l) \/ RunFunctor(l) \/ EndDrain(l) PROVE Fed'
  BY <1>10, FedElsewhere DEF EndReads, EndWrites, RunFunctor, EndDrain, batch, network, data
<1>11. ASSUME NEW l \in Loops, LoopStep(l) PROVE Fed'
  BY <1>3, <1>4, <1>5, <1>6, <1>7, <1>8, <1>9, <1>10, <1>11, FedRecv DEF LoopStep
<1> QED
  BY <1>1, <1>2, <1>11, FedClient DEF Next

\* An exception that ends a loop has one of these causes: none comes of the tables,
\* of a stale batch, or of a recv() that had nothing to read in the first place.
THEOREM LoopsDieOfClients == Spec => DeathHasCause
<1>1. ASSUME Init PROVE Fed
  <2>1. \A l \in Loops : rlist[l] = {} /\ reading[l] = None
    BY <1>1 DEF Init
  <2> QED
    BY <1>1, <2>1 DEF Init, Fed
<1>2. ASSUME Inv, Fed, NEW l \in Loops, LoopWork(l), pc'[l] = "dead" PROVE CauseOfDeath(l)
  <2>1. \A c \in Conns : c \in inputs[l] \/ c \in outputs[l] => c \in handlers[l] /\ conn[c] = "open" /\ on[c] = l
    BY <1>2 DEF Inv, Tables
  <2>2. pc \in [Loops -> Steps]
    BY <1>2 DEF Inv, Typed
  <2>3. CASE BeginRead(l)
    <3>1. PICK c \in rlist[l] \ {Listen} : c \notin handlers[l] \/ pc' = [pc EXCEPT ![l] = "recv"]
      BY <2>3 DEF BeginRead
    <3>2. c \in Conns /\ c \in inputs[l]
      BY <1>2, <3>1 DEF Inv, Typed, Batch
    <3> QED
      BY <1>2, <2>1, <2>2, <3>1, <3>2
  <2>4. CASE RecvFails(l)
    <3>1. PICK c \in Conns : c = reading[l] /\ c # None /\ c \in inputs[l]
      BY <1>2, <2>4, ReadingIs DEF RecvFails
    <3>2. Available(c) = 0 /\ client[c] \in {"up", "rst"}
      BY <2>4, <3>1 DEF RecvFails
    <3>3. HasInput(c) \/ Started(c)
      BY <1>2, <3>1 DEF Fed
    <3>4. client[c] = "rst" \/ Started(c)
      BY <3>2, <3>3 DEF HasInput
    <3> QED
      BY <2>1, <3>1, <3>2, <3>4 DEF CauseOfDeath
  <2>5. CASE RecvEof(l)
    <3>1. PICK c \in Conns : c = reading[l] /\ c # None /\ c \in inputs[l]
      BY <1>2, <2>5, ReadingIs DEF RecvEof
    <3>2. client[c] = "fin" /\ (program = "tcp" \/ pc' = [pc EXCEPT ![l] = "read"])
      BY <2>5, <3>1 DEF RecvEof
    <3> QED
      BY <1>2, <2>1, <2>2, <3>1, <3>2 DEF CauseOfDeath
  <2>6. CASE Recv(l) \/ RecvEnd(l)
    <3>1. pc' = pc \/ pc' = [pc EXCEPT ![l] = "read"]
      BY <2>6 DEF Recv, RecvEnd, Finish
    <3>2. pc[l] = "recv"
      BY <2>6 DEF Recv, RecvEnd
    <3> QED
      BY <1>2, <2>2, <3>1, <3>2
  <2>7. CASE Write(l)
    <3>1. PICK c \in wlist[l] : c \notin handlers[l] \/ send_buffer[c].text # <<>> \/ pc' = pc
      BY <2>7 DEF Write
    <3>2. c \in Conns /\ c \in outputs[l] /\ pc[l] = "write"
      BY <1>2, <2>7, <3>1 DEF Inv, Typed, Batch, Write
    <3> QED
      BY <1>2, <2>1, <3>1, <3>2 DEF CauseOfDeath
  <2>8. CASE Select(l) \/ EndReads(l) \/ EndWrites(l) \/ EndDrain(l) \/ RunFunctor(l)
    <3>1. \E next \in Steps \ {"dead"} : pc' = [pc EXCEPT ![l] = next] \/ (pc' = pc /\ pc[l] = next)
      BY <2>8 DEF Select, EndReads, EndWrites, EndDrain, RunFunctor, Steps
    <3> QED
      BY <1>2, <2>2, <3>1
  <2> QED
    BY <1>2, <2>3, <2>4, <2>5, <2>6, <2>7, <2>8 DEF LoopWork
<1>3. ASSUME PoolInv, Fed, [Next]_vars, NEW l \in Loops, pc[l] # "dead", pc'[l] = "dead" PROVE CauseOfDeath(l)
  <2>0. pc \in [Loops -> Steps] /\ Base \in Loops /\ Threads \subseteq Loops
    BY <1>3 DEF PoolInv, Inv, Typed, Loops
  <2>1. CASE UNCHANGED vars
    BY <1>3, <2>1 DEF vars
  <2>2. CASE Main
    <3>1. pc' = pc \/ \E t \in Loops : pc' = [pc EXCEPT ![t] = "publish"] \/ pc' = [pc EXCEPT ![t] = "select"]
      BY <1>3, <2>0, <2>2 DEF Main, StartThread, TestLoop, RunBase, PoolInv, Inv, Typed
    <3> QED
      BY <1>3, <2>0, <3>1
  <2>3. ASSUME NEW c \in Conns, Client(c) PROVE FALSE
    BY <1>3, <2>3 DEF Client
  <2>4. ASSUME NEW k \in Loops, LoopStep(k) PROVE CauseOfDeath(l)
    <3>1. CASE LoopWork(k)
      <4>1. k = l
        BY <1>3, <3>1, WorkIsLocal DEF PoolInv
      <4> QED
        BY <1>2, <1>3, <3>1, <4>1 DEF PoolInv
    <3>2. CASE Accept
      BY <1>3, <3>2 DEF Accept
    <3>3. CASE k \in Threads /\ (Publish(k) \/ Notify(k))
      <4>1. pc' = [pc EXCEPT ![k] = "notify"] \/ pc' = [pc EXCEPT ![k] = "select"]
        BY <3>3 DEF Publish, Notify
      <4> QED
        BY <1>3, <2>0, <4>1
    <3> QED
      BY <2>4, <3>1, <3>2, <3>3 DEF LoopStep, LoopWork
  <2> QED
    BY <1>3, <2>1, <2>2, <2>3, <2>4 DEF Next
<1>4. ASSUME PoolInv, Fed, [Next]_vars
      PROVE  [\A l \in Loops : pc[l] # "dead" /\ pc'[l] = "dead" => CauseOfDeath(l)]_vars
  BY <1>3, <1>4
<1>5. ASSUME PoolInv, Fed, [Next]_vars PROVE Fed'
  BY <1>5, FedStep DEF PoolInv
<1> QED
  BY <1>1, <1>4, <1>5, PoolInvAlways, PTL DEF Spec, DeathHasCause
=============================================================================
