------------------------ MODULE ConnectionBuffersProofs ------------------------
(***************************************************************************)
(* Proofs that the buffers of a connection implement ByteFifo, for any      *)
(* chunk size and any number of bytes.                                      *)
(***************************************************************************)
EXTENDS ConnectionBuffers, SequenceTheorems, TLAPS

\* Consecutive numbers form a sequence of that length.
LEMMA NumberIsSeq ==
    ASSUME NEW d \in Nat, NEW n \in Nat
    PROVE  /\ Number(d, n) \in Seq(Nat) /\ Len(Number(d, n)) = n
           /\ \A i \in 1..n : Number(d, n)[i] = d + i
           /\ DOMAIN Number(d, n) = 1..n
BY DEF Number

\* Writing at the end of a stream appends.
LEMMA WriteAppends ==
    ASSUME NEW d \in Nat, NEW m \in Nat, NEW n \in Nat
    PROVE  write([text |-> Number(d, m), put |-> m], Number(d + m, n))
            = [text |-> Number(d, m + n), put |-> m + n]
<1>1. Len(Number(d, m)) = m /\ Len(Number(d + m, n)) = n
  <2>1. d + m \in Nat OBVIOUS
  <2> QED BY <2>1, NumberIsSeq
<1>2. \A i \in 1..(m + n) :
        (IF m < i /\ i <= m + n THEN Number(d + m, n)[i - m] ELSE Number(d, m)[i]) = d + i
    BY DEF Number
<1>3. (IF m + n > m THEN m + n ELSE m) = m + n OBVIOUS
<1> DEFINE f == [i \in 1..(m + n) |->
                    IF m < i /\ i <= m + n THEN Number(d + m, n)[i - m] ELSE Number(d, m)[i]]
<1>4. f = Number(d, m + n)
  <2>1. Number(d, m + n) = [i \in 1..(m + n) |-> d + i] BY DEF Number
  <2>2. \A i \in 1..(m + n) : f[i] = d + i BY <1>2
  <2>3. f = [i \in 1..(m + n) |-> f[i]] OBVIOUS
  <2> HIDE DEF f
  <2> QED BY <2>1, <2>2, <2>3
<1> QED BY <1>1, <1>3, <1>4 DEF write

\* The front of consecutive numbers, and what it leaves.
LEMMA SplitNumber ==
    ASSUME NEW d \in Nat, NEW m \in Nat, NEW n \in 0..m
    PROVE  /\ SubSeq(Number(d, m), 1, n) = Number(d, n)
           /\ SubSeq(Number(d, m), n + 1, m) = Number(d + n, m - n)
<1>1. Number(d, m) \in Seq(Nat) /\ Len(Number(d, m)) = m BY NumberIsSeq
<1>2. SubSeq(Number(d, m), 1, n) = Number(d, n) BY <1>1 DEF Number
<1>3. SubSeq(Number(d, m), n + 1, m) = Number(d + n, m - n) BY <1>1 DEF Number
<1> QED BY <1>2, <1>3

\* Consecutive numbers behind the numbers up to d.
LEMMA ExtendNumber ==
    ASSUME NEW d \in Nat, NEW n \in Nat
    PROVE  Number(0, d) \o Number(d, n) = Number(0, d + n)
<1>1. /\ Number(0, d) \in Seq(Nat) /\ Len(Number(0, d)) = d
      /\ Number(d, n) \in Seq(Nat) /\ Len(Number(d, n)) = n
    BY NumberIsSeq
<1> QED BY <1>1 DEF Number

Received == Len(taken)
Sent == Len(wire)

\* The user has had a prefix of what was received and buffer_in_ holds the rest.
InInv ==
    /\ arrived \in Nat /\ received \in Nat /\ received <= arrived
    /\ Received \in 0..received /\ taken = Number(0, Received)
    /\ buffer_in_ = [text |-> Number(Received, received - Received), put |-> received - Received]

\* A step receives more or the user takes more, never both.
InMoves == \/ received' >= received /\ taken' = taken
           \/ received' = received /\ Received <= Received'

\* Reading and consuming whole buffers keeps them in order.
LEMMA InStep == ASSUME Whole, InInv, [Next]_vars PROVE InInv' /\ InMoves
<1> DEFINE m == received - Received
<1>0. m \in Nat /\ Received \in Nat /\ Received + m = received BY DEF InInv
<1>1. CASE Recv
  <2> DEFINE n == IF Available < Chunk THEN Available ELSE Chunk
  <2>1. n \in Nat /\ n <= arrived - received BY <1>1, ChunkAssumption DEF Recv, Available, InInv
  <2>2. /\ received' = received + n /\ buffer_in_' = write(buffer_in_, Number(received, n))
        /\ UNCHANGED <<arrived, taken>>
      BY <1>1 DEF Recv
  <2> HIDE DEF n
  <2>3. buffer_in_' = [text |-> Number(Received, m + n), put |-> m + n]
      BY <1>0, <2>1, <2>2, WriteAppends DEF InInv
  <2>4. m + n = received' - Received /\ Received' = Received
      BY <1>0, <2>1, <2>2 DEF InInv, Received
  <2> QED BY <1>0, <2>1, <2>2, <2>3, <2>4 DEF InInv, InMoves
<1>2. CASE OnRead
  <2>0. Number(Received, m) \in Seq(Nat) /\ Len(Number(Received, m)) = m BY <1>0, NumberIsSeq
  <2>1. Len(buffer_in_.text) = m BY <2>0 DEF InInv
  <2>2. /\ buffer_in_' = ignore(buffer_in_, m)
        /\ taken' = taken \o SubSeq(buffer_in_.text, 1, m)
        /\ UNCHANGED <<arrived, received>>
      BY <1>0, <1>2, <2>1, SMTT(30) DEF OnRead
  <2>3. /\ SubSeq(Number(Received, m), 1, m) = Number(Received, m)
        /\ SubSeq(Number(Received, m), m + 1, m) = Number(received, 0)
    <3>1. m \in 0..m /\ m - m = 0 BY <1>0
    <3> QED BY <1>0, <3>1, SplitNumber, ZenonT(60)
  <2>4. taken' = Number(0, received) BY <1>0, <2>2, <2>3, ExtendNumber DEF InInv
  <2>5. Received' = received BY <2>4, NumberIsSeq DEF InInv, Received
  <2>6. buffer_in_' = [text |-> Number(received, 0), put |-> 0]
      BY <1>0, <2>1, <2>2, <2>3 DEF InInv, ignore
  <2>7. InInv'
    <3>1. received' - Received' = 0 /\ Received' \in 0..received' BY <1>0, <2>2, <2>5 DEF InInv
    <3>2. buffer_in_' = [text |-> Number(Received', received' - Received'),
                         put |-> received' - Received']
        BY <2>2, <2>5, <2>6, <3>1
    <3> QED BY <2>2, <2>4, <2>5, <3>1, <3>2 DEF InInv
  <2>8. InMoves BY <1>0, <2>2, <2>5 DEF InMoves, InInv
  <2> QED BY <2>7, <2>8
<1>3. CASE Arrive BY <1>3 DEF Arrive, InInv, InMoves, Received
<1> DEFINE Same == UNCHANGED <<arrived, received, buffer_in_, taken>>
<1>4. CASE Same BY <1>4 DEF InInv, InMoves, Received
<1> QED
  <2>1. Shutdown \/ Abort \/ OtherSend => Same
      BY DEF Shutdown, Abort, OtherSend, inVars
  <2>2. Collect \/ BeginRead \/ RecvEof \/ RecvError \/ do_handle_write \/ do_handle_error => Same
      BY DEF Collect, BeginRead, RecvEof, RecvError, do_handle_write, do_handle_error, inVars
  <2>3. UNCHANGED vars => Same BY DEF vars, inVars
  <2> QED BY <1>1, <1>2, <1>3, <1>4, <2>1, <2>2, <2>3 DEF Next, Handler

\* The client has had a prefix of what was sent and, until a reset, buffer_out_
\* holds the rest.
OutInv ==
    /\ given \in Nat /\ Sent \in 0..given /\ wire = Number(0, Sent)
    /\ reset \in BOOLEAN
    /\ ~reset => buffer_out_ = [text |-> Number(Sent, given - Sent), put |-> given - Sent]

\* A step puts more or the client takes more, never both.
OutMoves == \/ given' >= given /\ wire' = wire
            \/ given' = given /\ Sent <= Sent'

\* Sending and flushing over a blocking socket keeps the bytes in order.
LEMMA OutStep == ASSUME Blocking, OutInv, [Next]_vars PROVE OutInv' /\ OutMoves
<1> DEFINE m == given - Sent
<1>0. m \in Nat /\ Sent \in Nat /\ Sent + m = given BY DEF OutInv
<1>1. ASSUME NEW n \in 1..MaxOut, send(n), UNCHANGED <<wire, reset>> PROVE OutInv' /\ OutMoves
  <2>1. n \in Nat BY BoundAssumption
  <2>2. given' = given + n /\ buffer_out_' = write(buffer_out_, Number(given, n)) BY <1>1 DEF send
  <2>3. ASSUME ~reset PROVE buffer_out_' = [text |-> Number(Sent, m + n), put |-> m + n]
    <3>1. buffer_out_ = [text |-> Number(Sent, m), put |-> m] BY <2>3 DEF OutInv
    <3>2. write([text |-> Number(Sent, m), put |-> m], Number(Sent + m, n))
            = [text |-> Number(Sent, m + n), put |-> m + n]
        BY <1>0, <2>1, WriteAppends
    <3> QED BY <1>0, <2>2, <3>1, <3>2
  <2>4. m + n = given' - Sent /\ Sent' = Sent BY <1>0, <1>1, <2>1, <2>2 DEF OutInv, Sent
  <2> QED BY <1>0, <1>1, <2>1, <2>2, <2>3, <2>4 DEF OutInv, OutMoves
<1>2. CASE do_handle_write
  <2>1. PICK n \in 0..Len(buffer_out_.text) :
          /\ reset => n = 0
          /\ n < Len(buffer_out_.text) => reset'
          /\ wire' = wire \o SubSeq(buffer_out_.text, 1, n)
          /\ buffer_out_' = IF n > 0 THEN ignore(buffer_out_, n) ELSE buffer_out_
      BY <1>2, Zenon DEF do_handle_write
  <2>2. given' = given /\ reset' \in {reset, TRUE} BY <1>2 DEF do_handle_write
  <2>3. CASE reset
    <3>1. n = 0 /\ SubSeq(buffer_out_.text, 1, 0) = <<>> BY <2>1, <2>3
    <3>2. wire' = wire
      <4>1. wire \in Seq(Nat) BY <1>0, NumberIsSeq DEF OutInv
      <4> QED BY <2>1, <3>1, <4>1
    <3>3. reset' BY <2>2, <2>3
    <3> QED BY <2>2, <3>2, <3>3 DEF OutInv, OutMoves, Sent
  <2>4. CASE ~reset
    <3>1. buffer_out_ = [text |-> Number(Sent, m), put |-> m] BY <2>4 DEF OutInv
    <3>2. Len(buffer_out_.text) = m BY <1>0, <3>1, NumberIsSeq
    <3>3. n \in 0..m BY <2>1, <3>2
    <3>4. /\ SubSeq(buffer_out_.text, 1, n) = Number(Sent, n)
          /\ SubSeq(buffer_out_.text, n + 1, m) = Number(Sent + n, m - n)
        BY <1>0, <3>1, <3>3, SplitNumber
    <3>5. wire' = Number(0, Sent + n)
      <4>1. n \in Nat /\ wire = Number(0, Sent) BY <1>0, <3>3 DEF OutInv
      <4>2. Number(0, Sent) \o Number(Sent, n) = Number(0, Sent + n) BY <1>0, <4>1, ExtendNumber
      <4> QED BY <2>1, <3>4, <4>1, <4>2
    <3>6. Sent' = Sent + n
      <4>1. 0 \in Nat /\ Sent + n \in Nat BY <1>0, <3>3
      <4> QED BY <3>5, <4>1, NumberIsSeq DEF Sent
    <3>7. CASE n < m
      <4>1. reset' BY <2>1, <3>2, <3>7
      <4>2. Sent' \in 0..given' /\ Sent <= Sent' BY <1>0, <2>2, <3>3, <3>6
      <4> QED BY <2>2, <3>5, <3>6, <4>1, <4>2 DEF OutInv, OutMoves
    <3>8. CASE n = m
      <4>1. m > 0 => buffer_out_' = [text |-> Number(given, 0), put |-> 0]
          BY <1>0, <2>1, <3>2, <3>3, <3>4, <3>8 DEF ignore
      <4>2. m = 0 => buffer_out_' = [text |-> Number(given, 0), put |-> 0]
        <5> SUFFICES ASSUME m = 0 PROVE buffer_out_' = [text |-> Number(given, 0), put |-> 0]
            OBVIOUS
        <5>1. Sent = given /\ n = 0 /\ given - Sent = 0 BY <1>0, <3>8
        <5>2. buffer_out_' = buffer_out_ BY <2>1, <5>1
        <5> QED BY <3>1, <5>1, <5>2
      <4>3. Sent' = given /\ reset' \in BOOLEAN BY <1>0, <2>2, <3>6, <3>8 DEF OutInv
      <4> QED BY <1>0, <2>2, <3>5, <3>8, <4>1, <4>2, <4>3 DEF OutInv, OutMoves
    <3> QED BY <1>0, <3>3, <3>7, <3>8
  <2> QED BY <2>3, <2>4
<1> DEFINE Same == UNCHANGED <<given, buffer_out_, wire>>
<1>3. CASE Abort BY <1>3 DEF Abort, OutInv, OutMoves, Sent, outVars
<1>4. CASE Same /\ UNCHANGED reset BY <1>4 DEF OutInv, OutMoves, Sent
<1> QED
  <2>1. OnRead => (Same /\ UNCHANGED reset)
                  \/ \E n \in 1..MaxOut : send(n) /\ UNCHANGED <<wire, reset>>
      BY DEF OnRead, outVars
  <2>2. OtherSend => \E n \in 1..MaxOut : send(n) /\ UNCHANGED <<wire, reset>>
      BY DEF OtherSend, inVars
  <2>3. Arrive \/ Shutdown \/ Collect \/ BeginRead \/ Recv => Same /\ UNCHANGED reset
      BY DEF Arrive, Shutdown, Collect, BeginRead, Recv, inVars, outVars
  <2>4. RecvEof \/ RecvError \/ do_handle_error => Same /\ UNCHANGED reset
      BY DEF RecvEof, RecvError, do_handle_error, inVars, outVars
  <2>5. UNCHANGED vars => Same /\ UNCHANGED reset BY DEF vars, inVars, outVars
  <2> QED BY <1>1, <1>2, <1>3, <1>4, <2>1, <2>2, <2>3, <2>4, <2>5 DEF Next, Handler

\* Nothing has been sent in either direction.
LEMMA BothStart == Init => InInv /\ OutInv
<1> SUFFICES ASSUME Init PROVE InInv /\ OutInv OBVIOUS
<1>1. Number(0, 0) = <<>>
  <2>1. Number(0, 0) \in Seq(Nat) /\ Len(Number(0, 0)) = 0 BY NumberIsSeq
  <2> QED BY <2>1, EmptySeq
<1>2. /\ taken = <<>> /\ wire = <<>> /\ received = 0 /\ given = 0 /\ arrived = 0 /\ reset = FALSE
      /\ buffer_in_ = [text |-> <<>>, put |-> 0] /\ buffer_out_ = [text |-> <<>>, put |-> 0]
    BY DEF Init, Empty
<1>3. Received = 0 /\ Sent = 0 BY <1>2 DEF Received, Sent
<1>4. received - Received = 0 /\ given - Sent = 0 BY <1>2, <1>3
<1>5. Number(Received, received - Received) = <<>> /\ Number(Sent, given - Sent) = <<>>
    BY <1>1, <1>3, <1>4
<1>6. taken = Number(0, Received) /\ wire = Number(0, Sent) BY <1>1, <1>2, <1>3
<1>7. /\ buffer_in_ = [text |-> Number(Received, received - Received), put |-> received - Received]
      /\ buffer_out_ = [text |-> Number(Sent, given - Sent), put |-> given - Sent]
    BY <1>2, <1>4, <1>5
<1>8. /\ arrived \in Nat /\ received \in Nat /\ received <= arrived /\ given \in Nat
      /\ Received \in 0..received /\ Sent \in 0..given
    BY <1>2, <1>3
<1>9. reset \in BOOLEAN BY <1>2, Zenon
<1> QED BY <1>6, <1>7, <1>8, <1>9 DEF InInv, OutInv

\* With whole reads buffer_in_ implements ByteFifo, whatever the chunk size.
THEOREM InRefinesFifo == Whole /\ Spec => InIsFifo
<1>1. Init => In!Init BY DEF Init, In!Init
<1>2. ASSUME InInv, InInv', InMoves PROVE [In!Next]_<<received, taken>>
  <2>1. CASE received' >= received /\ taken' = taken
      BY <1>2, <2>1 DEF InInv, In!Next, In!Put
  <2>2. CASE received' = received /\ Received <= Received'
    <3>1. taken' = In!UpTo(Received') BY <1>2 DEF InInv, Number, In!UpTo
    <3>2. Received' \in Len(taken)..received BY <1>2, <2>2 DEF InInv, Received
    <3> QED BY <2>2, <3>1, <3>2 DEF In!Next, In!Take
  <2> QED BY <1>2, <2>1, <2>2 DEF InMoves
<1>3. ASSUME Whole PROVE Spec => InIsFifo
  <2>1. InInv /\ [Next]_vars => InInv' /\ InMoves BY <1>3, InStep
  <2>2. InInv /\ [Next]_vars => [In!Next]_<<received, taken>> BY <1>2, <2>1
  <2> QED BY <1>1, <2>1, <2>2, BothStart, PTL DEF InIsFifo, In!Spec, Spec
<1> QED BY <1>3

\* Over a blocking socket buffer_out_ implements ByteFifo, whoever sends.
THEOREM OutRefinesFifo == Blocking /\ Spec => OutIsFifo
<1>1. Init => Out!Init BY DEF Init, Out!Init
<1>2. ASSUME OutInv, OutInv', OutMoves PROVE [Out!Next]_<<given, wire>>
  <2>1. CASE given' >= given /\ wire' = wire
      BY <1>2, <2>1 DEF OutInv, Out!Next, Out!Put
  <2>2. CASE given' = given /\ Sent <= Sent'
    <3>1. wire' = Out!UpTo(Sent') BY <1>2 DEF OutInv, Number, Out!UpTo
    <3>2. Sent' \in Len(wire)..given BY <1>2, <2>2 DEF OutInv, Sent
    <3> QED BY <2>2, <3>1, <3>2 DEF Out!Next, Out!Take
  <2> QED BY <1>2, <2>1, <2>2 DEF OutMoves
<1>3. ASSUME Blocking PROVE Spec => OutIsFifo
  <2>1. OutInv /\ [Next]_vars => OutInv' /\ OutMoves BY <1>3, OutStep
  <2>2. OutInv /\ [Next]_vars => [Out!Next]_<<given, wire>> BY <1>2, <2>1
  <2> QED BY <1>1, <2>1, <2>2, BothStart, PTL DEF OutIsFifo, Out!Spec, Spec
<1> QED BY <1>3

\* How far buffers, wire and position in the handlers may be apart: a READ entry
\* is collected only with buffer_out_ empty, and read() holds what is not taken.
CloseInv ==
    /\ eof \in BOOLEAN /\ read_bytes \in Nat /\ replied \in Nat /\ replied <= given
    /\ ~reset =>
        /\ want_write <=> Sent < given
        /\ pc \in {"ready", "recv", "closed"} => replied <= Sent
    /\ pc \in {"idle", "ready"} => Received = received
    /\ pc = "recv" => read_bytes = received - Received
    /\ pc = "closed" /\ ~reset => eof /\ Received = arrived

LEMMA CloseInit == Init => CloseInv
<1> SUFFICES ASSUME Init PROVE CloseInv
  OBVIOUS
<1>1. /\ eof = FALSE /\ read_bytes = 0 /\ replied = 0 /\ given = 0 /\ want_write = FALSE
      /\ pc = "idle" /\ received = 0 /\ taken = <<>> /\ wire = <<>>
  BY DEF Init
<1>2. Received = 0 /\ Sent = 0
  BY <1>1 DEF Received, Sent
<1>3. eof \in BOOLEAN /\ ~want_write
  BY <1>1, Zenon
<1> QED
  BY <1>1, <1>2, <1>3 DEF CloseInv

\* Until a reset the text of buffer_out_ is as long as what is not sent.
LEMMA Pending ==
  ASSUME OutInv, ~reset
  PROVE  Len(buffer_out_.text) = given - Sent /\ (buffer_out_.text = <<>> <=> Sent = given)
<1>1. given - Sent \in Nat /\ Sent \in Nat
  BY DEF OutInv
<1>2. Number(Sent, given - Sent) \in Seq(Nat) /\ Len(Number(Sent, given - Sent)) = given - Sent
  BY <1>1, NumberIsSeq
<1>3. buffer_out_.text = Number(Sent, given - Sent)
  BY DEF OutInv
<1>4. Number(Sent, given - Sent) = <<>> <=> given - Sent = 0
  BY <1>2, EmptySeq
<1> QED
  BY <1>1, <1>2, <1>3, <1>4 DEF OutInv

\* A send leaves the descriptor watched for output.
LEMMA SendWatches ==
  ASSUME OutInv, CloseInv, NEW n \in 1..MaxOut, send(n), UNCHANGED <<wire, reset>>
  PROVE  given' = given + n /\ given' \in Nat /\ Sent' = Sent /\ (~reset => want_write' /\ Sent < given')
<1>1. n \in Nat \ {0} /\ given \in Nat
  BY BoundAssumption DEF OutInv
<1>2. given' = given + n /\ want_write' = (want_write \/ buffer_out_.text = <<>>)
  BY DEF send
<1>3. Sent' = Sent /\ Sent \in Nat /\ Sent <= given
  BY DEF Sent, OutInv
<1>4. ASSUME ~reset PROVE want_write'
  <2>1. want_write <=> Sent < given
    BY <1>4 DEF CloseInv
  <2>2. buffer_out_.text = <<>> <=> Sent = given
    BY <1>4, Pending
  <2>3. want_write \/ buffer_out_.text = <<>>
    <3>1. Sent < given \/ Sent = given
      BY <1>1, <1>3
    <3> QED
      BY <2>1, <2>2, <3>1, Zenon
  <2> QED
    BY <1>2, <2>3, Zenon
<1> QED
  BY <1>1, <1>2, <1>3, <1>4

\* The closing of a connection keeps to the order of reading and flushing.
LEMMA CloseStep == ASSUME Whole, Blocking, InInv, OutInv, CloseInv, [Next]_vars PROVE CloseInv'
<1>0. /\ InInv' /\ OutInv' /\ received \in Nat /\ arrived \in Nat /\ given \in Nat /\ Sent \in Nat
      /\ Received \in Nat /\ Received <= received /\ received <= arrived /\ Sent <= given
  BY InStep, OutStep DEF InInv, OutInv
<1>1. CASE Arrive
  BY <1>0, <1>1 DEF Arrive, CloseInv, Received, Sent, outVars
<1>2. CASE Shutdown
  BY <1>0, <1>2 DEF Shutdown, CloseInv, Received, Sent, outVars
<1>3. CASE Abort
  BY <1>0, <1>3 DEF Abort, CloseInv, Received, Sent, outVars
<1>4. CASE Collect
  BY <1>0, <1>4 DEF Collect, Readable, CloseInv, Received, Sent, inVars, outVars
<1>5. CASE BeginRead
  BY <1>0, <1>5 DEF BeginRead, CloseInv, Received, Sent, outVars
<1>6. CASE Recv
  <2> DEFINE n == IF Available < Chunk THEN Available ELSE Chunk
  <2>1. n \in Nat
    BY <1>0, <1>6, ChunkAssumption DEF Recv, Available
  <2>2. /\ received' = received + n /\ read_bytes' = read_bytes + n /\ pc = "recv" /\ pc' \in {"recv", "on_read"}
        /\ UNCHANGED <<arrived, eof, reset, taken, given, replied, wire, want_write>>
    BY <1>6 DEF Recv, outVars
  <2> HIDE DEF n
  <2>3. Received' = Received /\ Sent' = Sent
    BY <2>2 DEF Received, Sent
  <2> QED
    BY <1>0, <2>1, <2>2, <2>3 DEF CloseInv
<1>7. CASE RecvEof
  BY <1>0, <1>7 DEF RecvEof, Available, CloseInv, Received, Sent, inVars, outVars
<1>8. CASE RecvError
  BY <1>0, <1>8 DEF RecvError, CloseInv, Received, Sent, inVars, outVars
<1>9. CASE OnRead
  <2>1. pc = "on_read" /\ pc' = "idle" /\ UNCHANGED <<arrived, eof, reset, received, read_bytes>>
    BY <1>9 DEF OnRead
  <2>2. Received' = received'
    <3> DEFINE m == received - Received
    <3>1. m \in Nat /\ Received + m = received /\ m \in 0..m
      BY <1>0
    <3>2. Number(Received, m) \in Seq(Nat) /\ Len(Number(Received, m)) = m
      BY <1>0, <3>1, NumberIsSeq
    <3>3. buffer_in_.text = Number(Received, m)
      BY DEF InInv
    <3>4. taken' = taken \o SubSeq(Number(Received, m), 1, m)
      BY <1>9, <3>1, <3>2, <3>3 DEF OnRead
    <3>5. taken' = Number(0, received)
      <4>1. SubSeq(Number(Received, m), 1, m) = Number(Received, m)
        BY <1>0, <3>1, SplitNumber
      <4>2. Number(0, Received) \o Number(Received, m) = Number(0, Received + m)
        BY <1>0, <3>1, ExtendNumber
      <4> QED
        BY <3>1, <3>4, <4>1, <4>2 DEF InInv
    <3> QED
      BY <1>0, <2>1, <3>5, NumberIsSeq DEF Received
  <2>3. CASE UNCHANGED outVars
    BY <1>0, <2>1, <2>2, <2>3 DEF CloseInv, Sent, outVars
  <2>4. ASSUME NEW n \in 1..MaxOut, send(n), replied' = given', wire' = wire PROVE CloseInv'
    <3>1. given' \in Nat /\ Sent' = Sent /\ (~reset => want_write' /\ Sent < given')
      BY <2>1, <2>4, SendWatches
    <3> QED
      BY <2>1, <2>2, <2>4, <3>1 DEF CloseInv
  <2> QED
    BY <1>9, <2>3, <2>4 DEF OnRead
<1>10. CASE OtherSend
  <2>1. PICK n \in 1..MaxOut : send(n)
    BY <1>10 DEF OtherSend
  <2>2. /\ pc \in {"idle", "ready"} /\ pc' = pc
        /\ UNCHANGED <<arrived, eof, reset, received, read_bytes, taken, replied, wire>>
    BY <1>10 DEF OtherSend, inVars
  <2>3. given' = given + n /\ given' \in Nat /\ Sent' = Sent /\ (~reset => want_write' /\ Sent < given')
    BY <2>1, <2>2, SendWatches
  <2>4. n \in Nat /\ Received' = Received
    BY <2>2, BoundAssumption DEF Received
  <2> QED
    BY <1>0, <2>2, <2>3, <2>4 DEF CloseInv
<1>11. CASE do_handle_write
  <2>1. /\ pc = "idle" /\ pc' = "idle" /\ reset' \in {reset, TRUE}
        /\ want_write' = (buffer_out_'.text # <<>>)
        /\ UNCHANGED <<arrived, eof, received, read_bytes, taken, given, replied>>
    BY <1>11, Zenon DEF do_handle_write
  <2>2. Received' = Received
    BY <2>1 DEF Received
  <2>3. ~reset' => (want_write' <=> Sent' < given')
    <3>1. SUFFICES ASSUME ~reset' PROVE want_write' <=> Sent' < given'
      OBVIOUS
    <3>2. buffer_out_'.text = <<>> <=> Sent' = given'
      <4>1. given' - Sent' \in Nat /\ Sent' \in Nat
        BY <1>0 DEF OutInv, Sent
      <4>2. Number(Sent', given' - Sent') \in Seq(Nat) /\ Len(Number(Sent', given' - Sent')) = given' - Sent'
        BY <4>1, NumberIsSeq
      <4>3. buffer_out_'.text = Number(Sent', given' - Sent')
        BY <1>0, <3>1 DEF OutInv, Sent
      <4>4. Number(Sent', given' - Sent') = <<>> <=> given' - Sent' = 0
        BY <4>2, EmptySeq
      <4>5. given' - Sent' = 0 <=> Sent' = given'
        BY <1>0 DEF OutInv, Sent
      <4> QED
        BY <4>3, <4>4, <4>5
    <3>3. Sent' \in Nat /\ given' \in Nat /\ Sent' <= given'
      BY <1>0 DEF OutInv, Sent
    <3>4. want_write' <=> buffer_out_'.text # <<>>
      BY <2>1, Zenon
    <3>5. Sent' = given' <=> ~(Sent' < given')
      BY <3>3
    <3> QED
      BY <3>2, <3>4, <3>5, Zenon
  <2> QED
    BY <1>0, <2>1, <2>2, <2>3 DEF CloseInv
<1>12. CASE do_handle_error
  BY <1>0, <1>12 DEF do_handle_error, CloseInv, Received, Sent, inVars, outVars
<1>13. CASE UNCHANGED vars
  BY <1>0, <1>13 DEF vars, CloseInv, Received, Sent, inVars, outVars
<1> QED
  BY <1>1, <1>2, <1>3, <1>4, <1>5, <1>6, <1>7, <1>8, <1>9, <1>10, <1>11, <1>12, <1>13 DEF Next, Handler

\* An orderly close comes after the last byte of the client was taken and the
\* last reply to it was sent, for any chunk size and any number of bytes.
THEOREM OrderlyClose == Whole /\ Blocking /\ Spec => []CloseLosesNothing
<1>1. ASSUME InInv, OutInv, CloseInv PROVE CloseLosesNothing
  <2>1. Received = Len(taken) /\ Sent = Len(wire)
    BY DEF Received, Sent
  <2> QED
    BY <1>1, <2>1 DEF CloseInv, InInv, OutInv, CloseLosesNothing
<1>2. ASSUME Whole, Blocking PROVE Spec => []CloseLosesNothing
  <2>1. InInv /\ OutInv /\ CloseInv /\ [Next]_vars => (InInv /\ OutInv /\ CloseInv)'
    BY <1>2, InStep, OutStep, CloseStep
  <2> QED
    BY <1>1, <2>1, BothStart, CloseInit, PTL DEF Spec
<1> QED
  BY <1>2
=============================================================================
