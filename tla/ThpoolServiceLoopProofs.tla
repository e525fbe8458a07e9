------------------------ MODULE ThpoolServiceLoopProofs ------------------------
(***************************************************************************)
(* Proofs about ServiceLoopThread and ThpoolServiceLoop, for any set of     *)
(* objects and any widths of int and size_t: start_loop returns a running  *)
(* loop and the destructor leaves no thread behind, although the mutex      *)
(* excludes nobody; safety of the pool when the base loop is stopped before *)
(* the pool is closed; the turns of get_loop in whatever order they are.    *)
(***************************************************************************)
EXTENDS ThpoolServiceLoop, SequenceTheorems, Remainders

Destroying == {"flagged", "tested", "joining", "joined"}
Published == {"notify", "unlock", "check", "poll", "returned", "closed", "exited"}

\* How far the two threads of an object may be apart.
InStep(t) ==
    /\ owner[t] = "idle" <=> thread[t] = "none"
    /\ loop_[t] <=> thread[t] \in Published
    /\ owner[t] \in {"started"} \cup Destroying => loop_[t]
    /\ quit_[t] <=> owner[t] \in Destroying
    /\ thread[t] \in {"returned", "closed", "exited"} => quit_[t]
    /\ owner[t] = "joined" => thread[t] = "exited"
    /\ owner[t] \in {"joining", "joined"} => eventfd[t] \in {0, 1}
    /\ owner[t] \notin {"joining", "joined"} => eventfd[t] = 0

ThreadIInv == ThreadTypeOK /\ \A t \in Threads : InStep(t)

\* Every variable of the objects keeps its type.
THEOREM ThreadTypes == ASSUME ThreadTypeOK, ThreadNext PROVE ThreadTypeOK'
<1> PICK t \in Threads :
        \/ start_loop(t) \/ QuitFlag(t) \/ OwnerCall(t) \/ SpuriousWakeup(t) \/ thread_routine(t)
    BY DEF ThreadNext, ThreadStep
<1> USE DEF ThreadTypeOK, OwnerSteps, ThreadSteps, OwnerMoves, ThreadMoves
<1>1. CASE start_loop(t) BY <1>1 DEF start_loop
<1>2. CASE QuitFlag(t) BY <1>2 DEF QuitFlag
<1>3. CASE OwnerCall(t)
  <2>1. CASE TestLoop(t) BY <2>1 DEF TestLoop
  <2>2. CASE Wait(t) BY <2>2 DEF Wait
  <2>3. CASE Relock(t) BY <2>3 DEF Relock
  <2>4. CASE QuitTest(t) BY <2>4 DEF QuitTest
  <2>5. CASE QuitWrite(t)
    <3>1. crash' \in {"none", "write_some"} BY <2>5, Zenon DEF QuitWrite
    <3>2. eventfd' \in [Threads -> Nat] BY <2>5 DEF QuitWrite
    <3> QED BY <2>5, <3>1, <3>2 DEF QuitWrite
  <2>6. CASE Join(t) BY <2>6 DEF Join
  <2> QED BY <1>3, <2>1, <2>2, <2>3, <2>4, <2>5, <2>6 DEF OwnerCall
<1>4. CASE SpuriousWakeup(t) BY <1>4 DEF SpuriousWakeup
<1>5. CASE thread_routine(t)
  <2>1. CASE Construct(t) \/ Lock(t) \/ Publish(t) BY <2>1 DEF Construct, Lock, Publish
  <2>2. CASE Notify(t) \/ Unlock(t) \/ RunCheck(t) BY <2>2 DEF Notify, Unlock, RunCheck
  <2>3. CASE Turn(t) \/ CloseWakeup(t) \/ Exit(t) BY <2>3 DEF Turn, CloseWakeup, Exit
  <2> QED BY <1>5, <2>1, <2>2, <2>3 DEF thread_routine
<1> QED BY <1>1, <1>2, <1>3, <1>4, <1>5

\* No step of either thread takes an object out of step.
THEOREM ThreadsInStep == ASSUME ThreadIInv, ThreadNext PROVE ThreadIInv'
<1>0. ThreadTypeOK' BY ThreadTypes DEF ThreadIInv
<1> SUFFICES ASSUME NEW u \in Threads PROVE InStep(u)' BY <1>0 DEF ThreadIInv
<1>u. InStep(u) BY DEF ThreadIInv
<1> PICK t \in Threads :
        \/ start_loop(t) \/ QuitFlag(t) \/ OwnerCall(t) \/ SpuriousWakeup(t) \/ thread_routine(t)
    BY DEF ThreadNext, ThreadStep
<1>t. InStep(t) BY DEF ThreadIInv
<1> USE <1>u, <1>t DEF ThreadIInv, ThreadTypeOK, InStep, Destroying, Published,
                       OwnerMoves, ThreadMoves
<1>1. CASE start_loop(t) BY <1>1 DEF start_loop
<1>2. CASE QuitFlag(t) BY <1>2 DEF QuitFlag
<1>3. CASE OwnerCall(t)
  <2>1. CASE TestLoop(t) BY <2>1 DEF TestLoop
  <2>2. CASE Wait(t) BY <2>2 DEF Wait
  <2>3. CASE Relock(t) BY <2>3 DEF Relock
  <2>4. CASE QuitTest(t) BY <2>4 DEF QuitTest
  <2>5. CASE QuitWrite(t)
    <3>1. eventfd'[t] \in {0, 1} /\ (u # t => eventfd'[u] = eventfd[u])
        BY <2>5 DEF QuitWrite
    <3> QED BY <2>5, <3>1 DEF QuitWrite
  <2>6. CASE Join(t) BY <2>6 DEF Join
  <2> QED BY <1>3, <2>1, <2>2, <2>3, <2>4, <2>5, <2>6 DEF OwnerCall
<1>4. CASE SpuriousWakeup(t) BY <1>4 DEF SpuriousWakeup
<1>5. CASE thread_routine(t)
  <2>1. CASE Construct(t) \/ Lock(t) \/ Publish(t) BY <2>1 DEF Construct, Lock, Publish
  <2>2. CASE Notify(t) \/ Unlock(t) \/ RunCheck(t) BY <2>2 DEF Notify, Unlock, RunCheck
  <2>3. CASE Turn(t) \/ CloseWakeup(t) \/ Exit(t) BY <2>3 DEF Turn, CloseWakeup, Exit
  <2> QED BY <1>5, <2>1, <2>2, <2>3 DEF thread_routine
<1> QED BY <1>1, <1>2, <1>3, <1>4, <1>5

\* Nobody has started yet.
THEOREM ThreadsStart == ThreadInit => ThreadIInv
BY DEF ThreadInit, ThreadIInv, ThreadTypeOK, InStep, OwnerSteps, ThreadSteps, Destroying, Published

\* The inductive invariant of the objects.
THEOREM ThreadInvariance == ThreadSpec => []ThreadIInv
<1>1. ThreadIInv /\ UNCHANGED threadVars => ThreadIInv'
    BY DEF ThreadIInv, ThreadTypeOK, InStep, threadVars
<1> QED BY <1>1, ThreadsStart, ThreadsInStep, PTL DEF ThreadSpec

\* What the invariant says to the owner of an object.
THEOREM ThreadSafetyFacts == ThreadIInv => StartedLoopRuns /\ JoinedIsGone
BY DEF ThreadIInv, InStep, ThreadTypeOK, OwnerSteps, ThreadSteps, StartedLoopRuns, JoinedIsGone,
       Destroying, Published

\* The variables of every object keep their types.
THEOREM ThreadTypeCorrect == ThreadSpec => []ThreadTypeOK
BY ThreadInvariance, PTL DEF ThreadIInv

\* start_loop returns a loop that is published and runs until it is quit.
THEOREM StartReturnsRunningLoop == ThreadSpec => []StartedLoopRuns
BY ThreadInvariance, ThreadSafetyFacts, PTL

\* The destructor ends only after the thread and its loop are gone.
THEOREM JoinWaitsForThread == ThreadSpec => []JoinedIsGone
BY ThreadInvariance, ThreadSafetyFacts, PTL

-----------------------------------------------------------------------------
(* The pool.                                                                *)

\* The two vectors hold the same objects, the last one still starting.
VectorsAgree ==
    /\ Len(loop_threads_) = Len(ev_loops_) + (IF caller = "starting" THEN 1 ELSE 0)
    /\ \A i \in 1..Len(ev_loops_) : ev_loops_[i] = loop_threads_[i]
    /\ caller # "closed" => ev_size = Len(ev_loops_)

\* Until close() begins the pushed loops are started and not quit.
PushedAreStarted ==
    caller \in {"opening", "starting", "serving"} =>
        \A i \in 1..Len(ev_loops_) : owner[ev_loops_[i]] = "started"

\* The base loop's thread uses the vectors only while nobody changes them.
BaseIsServed ==
    /\ base \in {"loop", "size", "at", "add"} => caller = "serving"
    /\ base \in {"size", "at"} => ev_size > 0
    /\ base = "at" => loop_count = ev_size
    /\ base = "add" => picked <= ev_size
    /\ base # "divided"

\* Every object is in the vector that close() walks, joined behind its iterator.
CloseIsThorough ==
    /\ \A t \in Threads : owner[t] # "idle" => \E i \in 1..Len(loop_threads_) : loop_threads_[i] = t
    /\ caller \in {"opening", "starting", "serving"} => it = 1
    /\ caller \in {"closing", "closed"} =>
        \A i \in 1..Len(loop_threads_) : i < it => owner[loop_threads_[i]] = "joined"
    /\ caller = "closed" => it > Len(loop_threads_)

PoolPart == VectorsAgree /\ PushedAreStarted /\ BaseIsServed /\ CloseIsThorough

PoolIInv == PoolTyped /\ ThreadIInv /\ PoolPart

\* A step of one object's threads, other than the calls the pool makes.
ThreadWork(t) == OwnerCall(t) \/ SpuriousWakeup(t) \/ thread_routine(t)

\* Such a step neither begins nor ends the life of a started object.
LEMMA WorkKeepsOwners ==
    ASSUME ThreadTypeOK, NEW t \in Threads, ThreadWork(t), NEW u \in Threads
    PROVE  /\ owner[u] = "started" => owner'[u] = "started"
           /\ owner[u] = "joined" => owner'[u] = "joined"
           /\ owner[u] = "idle" => owner'[u] = "idle"
<1> USE DEF ThreadTypeOK, OwnerMoves
<1>1. CASE OwnerCall(t)
    BY <1>1 DEF OwnerCall, TestLoop, Wait, Relock, QuitTest, QuitWrite, Join
<1>2. CASE SpuriousWakeup(t) BY <1>2 DEF SpuriousWakeup
<1>3. CASE thread_routine(t)
    BY <1>3 DEF thread_routine, Construct, Lock, Publish, Notify, Unlock, RunCheck, Turn,
                CloseWakeup, Exit
<1> QED BY <1>1, <1>2, <1>3 DEF ThreadWork

\* What a step of the pool does to the objects is a step of ServiceLoopThread.
LEMMA PoolThreads == ASSUME PoolIInv, PoolNext PROVE ThreadNext \/ UNCHANGED threadVars
<1> USE DEF PoolNext, Alive, ThreadNext, ThreadStep
<1>1. CASE NewThread BY <1>1 DEF NewThread
<1>2. CASE Delete
  <2>1. loop_threads_[it] \in Threads BY <1>2 DEF Delete, PoolIInv, PoolTyped
  <2> QED BY <1>2, <2>1 DEF Delete
<1>3. CASE \E t \in Threads : ThreadWork(t) BY <1>3 DEF ThreadWork
<1>4. CASE PushLoop \/ RunBase \/ QuitBase \/ close \/ Advance \/ Clear
    BY <1>4 DEF PushLoop, RunBase, QuitBase, close, Advance, Clear
<1>5. CASE BaseStep
    BY <1>5 DEF BaseStep, get_loop, TestEmpty, ReadSize, Pick, AddRun, StopBase
<1> QED BY <1>1, <1>2, <1>3, <1>4, <1>5 DEF PoolStep, ClosingStep, ThreadWork

\* Every variable of the pool keeps its type.
LEMMA PoolTypes == ASSUME PoolTyped, PoolIInv, PoolNext PROVE PoolTyped'
<1> USE WidthAssumption DEF PoolTyped, BaseSteps
<1>1. CASE NewThread BY <1>1 DEF NewThread, baseVars
<1>2. CASE PushLoop
  <2>1. Len(loop_threads_) \in 1..Len(loop_threads_)
      BY <1>2 DEF PushLoop, PoolIInv, PoolPart, VectorsAgree
  <2>2. /\ ev_loops_' \in Seq(Threads) /\ ev_size' \in Nat
        /\ caller' \in {"opening", "starting", "serving", "closing", "closed"}
        /\ UNCHANGED <<thread_num_, loop_threads_, it, baseVars>>
      BY <1>2, <2>1 DEF PushLoop
  <2> QED BY <2>2 DEF baseVars
<1>3. CASE RunBase \/ QuitBase \/ close
  <2>1. CASE RunBase BY <2>1 DEF RunBase, poolVars, baseVars
  <2>2. CASE QuitBase BY <2>2 DEF QuitBase, poolVars, baseVars
  <2>3. CASE close BY <2>3 DEF close, poolVars, baseVars
  <2> QED BY <1>3, <2>1, <2>2, <2>3
<1>4. CASE ClosingStep
  <2>1. CASE Delete BY <2>1 DEF Delete, poolVars, baseVars
  <2>2. CASE Advance BY <2>2 DEF Advance, baseVars
  <2>3. CASE Clear BY <2>3 DEF Clear, baseVars
  <2> QED BY <1>4, <2>1, <2>2, <2>3 DEF ClosingStep
<1>5. CASE TestEmpty \/ ReadSize \/ AddRun \/ StopBase
    BY <1>5 DEF TestEmpty, ReadSize, AddRun, StopBase, poolVars
<1>6. CASE Pick
  <2>1. Unsigned(index) \in Nat BY DEF Unsigned
  <2>2. loop_count # 0 => (Unsigned(index) % loop_count) + 1 \in Nat
      BY <2>1
  <2>3. NextInt(index) \in (-IntMax - 1)..IntMax BY DEF NextInt
  <2>4. picked' \in Nat /\ base' \in BaseSteps BY <1>6, <2>2 DEF Pick
  <2> QED BY <1>6, <2>3, <2>4 DEF Pick, poolVars
<1>7. CASE \E t \in Threads : ThreadWork(t) /\ UNCHANGED <<poolVars, baseVars>>
    BY <1>7 DEF poolVars, baseVars
<1> QED BY <1>1, <1>2, <1>3, <1>4, <1>5, <1>6, <1>7
        DEF PoolNext, PoolStep, BaseStep, get_loop, ThreadWork

\* The owner's steps keep the pool's part of the invariant.
LEMMA OwnerKeepsPool ==
    ASSUME PoolIInv, QuitFirst,
           NewThread \/ PushLoop \/ RunBase \/ QuitBase \/ close \/ ClosingStep
    PROVE PoolPart'
<1>0. PoolTyped /\ ThreadTypeOK /\ VectorsAgree /\ PushedAreStarted /\ BaseIsServed /\ CloseIsThorough
    BY DEF PoolIInv, PoolPart, ThreadIInv
<1>d. \A t \in Threads : owner[t] = "idle" => thread[t] = "none"
    BY DEF PoolIInv, ThreadIInv, InStep
<1> DEFINE n == Len(loop_threads_)  m == Len(ev_loops_)
<1>n. n \in Nat /\ m \in Nat BY <1>0 DEF PoolTyped
<1>1. CASE NewThread
  <2> PICK t \in Threads : start_loop(t) /\ loop_threads_' = Append(loop_threads_, t)
      BY <1>1 DEF NewThread
  <2>1. /\ owner[t] = "idle" /\ owner' = [owner EXCEPT ![t] = "check"]
        /\ caller = "opening" /\ caller' = "starting" /\ UNCHANGED <<ev_loops_, ev_size, it, baseVars>>
      BY <1>1 DEF NewThread, start_loop, OwnerMoves
  <2>2. Len(loop_threads_') = n + 1 /\ loop_threads_'[n + 1] = t
        /\ \A i \in 1..n : loop_threads_'[i] = loop_threads_[i]
      BY <1>0 DEF PoolTyped
  <2>3. VectorsAgree' BY <1>0, <1>n, <2>1, <2>2 DEF VectorsAgree
  <2>4. PushedAreStarted'
    <3>1. \A i \in 1..m : ev_loops_[i] \in Threads BY <1>0 DEF PoolTyped
    <3> QED BY <1>0, <2>1, <3>1 DEF PushedAreStarted, ThreadTypeOK
  <2>5. BaseIsServed' BY <1>0, <2>1 DEF BaseIsServed, baseVars
  <2>6. CloseIsThorough'
    <3>1. \A u \in Threads : owner'[u] # "idle" => u = t \/ owner[u] # "idle"
        BY <1>0, <2>1 DEF ThreadTypeOK
    <3> QED BY <1>0, <1>n, <2>1, <2>2, <3>1 DEF CloseIsThorough
  <2> QED BY <2>3, <2>4, <2>5, <2>6 DEF PoolPart
<1>2. CASE PushLoop
  <2>1. /\ caller = "starting" /\ caller' = "opening" /\ owner[loop_threads_[n]] = "started"
        /\ ev_loops_' = Append(ev_loops_, loop_threads_[n]) /\ ev_size' = ev_size + 1
        /\ UNCHANGED <<owner, loop_threads_, it, baseVars>>
      BY <1>2 DEF PushLoop, threadVars
  <2>2. n = m + 1 /\ loop_threads_[n] \in Threads
      BY <1>0, <1>n, <2>1 DEF VectorsAgree, PoolTyped
  <2>3. Len(ev_loops_') = m + 1 /\ ev_loops_'[m + 1] = loop_threads_[n]
        /\ \A i \in 1..m : ev_loops_'[i] = ev_loops_[i]
      BY <1>0, <2>1, <2>2 DEF PoolTyped
  <2>4. VectorsAgree' BY <1>0, <1>n, <2>1, <2>2, <2>3 DEF VectorsAgree
  <2>5. PushedAreStarted' BY <1>0, <1>n, <2>1, <2>2, <2>3 DEF PushedAreStarted
  <2>6. BaseIsServed' BY <1>0, <2>1 DEF BaseIsServed, baseVars, PoolTyped, BaseSteps
  <2>7. CloseIsThorough' BY <1>0, <2>1 DEF CloseIsThorough
  <2> QED BY <2>4, <2>5, <2>6, <2>7 DEF PoolPart
<1>3. CASE RunBase
    BY <1>0, <1>3 DEF RunBase, PoolPart, VectorsAgree, PushedAreStarted, BaseIsServed,
                      CloseIsThorough, threadVars
<1>4. CASE QuitBase
    BY <1>0, <1>4 DEF QuitBase, PoolPart, VectorsAgree, PushedAreStarted, BaseIsServed,
                      CloseIsThorough, threadVars, poolVars
<1>5. CASE close
  <2>1. /\ caller = "serving" /\ caller' = "closing" /\ base = "stopped"
        /\ UNCHANGED <<owner, loop_threads_, ev_loops_, ev_size, it, baseVars>>
      BY <1>5 DEF close, threadVars
  <2>2. it = 1 BY <2>1, <1>0 DEF CloseIsThorough
  <2> QED BY <1>0, <2>1, <2>2 DEF PoolPart, VectorsAgree, PushedAreStarted, BaseIsServed,
                      CloseIsThorough, baseVars
<1>6. CASE Delete
  <2> DEFINE t == loop_threads_[it]
  <2>1. t \in Threads BY <1>0, <1>6 DEF Delete, PoolTyped
  <2>2. /\ caller = "closing" /\ owner[t] = "started" /\ owner' = [owner EXCEPT ![t] = "flagged"]
        /\ UNCHANGED <<poolVars, baseVars>>
      BY <1>6 DEF Delete, QuitFlag, OwnerMoves
  <2>3. VectorsAgree' /\ PushedAreStarted' /\ BaseIsServed'
      BY <1>0, <2>2 DEF VectorsAgree, PushedAreStarted, BaseIsServed, poolVars, baseVars
  <2>4. CloseIsThorough'
    <3>1. \A u \in Threads : (owner'[u] = "idle" <=> owner[u] = "idle")
                             /\ (owner[u] = "joined" => owner'[u] = "joined")
        BY <1>0, <2>1, <2>2 DEF ThreadTypeOK
    <3>2. \A i \in 1..n : loop_threads_[i] \in Threads BY <1>0 DEF PoolTyped
    <3> QED BY <1>0, <2>2, <3>1, <3>2 DEF CloseIsThorough, poolVars
  <2> QED BY <2>3, <2>4 DEF PoolPart
<1>7. CASE Advance
  <2>1. /\ caller = "closing" /\ it <= n /\ it' = it + 1 /\ owner[loop_threads_[it]] = "joined"
        /\ UNCHANGED <<owner, caller, loop_threads_, ev_loops_, ev_size, baseVars>>
      BY <1>7 DEF Advance, threadVars
  <2>2. VectorsAgree' /\ PushedAreStarted' /\ BaseIsServed'
      BY <1>0, <2>1 DEF VectorsAgree, PushedAreStarted, BaseIsServed, baseVars
  <2>3. CloseIsThorough' BY <1>0, <1>n, <2>1 DEF CloseIsThorough, PoolTyped
  <2> QED BY <2>2, <2>3 DEF PoolPart
<1>8. CASE Clear
  <2>1. /\ caller = "closing" /\ caller' = "closed" /\ it > n
        /\ UNCHANGED <<owner, loop_threads_, ev_loops_, it, baseVars>>
      BY <1>8 DEF Clear, threadVars
  <2> QED BY <1>0, <2>1 DEF PoolPart, VectorsAgree, PushedAreStarted, BaseIsServed, CloseIsThorough,
                      baseVars
<1> QED BY <1>1, <1>2, <1>3, <1>4, <1>5, <1>6, <1>7, <1>8 DEF ClosingStep

\* get_loop and the objects' own threads keep it too.
LEMMA LoopsKeepPool ==
    ASSUME PoolIInv,
           BaseStep \/ \E t \in Threads : ThreadWork(t) /\ UNCHANGED <<poolVars, baseVars>>
    PROVE PoolPart'
<1>0. PoolTyped /\ ThreadTypeOK /\ VectorsAgree /\ PushedAreStarted /\ BaseIsServed /\ CloseIsThorough
    BY DEF PoolIInv, PoolPart, ThreadIInv
<1>1. CASE BaseStep
  <2>1. UNCHANGED <<owner, poolVars>>
      BY <1>1 DEF BaseStep, get_loop, TestEmpty, ReadSize, Pick, AddRun, StopBase, threadVars
  <2>2. VectorsAgree' /\ PushedAreStarted' /\ CloseIsThorough'
      BY <1>0, <2>1 DEF VectorsAgree, PushedAreStarted, CloseIsThorough, poolVars
  <2>3. BaseIsServed'
    <3>1. CASE TestEmpty
        BY <1>0, <2>1, <3>1 DEF TestEmpty, BaseIsServed, poolVars, PoolTyped
    <3>2. CASE Pick
      <4>1. Unsigned(index) \in Nat BY <1>0, WidthAssumption DEF Unsigned, PoolTyped
      <4>2. base = "at" /\ loop_count = ev_size /\ ev_size \in Nat /\ ev_size > 0
          BY <1>0, <3>2 DEF Pick, BaseIsServed, PoolTyped
      <4>3. (Unsigned(index) % loop_count) + 1 <= loop_count BY <4>1, <4>2
      <4> QED BY <1>0, <2>1, <3>2, <4>2, <4>3 DEF Pick, BaseIsServed, poolVars
    <3>3. CASE ReadSize \/ AddRun \/ StopBase
        BY <1>0, <2>1, <3>3 DEF ReadSize, AddRun, StopBase, BaseIsServed, poolVars
    <3> QED BY <1>1, <3>1, <3>2, <3>3 DEF BaseStep, get_loop
  <2> QED BY <2>2, <2>3 DEF PoolPart
<1>2. CASE \E t \in Threads : ThreadWork(t) /\ UNCHANGED <<poolVars, baseVars>>
  <2>1. \A u \in Threads : /\ owner[u] = "started" => owner'[u] = "started"
                           /\ owner[u] = "joined" => owner'[u] = "joined"
                           /\ owner[u] = "idle" => owner'[u] = "idle"
      BY <1>0, <1>2, WorkKeepsOwners
  <2>2. UNCHANGED <<poolVars, baseVars>> BY <1>2
  <2>3. /\ \A i \in 1..Len(ev_loops_) : ev_loops_[i] \in Threads
        /\ \A i \in 1..Len(loop_threads_) : loop_threads_[i] \in Threads
      BY <1>0 DEF PoolTyped
  <2>4. VectorsAgree' /\ BaseIsServed'
      BY <1>0, <2>2 DEF VectorsAgree, BaseIsServed, poolVars, baseVars
  <2>5. PushedAreStarted' BY <1>0, <2>1, <2>2, <2>3 DEF PushedAreStarted, poolVars
  <2>6. CloseIsThorough' BY <1>0, <2>1, <2>2, <2>3 DEF CloseIsThorough, poolVars
  <2> QED BY <2>4, <2>5, <2>6 DEF PoolPart
<1> QED BY <1>1, <1>2

LEMMA PoolIStart == ASSUME QuitFirst, PoolInit PROVE PoolIInv
<1>1. ThreadIInv BY ThreadsStart DEF PoolInit
<1>2. /\ loop_threads_ = <<>> /\ ev_loops_ = <<>> /\ ev_size = 0 /\ it = 1 /\ index = 0
      /\ caller = "opening" /\ base = "none" /\ \A t \in Threads : owner[t] = "idle"
    BY DEF PoolInit, ThreadInit
<1>3. PoolTyped
  <2>1. 0 \in (-IntMax - 1)..IntMax BY WidthAssumption
  <2>2. loop_threads_ \in Seq(Threads) /\ ev_loops_ \in Seq(Threads) BY <1>2
  <2>3. thread_num_ \in 0..Cardinality(Threads) /\ base_quit \in BOOLEAN
        /\ loop_count = 0 /\ picked = 0
      BY DEF PoolInit
  <2> QED BY <1>2, <2>1, <2>2, <2>3 DEF PoolTyped, BaseSteps
<1>4. PoolPart
    BY <1>2 DEF PoolPart, VectorsAgree, PushedAreStarted, BaseIsServed, CloseIsThorough
<1> QED BY <1>1, <1>3, <1>4 DEF PoolIInv

LEMMA PoolIStep == ASSUME QuitFirst, PoolIInv, [PoolNext]_vars PROVE PoolIInv'
<1>1. CASE PoolNext
  <2>1. PoolTyped' BY <1>1, PoolTypes DEF PoolIInv
  <2>2. ThreadIInv'
    <3>1. CASE ThreadNext BY <3>1, ThreadsInStep DEF PoolIInv
    <3>2. CASE UNCHANGED threadVars
        BY <3>2 DEF PoolIInv, ThreadIInv, ThreadTypeOK, InStep, threadVars
    <3> QED BY <1>1, <3>1, <3>2, PoolThreads
  <2>3. PoolPart' BY <1>1, OwnerKeepsPool, LoopsKeepPool DEF PoolNext, PoolStep, ThreadWork
  <2> QED BY <2>1, <2>2, <2>3 DEF PoolIInv
<1>2. CASE UNCHANGED vars
  <2>1. UNCHANGED <<threadVars, poolVars, baseVars>> BY <1>2 DEF vars
  <2>2. ThreadIInv' BY <2>1 DEF PoolIInv, ThreadIInv, ThreadTypeOK, InStep, threadVars
  <2>3. PoolTyped' BY <2>1 DEF PoolIInv, PoolTyped, poolVars, baseVars
  <2>4. PoolPart'
      BY <2>1 DEF PoolIInv, PoolPart, VectorsAgree, PushedAreStarted, BaseIsServed,
                        CloseIsThorough, threadVars, poolVars, baseVars
  <2> QED BY <2>2, <2>3, <2>4 DEF PoolIInv
<1> QED BY <1>1, <1>2

\* The inductive invariant of a pool whose base loop is stopped first.
THEOREM PoolInvariance == QuitFirst /\ PoolSpec => []PoolIInv
<1>1. ASSUME QuitFirst PROVE PoolSpec => []PoolIInv
    BY <1>1, PoolIStart, PoolIStep, PTL DEF PoolSpec
<1> QED BY <1>1

\* Every variable of the threads and of the pool keeps its type.
THEOREM PoolTypeCorrect == QuitFirst /\ PoolSpec => []PoolTypeOK
<1>1. PoolIInv => PoolTypeOK BY DEF PoolIInv, ThreadIInv, PoolTypeOK
<1> QED BY <1>1, PoolInvariance, PTL

\* get_loop returns a published, unquit, running loop whenever its caller uses it.
THEOREM GetLoopReturnsRunning == QuitFirst /\ PoolSpec => []PickedLoopRuns
<1>1. ASSUME PoolIInv PROVE PickedLoopRuns
  <2> SUFFICES ASSUME base = "add", picked > 0
               PROVE /\ picked <= Len(ev_loops_)
                     /\ loop_[ev_loops_[picked]] /\ ~quit_[ev_loops_[picked]]
                     /\ thread[ev_loops_[picked]] \in {"notify", "unlock", "check", "poll"}
      BY <1>1 DEF PickedLoopRuns, PoolIInv, PoolPart, BaseIsServed
  <2>1. picked \in 1..Len(ev_loops_) /\ ev_loops_[picked] \in Threads
      BY <1>1 DEF PoolIInv, PoolPart, BaseIsServed, VectorsAgree, PoolTyped
  <2>2. owner[ev_loops_[picked]] = "started"
      BY <1>1, <2>1 DEF PoolIInv, PoolPart, BaseIsServed, PushedAreStarted
  <2>3. InStep(ev_loops_[picked]) BY <1>1, <2>1 DEF PoolIInv, ThreadIInv
  <2> QED BY <2>1, <2>2, <2>3 DEF InStep, Published, Destroying
<1> QED BY <1>1, PoolInvariance, PTL

\* close() ends only when every thread the pool made is gone.
THEOREM CloseLeavesNoThread == QuitFirst /\ PoolSpec => []ClosedPoolIsGone
<1>1. ASSUME PoolIInv PROVE ClosedPoolIsGone
  <2> SUFFICES ASSUME caller = "closed", NEW t \in Threads
               PROVE thread[t] \in {"none", "exited"}
      BY DEF ClosedPoolIsGone
  <2>1. owner[t] = "idle" \/ owner[t] = "joined"
      BY <1>1 DEF PoolIInv, PoolPart, CloseIsThorough, PoolTyped
  <2> QED BY <1>1, <2>1 DEF PoolIInv, ThreadIInv, InStep
<1> QED BY <1>1, PoolInvariance, PTL

-----------------------------------------------------------------------------
(* Round robin, whether or not the base loop is stopped first.              *)

Ints == (-IntMax - 1)..IntMax

\* The index that follows i picks the loop that follows, also at its two ends.
LEMMA NextPick ==
    ASSUME NEW n \in Nat, EvenSize(n), NEW i \in Ints
    PROVE  Unsigned(NextInt(i)) % n = ((Unsigned(i) % n) + 1) % n
<1> USE WidthAssumption
<1>0. n \in Nat \ {0} BY DEF EvenSize
<1>1. Unsigned(i) \in Nat BY DEF Unsigned, Ints
<1>2. (Unsigned(i) + 1) % n = ((Unsigned(i) % n) + 1) % n BY <1>0, <1>1, ModNext
<1>3. CASE i # IntMax /\ i # -1
  <2>1. Unsigned(NextInt(i)) = Unsigned(i) + 1 BY <1>3 DEF Unsigned, NextInt, Ints
  <2> QED BY <1>2, <2>1
<1>4. CASE i = -1
  <2>1. Unsigned(NextInt(i)) = 0 /\ Unsigned(i) + 1 = SizeMod BY <1>4 DEF Unsigned, NextInt
  <2>2. 0 % n = 0 BY <1>0
  <2> QED BY <1>2, <2>1, <2>2 DEF EvenSize
<1>5. CASE i = IntMax
  <2> DEFINE m == IntMax + 1
  <2>1. Unsigned(NextInt(i)) = SizeMod - m /\ Unsigned(i) + 1 = m /\ m \in Nat
      BY <1>5 DEF Unsigned, NextInt
  <2>2. PICK j \in Nat : 2 * IntMax + 2 = n * j
      BY <1>0, Multiple, 2 * IntMax + 2 \in Nat DEF EvenSize
  <2>3. PICK k \in Nat : SizeMod = n * k BY <1>0, Multiple DEF EvenSize
  <2>4. m + m = 2 * IntMax + 2 OBVIOUS
  <2> HIDE DEF m
  <2>5. k >= j
    <3> SUFFICES ASSUME k < j PROVE FALSE BY <2>2, <2>3
    <3>1. PICK d \in Nat \ {0} : j = k + d BY <2>2, <2>3, j - k \in Nat \ {0}
    <3>2. n * j = n * k + n * d BY <1>0, <2>3, <3>1
    <3>3. n * d >= n /\ n * d \in Nat /\ n * k \in Nat BY <1>0, <2>3, MultipleIsLarge
    <3> QED BY <1>0, <2>2, <2>3, <3>2, <3>3
  <2>6. PICK d \in Nat : k = j + d BY <2>2, <2>3, <2>5, k - j \in Nat
  <2>7. n * k = n * j + n * d BY <1>0, <2>2, <2>6
  <2>8. SizeMod - m = n * d + m
    <3>1. n * d \in Nat BY <1>0
    <3> QED BY <2>1, <2>2, <2>3, <2>4, <2>7, <3>1
  <2>9. (n * d + m) % n = m % n BY <1>0, <2>1, ModShift
  <2> QED BY <1>2, <2>1, <2>8, <2>9
<1> QED BY <1>3, <1>4, <1>5

\* What get_loop has picked was picked by the index before this one.
PickedBefore ==
    /\ index \in Ints /\ ev_size \in Nat /\ picked \in Nat
    /\ caller \in {"opening", "starting"} => base = "none"
    /\ base = "none" => picked = 0
    /\ base = "at" => loop_count \in Nat /\ (loop_count = ev_size \/ ev_size = 0)
    /\ picked > 0 /\ ev_size > 0 =>
        \E i \in Ints : index = NextInt(i) /\ picked = (Unsigned(i) % ev_size) + 1

LEMMA PickedStart == ASSUME PoolInit PROVE PickedBefore
<1>1. index = 0 /\ ev_size = 0 /\ picked = 0 /\ base = "none" BY DEF PoolInit
<1>2. 0 \in Ints BY WidthAssumption DEF Ints
<1> QED BY <1>1, <1>2 DEF PickedBefore

LEMMA PickedStep == ASSUME PickedBefore, [PoolNext]_vars PROVE PickedBefore'
<1> USE DEF PickedBefore
<1>1. ASSUME UNCHANGED <<ev_size, baseVars>>, caller' \in {"opening", "starting"} => base = "none"
      PROVE  PickedBefore'
    BY <1>1 DEF baseVars
<1>2. CASE UNCHANGED vars BY <1>1, <1>2 DEF vars, poolVars
<1>3. CASE NewThread \/ close \/ Delete \/ Advance
    BY <1>1, <1>3 DEF NewThread, close, Delete, Advance, poolVars
<1>4. CASE PushLoop
    BY <1>4 DEF PushLoop, baseVars
<1>5. CASE RunBase BY <1>5 DEF RunBase
<1>6. CASE QuitBase BY <1>6 DEF QuitBase, poolVars
<1>7. CASE Clear BY <1>7 DEF Clear, baseVars
<1>8. CASE TestEmpty \/ ReadSize \/ AddRun \/ StopBase
    BY <1>8 DEF TestEmpty, ReadSize, AddRun, StopBase, poolVars
<1>9. CASE Pick
  <2>1. /\ index' = NextInt(index) /\ UNCHANGED <<ev_size, caller>> /\ base = "at" /\ base' # "none"
        /\ \/ picked' = picked /\ loop_count = 0 /\ base' = "divided"
           \/ loop_count # 0 /\ picked' = (Unsigned(index) % loop_count) + 1 /\ base' = "add"
      BY <1>9 DEF Pick, poolVars
  <2>2. index' \in Ints BY <2>1, WidthAssumption DEF NextInt, Ints
  <2>3. caller' \notin {"opening", "starting"} /\ ev_size' \in Nat /\ base' \notin {"none", "at"}
      BY <2>1
  <2>4. CASE picked' = picked /\ loop_count = 0
    <3>1. ev_size' = 0 BY <2>1, <2>4
    <3> QED BY <2>2, <2>3, <2>4, <3>1
  <2>5. CASE loop_count # 0 /\ picked' = (Unsigned(index) % loop_count) + 1
    <3>1. picked' \in Nat
      <4>1. Unsigned(index) \in Nat BY WidthAssumption DEF Unsigned, Ints
      <4>2. loop_count \in Nat \ {0} BY <2>1, <2>5
      <4>3. PICK r \in 0..(loop_count - 1) : r = Unsigned(index) % loop_count
          BY <4>1, <4>2, DivMod, Zenon
      <4>4. picked' = r + 1 BY <2>5, <4>3, Zenon
      <4> QED BY <4>2, <4>4
    <3>2. ev_size' > 0 => index' = NextInt(index) /\ picked' = (Unsigned(index) % ev_size') + 1
        BY <2>1, <2>5
    <3> QED BY <2>2, <2>3, <3>1, <3>2
  <2> QED BY <2>1, <2>4, <2>5
<1>10. ASSUME NEW t \in Threads, UNCHANGED <<poolVars, baseVars>> PROVE PickedBefore'
    BY <1>1, <1>10 DEF poolVars
<1> QED BY <1>2, <1>3, <1>4, <1>5, <1>6, <1>7, <1>8, <1>9, <1>10
        DEF PoolNext, PoolStep, ClosingStep, BaseStep, get_loop

LEMMA NextTurn ==
    ASSUME PickedBefore, Pick, base' = "add", picked > 0, EvenSize(ev_size)
    PROVE  picked' = (picked % ev_size) + 1
<1>1. ev_size \in Nat \ {0} /\ loop_count = ev_size /\ picked' = (Unsigned(index) % ev_size) + 1
    BY DEF Pick, PickedBefore, EvenSize
<1>2. PICK i \in Ints : index = NextInt(i) /\ picked = (Unsigned(i) % ev_size) + 1
    BY <1>1 DEF PickedBefore
<1>3. Unsigned(index) % ev_size = ((Unsigned(i) % ev_size) + 1) % ev_size
    BY <1>1, <1>2, NextPick
<1> QED BY <1>1, <1>2, <1>3

\* get_loop hands out the loops in turn, for any number of them that divides the
\* ranges of int and size_t, over any number of calls.
THEOREM TurnsAreKept == PoolSpec => RoundRobin
<1>1. ASSUME PickedBefore, [PoolNext]_vars
      PROVE  [base = "at" /\ base' = "add" /\ picked > 0 /\ EvenSize(ev_size)
                => picked' = (picked % ev_size) + 1]_vars
  <2> SUFFICES ASSUME PoolNext, base = "at", base' = "add", picked > 0, EvenSize(ev_size)
               PROVE  picked' = (picked % ev_size) + 1
    BY <1>1
  <2>1. Pick
    BY DEF PoolNext, PoolStep, ClosingStep, BaseStep, get_loop, NewThread, PushLoop, RunBase, QuitBase, close,
           Delete, Advance, Clear, TestEmpty, ReadSize, AddRun, StopBase, baseVars
  <2> QED BY <1>1, <2>1, NextTurn
<1> QED BY <1>1, PickedStart, PickedStep, PTL DEF PoolSpec, RoundRobin

-----------------------------------------------------------------------------
(* The pool keeps the promise of LoopPool.                                  *)

\* Every object is in the vector once, and only the one that close() has come to
\* is being destroyed.
OneByOne ==
    /\ \A i \in 1..Len(loop_threads_) : owner[loop_threads_[i]] # "idle"
    /\ \A i, j \in 1..Len(loop_threads_) : loop_threads_[i] = loop_threads_[j] => i = j
    /\ \A t \in Threads : owner[t] \in {"flagged", "tested", "joining"} =>
          caller = "closing" /\ it <= Len(loop_threads_) /\ loop_threads_[it] = t
    /\ picked <= Len(ev_loops_)

LEMMA OneByOneStart == ASSUME PoolInit PROVE OneByOne
  BY DEF PoolInit, ThreadInit, OneByOne

\* A step of an object neither begins its life nor its end.
LEMMA WorkKeepsEnds ==
    ASSUME ThreadTypeOK, NEW t \in Threads, ThreadWork(t), NEW u \in Threads
    PROVE  /\ owner[u] # "idle" => owner'[u] # "idle"
           /\ owner'[u] \in {"flagged", "tested", "joining"} =>
                 owner[u] \in {"flagged", "tested", "joining"}
<1> USE DEF ThreadTypeOK, OwnerMoves
<1>1. CASE OwnerCall(t)
    BY <1>1 DEF OwnerCall, TestLoop, Wait, Relock, QuitTest, QuitWrite, Join
<1>2. CASE SpuriousWakeup(t) BY <1>2 DEF SpuriousWakeup
<1>3. CASE thread_routine(t)
    BY <1>3 DEF thread_routine, Construct, Lock, Publish, Notify, Unlock, RunCheck, Turn,
                CloseWakeup, Exit
<1> QED BY <1>1, <1>2, <1>3 DEF ThreadWork

LEMMA OneByOneStep == ASSUME QuitFirst, PoolIInv, OneByOne, [PoolNext]_vars PROVE OneByOne'
<1>0. /\ PoolTyped /\ ThreadTypeOK /\ VectorsAgree /\ BaseIsServed /\ CloseIsThorough
      /\ \A i \in 1..Len(loop_threads_) : loop_threads_[i] \in Threads
      /\ Len(loop_threads_) \in Nat /\ Len(ev_loops_) \in Nat
    BY DEF PoolIInv, PoolPart, ThreadIInv, PoolTyped
<1> USE DEF OneByOne
<1>1. ASSUME UNCHANGED <<owner, caller, loop_threads_, ev_loops_, it, picked>> PROVE OneByOne'
    BY <1>1
<1>2. CASE UNCHANGED vars BY <1>1, <1>2 DEF vars, threadVars, poolVars, baseVars
<1>3. CASE NewThread
  <2> PICK t \in Threads : start_loop(t) /\ loop_threads_' = Append(loop_threads_, t)
      BY <1>3 DEF NewThread
  <2>1. /\ owner[t] = "idle" /\ owner' = [owner EXCEPT ![t] = "check"]
        /\ caller = "opening" /\ UNCHANGED <<ev_loops_, picked>>
      BY <1>3 DEF NewThread, start_loop, OwnerMoves, baseVars
  <2>2. /\ Len(loop_threads_') = Len(loop_threads_) + 1
        /\ loop_threads_'[Len(loop_threads_) + 1] = t
        /\ \A i \in 1..Len(loop_threads_) : loop_threads_'[i] = loop_threads_[i]
      BY <1>0 DEF PoolTyped
  <2>3. \A u \in Threads : owner'[u] = IF u = t THEN "check" ELSE owner[u]
      BY <1>0, <2>1 DEF ThreadTypeOK
  <2>4. \A i \in 1..Len(loop_threads_') : owner'[loop_threads_'[i]] # "idle"
      BY <1>0, <2>2, <2>3
  <2>5. \A i, j \in 1..Len(loop_threads_') : loop_threads_'[i] = loop_threads_'[j] => i = j
      BY <1>0, <2>1, <2>2
  <2> QED BY <2>1, <2>3, <2>4, <2>5
<1>4. CASE PushLoop
  <2>1. /\ caller = "starting" /\ UNCHANGED <<owner, loop_threads_, it, picked>>
        /\ loop_threads_[Len(loop_threads_)] \in Threads
        /\ ev_loops_' = Append(ev_loops_, loop_threads_[Len(loop_threads_)])
      BY <1>0, <1>4 DEF PushLoop, threadVars, baseVars, VectorsAgree
  <2>2. Len(ev_loops_') = Len(ev_loops_) + 1 BY <1>0, <2>1 DEF PoolTyped
  <2> QED BY <1>0, <2>1, <2>2 DEF PoolTyped
<1>5. CASE RunBase \/ QuitBase \/ close \/ ReadSize \/ AddRun \/ StopBase
    BY <1>5 DEF RunBase, QuitBase, close, ReadSize, AddRun, StopBase, threadVars, poolVars, baseVars
<1>6. CASE Delete
  <2>1. /\ caller = "closing" /\ it <= Len(loop_threads_) /\ UNCHANGED <<poolVars, baseVars>>
        /\ owner' = [owner EXCEPT ![loop_threads_[it]] = "flagged"]
      BY <1>6 DEF Delete, QuitFlag, OwnerMoves
  <2>2. \A u \in Threads : owner'[u] = IF u = loop_threads_[it] THEN "flagged" ELSE owner[u]
      BY <1>0, <2>1 DEF ThreadTypeOK
  <2> QED BY <1>0, <2>1, <2>2 DEF poolVars, baseVars
<1>7. CASE Advance
  <2>1. /\ owner[loop_threads_[it]] = "joined"
        /\ UNCHANGED <<owner, caller, loop_threads_, ev_loops_, picked>>
      BY <1>7 DEF Advance, threadVars, baseVars
  <2> QED BY <2>1
<1>8. CASE Clear
  <2>1. /\ it > Len(loop_threads_) /\ it \in Nat
        /\ UNCHANGED <<owner, loop_threads_, ev_loops_, it, picked>>
      BY <1>0, <1>8 DEF Clear, threadVars, baseVars, PoolTyped
  <2> QED BY <1>0, <2>1
<1>9. CASE TestEmpty
  <2>1. UNCHANGED <<owner, caller, loop_threads_, ev_loops_, it>> /\ picked' \in {0, picked}
      BY <1>9 DEF TestEmpty, threadVars, poolVars
  <2> QED BY <1>0, <2>1
<1>10. CASE Pick
  <2>1. /\ UNCHANGED <<owner, caller, loop_threads_, ev_loops_, ev_size, it>> /\ base' \in {"divided", "add"}
        /\ base = "at" /\ base' = "divided" => picked' = picked
      BY <1>10 DEF Pick, threadVars, poolVars
  <2>2. PoolIInv'
      BY PoolIStep
  <2>3. base' = "add" /\ picked' <= ev_size' /\ ev_size' = Len(ev_loops_')
      BY <1>0, <2>1, <2>2 DEF PoolIInv, PoolPart, BaseIsServed, VectorsAgree
  <2> QED BY <2>1, <2>3
<1>11. ASSUME NEW t \in Threads, ThreadWork(t), UNCHANGED <<poolVars, baseVars>> PROVE OneByOne'
    BY <1>0, <1>11, WorkKeepsEnds DEF poolVars, baseVars
<1> QED BY <1>2, <1>3, <1>4, <1>5, <1>6, <1>7, <1>8, <1>9, <1>10, <1>11
        DEF PoolNext, PoolStep, ClosingStep, BaseStep, get_loop, ThreadWork

LEMMA PromiseStart == ASSUME PoolInit PROVE Promise!Init
<1>1. /\ caller = "opening" /\ ev_size = 0 /\ picked = 0
      /\ thread = [t \in Threads |-> "none"]
    BY DEF PoolInit, ThreadInit
<1>2. Stage = "filling" /\ Loops = <<>> BY <1>1 DEF Stage, Loops
<1>3. Lives = [t \in Threads |-> "none"] BY <1>1 DEF Lives, Life
<1> QED BY <1>1, <1>2, <1>3 DEF Promise!Init

\* What one thread's step means to the users.
LEMMA LivesMove ==
    ASSUME thread \in [Threads -> ThreadSteps], NEW t \in Threads, NEW from, NEW to, ThreadMoves(t, from, to)
    PROVE  /\ Lives[t] = Life(from)
           /\ Lives' = [Lives EXCEPT ![t] = Life(to)]
           /\ Life(from) = Life(to) => Lives' = Lives
<1>1. thread[t] = from /\ thread' = [thread EXCEPT ![t] = to] BY DEF ThreadMoves
<1>2. Lives[t] = Life(from) BY <1>1 DEF Lives
<1>3. \A u \in Threads : thread'[u] = IF u = t THEN to ELSE thread[u] BY <1>1
<1>4. Lives' = [u \in Threads |-> Life(thread'[u])] BY DEF Lives
<1>5. Lives' = [Lives EXCEPT ![t] = Life(to)] BY <1>3, <1>4 DEF Lives
<1>6. Life(from) = Life(to) => Lives' = Lives BY <1>2, <1>5 DEF Lives
<1> QED BY <1>2, <1>5, <1>6

\* The steps of a loop's thread: it begins to run, and stops in its turn.
LEMMA ThreadKeepsPromise ==
    ASSUME PoolIInv, OneByOne, NEW t \in Threads, thread_routine(t), UNCHANGED <<poolVars, baseVars>>
    PROVE  [Promise!Next]_(Promise!vars)
<1>0. /\ thread \in [Threads -> ThreadSteps] /\ InStep(t) /\ VectorsAgree /\ CloseIsThorough
      /\ \A i \in 1..Len(loop_threads_) : loop_threads_[i] \in Threads /\ InStep(loop_threads_[i])
      /\ Len(loop_threads_) \in Nat /\ Len(ev_loops_) \in Nat /\ it \in Nat
    BY DEF PoolIInv, PoolPart, ThreadIInv, ThreadTypeOK, PoolTyped
<1>1. UNCHANGED <<Stage, Loops, picked>> BY DEF poolVars, baseVars, Stage, Loops
<1>2. ASSUME NEW from, NEW to, ThreadMoves(t, from, to), Life(from) = Life(to)
      PROVE  [Promise!Next]_(Promise!vars)
  <2>1. Lives' = Lives BY <1>0, <1>2, LivesMove
  <2> QED BY <1>1, <2>1 DEF Promise!vars
<1>3. CASE Construct(t) BY <1>2, <1>3 DEF Construct, Life
<1>4. CASE Lock(t) BY <1>2, <1>4 DEF Lock, Life
<1>5. CASE Publish(t)
  <2>1. ThreadMoves(t, "publish", "notify") BY <1>5 DEF Publish
  <2>2. Life("publish") = "starting" /\ Life("notify") = "running" BY DEF Life
  <2>3. Lives[t] = "starting" /\ Lives' = [Lives EXCEPT ![t] = "running"]
      BY <1>0, <2>1, <2>2, LivesMove
  <2>4. Promise!Begin(t) BY <1>1, <2>3 DEF Promise!Begin, Promise!Moves
  <2> QED BY <2>4 DEF Promise!Next
<1>6. CASE Notify(t) BY <1>2, <1>6 DEF Notify, Life
<1>7. CASE Unlock(t) BY <1>2, <1>7 DEF Unlock, Life
<1>8. CASE RunCheck(t)
  <2>1. CASE ~quit_[t] BY <1>2, <1>8, <2>1 DEF RunCheck, Life
  <2>2. CASE quit_[t]
    <3>1. ThreadMoves(t, "check", "returned") BY <1>8, <2>2 DEF RunCheck
    <3>2. Life("check") = "running" /\ Life("returned") = "stopping" BY DEF Life
    <3>3. Lives[t] = "running" /\ Lives' = [Lives EXCEPT ![t] = "stopping"]
        BY <1>0, <3>1, <3>2, LivesMove
    <3>4. owner[t] \in {"flagged", "tested", "joining"}
        BY <1>0, <2>2, <3>1 DEF InStep, Destroying, ThreadMoves
    <3>5. caller = "closing" /\ it <= Len(loop_threads_) /\ loop_threads_[it] = t
        BY <3>4 DEF OneByOne
    <3>6. ev_size = Len(ev_loops_) /\ Len(loop_threads_) = Len(ev_loops_) /\ ev_size # 0
          /\ \A i \in 1..Len(ev_loops_) : ev_loops_[i] = loop_threads_[i]
          /\ it \in 1..Len(ev_loops_)
        BY <1>0, <3>5 DEF VectorsAgree, PoolIInv, PoolTyped
    <3>7. Loops = ev_loops_ /\ Stage = "emptying" BY <3>5, <3>6 DEF Loops, Stage
    <3>8. ASSUME NEW j \in 1..(it - 1) PROVE Lives[ev_loops_[j]] = "gone"
      <4>1. owner[loop_threads_[j]] = "joined" /\ j \in 1..Len(loop_threads_)
          BY <1>0, <3>5, <3>6 DEF CloseIsThorough
      <4>2. thread[loop_threads_[j]] = "exited" /\ loop_threads_[j] \in Threads
          BY <1>0, <4>1 DEF InStep
      <4> QED BY <3>6, <4>1, <4>2 DEF Lives, Life
    <3>9. Promise!Stop(t)
        BY <1>1, <3>3, <3>5, <3>6, <3>7, <3>8 DEF Promise!Stop, Promise!Moves
    <3> QED BY <3>9 DEF Promise!Next
  <2> QED BY <2>1, <2>2
<1>9. CASE Turn(t) BY <1>2, <1>9 DEF Turn, Life
<1>10. CASE CloseWakeup(t) BY <1>2, <1>10 DEF CloseWakeup, Life
<1>11. CASE Exit(t)
  <2>1. ThreadMoves(t, "closed", "exited") BY <1>11 DEF Exit
  <2>2. Life("closed") = "stopping" /\ Life("exited") = "gone" BY DEF Life
  <2>3. Lives[t] = "stopping" /\ Lives' = [Lives EXCEPT ![t] = "gone"]
      BY <1>0, <2>1, <2>2, LivesMove
  <2>4. Promise!Exit(t) BY <1>1, <2>3 DEF Promise!Exit, Promise!Moves
  <2> QED BY <2>4 DEF Promise!Next
<1> QED BY <1>3, <1>4, <1>5, <1>6, <1>7, <1>8, <1>9, <1>10, <1>11 DEF thread_routine

\* The steps of the main thread: it fills the pool with loops that run and
\* empties it when they are gone.
LEMMA OwnerKeepsPromise ==
    ASSUME QuitFirst, PoolIInv, OneByOne,
           NewThread \/ PushLoop \/ RunBase \/ QuitBase \/ close \/ ClosingStep
    PROVE  [Promise!Next]_(Promise!vars)
<1>0. /\ ThreadTypeOK /\ PoolTyped /\ VectorsAgree /\ PushedAreStarted /\ CloseIsThorough
      /\ \A t \in Threads : InStep(t)
      /\ \A i \in 1..Len(loop_threads_) : loop_threads_[i] \in Threads
      /\ Len(loop_threads_) \in Nat /\ Len(ev_loops_) \in Nat
    BY DEF PoolIInv, PoolPart, ThreadIInv, PoolTyped
<1>1. thread \in [Threads -> ThreadSteps] BY <1>0 DEF ThreadTypeOK
<1>2. caller # "closed" => Loops = ev_loops_
  <2>1. ev_size = 0 /\ caller # "closed" => ev_loops_ = <<>>
      BY <1>0 DEF VectorsAgree, PoolTyped
  <2> QED BY <2>1 DEF Loops
<1>3. caller = "opening" => \A u \in Threads \ Promise!Pooled : Lives[u] = "none"
  <2> SUFFICES ASSUME caller = "opening", NEW u \in Threads, u \notin Promise!Pooled
               PROVE  Lives[u] = "none"
      OBVIOUS
  <2>1. owner[u] # "idle" => u \in Promise!Pooled
      BY <1>0, <1>2 DEF CloseIsThorough, VectorsAgree, Promise!Pooled
  <2> QED BY <1>0, <2>1 DEF InStep, Lives, Life
<1>4. CASE NewThread
  <2> PICK t \in Threads : start_loop(t) BY <1>4 DEF NewThread
  <2>1. /\ ThreadMoves(t, "none", "construct") /\ caller = "opening" /\ caller' = "starting"
        /\ UNCHANGED <<ev_loops_, ev_size, picked>>
      BY <1>4 DEF NewThread, start_loop, baseVars
  <2>2. Life("none") = "none" /\ Life("construct") = "starting" BY DEF Life
  <2>3. Lives[t] = "none" /\ Lives' = [Lives EXCEPT ![t] = "starting"]
      BY <1>1, <2>1, <2>2, LivesMove
  <2>4. Stage = "filling" /\ UNCHANGED <<Stage, Loops, picked>> BY <2>1 DEF Stage, Loops
  <2>5. Promise!Create(t) BY <1>3, <2>1, <2>3, <2>4 DEF Promise!Create, Promise!Moves
  <2> QED BY <2>5 DEF Promise!Next
<1>5. CASE PushLoop
  <2> DEFINE n == Len(loop_threads_)
             t == loop_threads_[n]
  <2>1. /\ caller = "starting" /\ caller' = "opening" /\ owner[t] = "started"
        /\ ev_loops_' = Append(ev_loops_, t) /\ ev_size' = ev_size + 1
        /\ UNCHANGED <<thread, picked>>
      BY <1>5 DEF PushLoop, threadVars, baseVars
  <2>2. n = Len(ev_loops_) + 1 /\ t \in Threads /\ ev_size = Len(ev_loops_)
      BY <1>0, <2>1 DEF VectorsAgree
  <2>3. Lives[t] = "running" BY <1>0, <2>1, <2>2 DEF InStep, Destroying, Published, Lives, Life
  <2>4. Loops = ev_loops_ /\ Loops' = Append(ev_loops_, t) /\ Lives' = Lives
      BY <1>0, <1>2, <2>1, <2>2 DEF Loops, Lives
  <2>5. t \notin Promise!Pooled
    <3>1. \A i \in 1..Len(ev_loops_) : ev_loops_[i] # t
        BY <1>0, <2>1, <2>2 DEF VectorsAgree, OneByOne
    <3> QED BY <2>4, <3>1 DEF Promise!Pooled
  <2>6. Stage = "filling" /\ Stage' = Stage BY <2>1 DEF Stage
  <2>7. Promise!Add(t) BY <2>1, <2>3, <2>4, <2>5, <2>6 DEF Promise!Add
  <2> QED BY <2>2, <2>7 DEF Promise!Next
<1>6. CASE RunBase
  <2>1. /\ caller = "opening" /\ caller' = "serving" /\ UNCHANGED <<thread, ev_loops_, ev_size, picked>>
      BY <1>6 DEF RunBase, threadVars
  <2>2. Stage = "filling" /\ Stage' = "serving" /\ UNCHANGED <<Lives, Loops>>
      BY <2>1 DEF Stage, Lives, Loops
  <2>3. Promise!Serve BY <1>3, <2>1, <2>2 DEF Promise!Serve
  <2> QED BY <2>3 DEF Promise!Next
<1>7. CASE QuitBase \/ Advance
  <2>1. UNCHANGED <<thread, caller, ev_loops_, ev_size, picked>>
      BY <1>7 DEF QuitBase, Advance, threadVars, poolVars, baseVars
  <2> QED BY <2>1 DEF Promise!vars, Stage, Lives, Loops
<1>8. CASE close
  <2>1. /\ caller = "serving" /\ caller' = "closing" /\ UNCHANGED <<thread, ev_loops_, ev_size, picked>>
      BY <1>8 DEF close, threadVars, baseVars
  <2>2. Stage = "serving" /\ Stage' = "emptying" /\ UNCHANGED <<Lives, Loops>>
      BY <2>1 DEF Stage, Lives, Loops
  <2>3. Promise!Close BY <2>1, <2>2 DEF Promise!Close
  <2> QED BY <2>3 DEF Promise!Next
<1>9. CASE Delete
  <2>1. UNCHANGED <<thread, caller, ev_loops_, ev_size, picked>>
      BY <1>9 DEF Delete, QuitFlag, poolVars, baseVars
  <2> QED BY <2>1 DEF Promise!vars, Stage, Lives, Loops
<1>10. CASE Clear
  <2>1. /\ caller = "closing" /\ caller' = "closed" /\ it > Len(loop_threads_) /\ ev_size' = 0
        /\ UNCHANGED <<thread, picked>>
      BY <1>10 DEF Clear, threadVars, baseVars
  <2>2. Stage = "emptying" /\ Stage' = "empty" /\ Lives' = Lives /\ Loops' = <<>>
      BY <2>1 DEF Stage, Lives, Loops
  <2>3. ASSUME NEW t \in Threads PROVE Lives[t] \in {"none", "gone"}
    <3>1. owner[t] = "idle" \/ owner[t] = "joined"
        BY <1>0, <2>1 DEF CloseIsThorough, PoolTyped
    <3> QED BY <1>0, <3>1 DEF InStep, Lives, Life
  <2>4. Promise!Empty BY <2>1, <2>2, <2>3 DEF Promise!Empty
  <2> QED BY <2>4 DEF Promise!Next
<1> QED BY <1>4, <1>5, <1>6, <1>7, <1>8, <1>9, <1>10 DEF ClosingStep

\* Before the first turn the index stands at its start.
FirstTurn == picked = 0 => index = 0

\* An empty pool has handed out nothing but the base loop.
LEMMA EmptyPick ==
    ASSUME PoolIInv, OneByOne, TestEmpty
    PROVE  picked' = picked
<1>1. /\ ev_size = Len(ev_loops_) /\ picked \in Nat /\ picked <= Len(ev_loops_)
      /\ Len(ev_loops_) \in Nat
    BY DEF TestEmpty, PoolIInv, PoolPart, PoolTyped, BaseIsServed, VectorsAgree, OneByOne
<1>2. CASE ev_size = 0
  <2>1. picked = 0 BY <1>1, <1>2
  <2>2. picked' = 0 BY <1>2 DEF TestEmpty
  <2> QED BY <2>1, <2>2
<1>3. CASE ev_size # 0 BY <1>3 DEF TestEmpty
<1> QED BY <1>2, <1>3

LEMMA FirstTurnStep ==
    ASSUME PoolIInv, OneByOne, FirstTurn, [PoolNext]_vars
    PROVE  FirstTurn'
<1>1. ASSUME UNCHANGED <<index, picked>> PROVE FirstTurn' BY <1>1 DEF FirstTurn
<1>2. CASE UNCHANGED <<index, base_quit, picked>> BY <1>1, <1>2
<1>3. CASE TestEmpty BY <1>1, <1>3, EmptyPick DEF TestEmpty
<1>4. CASE Pick
  <2>1. loop_count \in Nat \ {0} /\ Unsigned(index) \in Nat
      BY <1>4, WidthAssumption DEF Pick, PoolIInv, PoolPart, PoolTyped, BaseIsServed, Unsigned
  <2>2. picked' = (Unsigned(index) % loop_count) + 1 BY <1>4, <2>1 DEF Pick
  <2>3. Unsigned(index) % loop_count \in 0..(loop_count - 1) BY <2>1, DivMod
  <2> QED BY <2>2, <2>3 DEF FirstTurn
<1>5. CASE ReadSize \/ AddRun \/ StopBase
    BY <1>1, <1>5 DEF ReadSize, AddRun, StopBase
<1>6. CASE \/ NewThread \/ PushLoop \/ RunBase \/ QuitBase \/ close \/ ClosingStep
           \/ UNCHANGED <<poolVars, baseVars>> \/ UNCHANGED vars
    BY <1>1, <1>6 DEF NewThread, PushLoop, RunBase, QuitBase, close, ClosingStep, Delete, Advance,
                      Clear, baseVars, vars
<1> QED BY <1>3, <1>4, <1>5, <1>6 DEF PoolNext, PoolStep, BaseStep, get_loop

\* get_loop hands out the loop whose turn it is, and that loop runs.
LEMMA PickKeepsPromise ==
    ASSUME QuitFirst, PoolIInv, OneByOne, PickedBefore, FirstTurn, Pick
    PROVE  Promise!Give
<1> DEFINE n == Len(ev_loops_)
<1>1. /\ base = "at" /\ loop_count = ev_size /\ ev_size = n /\ n \in Nat \ {0} /\ caller = "serving"
      /\ picked \in Nat /\ index \in Ints
    BY DEF Pick, PoolIInv, PoolPart, PoolTyped, BaseIsServed, VectorsAgree, Ints
<1>2. /\ base' = "add" /\ picked' = (Unsigned(index) % n) + 1
      /\ UNCHANGED <<thread, caller, ev_loops_, ev_size>>
    BY <1>1 DEF Pick, threadVars, poolVars
<1>3. Stage = "serving" /\ Loops = ev_loops_ /\ UNCHANGED <<Stage, Lives, Loops>>
    BY <1>1, <1>2 DEF Stage, Loops, Lives
<1>4. Unsigned(index) \in Nat BY <1>1, WidthAssumption DEF Unsigned, Ints
<1>5. picked' \in 1..n
  <2>1. Unsigned(index) % n \in 0..(n - 1) BY <1>1, <1>4, DivMod
  <2> QED BY <1>1, <1>2, <2>1
<1>6. Lives[ev_loops_[picked']] = "running"
  <2>1. ev_loops_[picked'] \in Threads /\ owner[ev_loops_[picked']] = "started"
      BY <1>1, <1>5 DEF PoolIInv, PoolPart, PoolTyped, PushedAreStarted
  <2>2. InStep(ev_loops_[picked']) BY <2>1 DEF PoolIInv, ThreadIInv
  <2> QED BY <2>1, <2>2 DEF InStep, Destroying, Published, Lives, Life
<1>7. ASSUME EvenSize(n) PROVE picked' = (picked % n) + 1
  <2>1. CASE picked > 0 BY <1>1, <1>2, <1>7, <2>1, NextTurn
  <2>2. CASE picked = 0 BY <1>1, <1>2, <2>2 DEF FirstTurn, Unsigned
  <2> QED BY <1>1, <2>1, <2>2
<1> QED BY <1>3, <1>5, <1>6, <1>7 DEF Promise!Give

LEMMA PromiseStep ==
    ASSUME QuitFirst, PoolIInv, OneByOne, PickedBefore, FirstTurn, [PoolNext]_vars
    PROVE  [Promise!Next]_(Promise!vars)
<1>1. CASE UNCHANGED vars
  <2>1. UNCHANGED <<thread, caller, ev_loops_, ev_size, picked>>
      BY <1>1 DEF vars, threadVars, poolVars, baseVars
  <2> QED BY <2>1 DEF Promise!vars, Stage, Lives, Loops
<1>2. CASE NewThread \/ PushLoop \/ RunBase \/ QuitBase \/ close \/ ClosingStep
    BY <1>2, OwnerKeepsPromise
<1>3. CASE TestEmpty \/ ReadSize \/ AddRun \/ StopBase
  <2>1. UNCHANGED <<thread, caller, ev_loops_, ev_size, picked>>
    <3>1. UNCHANGED <<thread, caller, ev_loops_, ev_size>>
        BY <1>3 DEF TestEmpty, ReadSize, AddRun, StopBase, threadVars, poolVars
    <3>2. CASE TestEmpty BY <3>1, <3>2, EmptyPick
    <3>3. CASE ReadSize \/ AddRun \/ StopBase BY <3>1, <3>3 DEF ReadSize, AddRun, StopBase
    <3> QED BY <1>3, <3>2, <3>3
  <2> QED BY <2>1 DEF Promise!vars, Stage, Lives, Loops
<1>4. CASE Pick BY <1>4, PickKeepsPromise DEF Promise!Next
<1>5. ASSUME NEW t \in Threads, ThreadWork(t), UNCHANGED <<poolVars, baseVars>>
      PROVE  [Promise!Next]_(Promise!vars)
  <2>1. CASE thread_routine(t) BY <1>5, <2>1, ThreadKeepsPromise
  <2>2. CASE OwnerCall(t) \/ SpuriousWakeup(t)
    <3>1. UNCHANGED <<thread, caller, ev_loops_, ev_size, picked>>
        BY <1>5, <2>2 DEF OwnerCall, TestLoop, Wait, Relock, QuitTest, QuitWrite, Join, SpuriousWakeup,
                          poolVars, baseVars
    <3> QED BY <3>1 DEF Promise!vars, Stage, Lives, Loops
  <2> QED BY <1>5, <2>1, <2>2 DEF ThreadWork
<1> QED BY <1>1, <1>2, <1>3, <1>4, <1>5 DEF PoolNext, PoolStep, BaseStep, get_loop, ThreadWork

\* Although nothing guards the vectors, the pool of a program that stops the base
\* loop before it closes the pool is the one that LoopPool describes, whatever the
\* number of threads and whichever of them is slow.
THEOREM PoolKeepsPromise == QuitFirst /\ PoolSpec => KeepsPoolPromise
<1> DEFINE I == PoolIInv /\ OneByOne /\ PickedBefore /\ FirstTurn
<1>1. ASSUME QuitFirst, PoolInit PROVE I /\ Promise!Init
  <2>1. FirstTurn BY <1>1 DEF PoolInit, FirstTurn
  <2> QED BY <1>1, <2>1, PoolIStart, OneByOneStart, PickedStart, PromiseStart
<1>2. ASSUME QuitFirst, I, [PoolNext]_vars PROVE I' /\ [Promise!Next]_(Promise!vars)
    BY <1>2, PoolIStep, OneByOneStep, PickedStep, FirstTurnStep, PromiseStep
<1>3. ASSUME QuitFirst PROVE PoolSpec => KeepsPoolPromise
  <2> HIDE DEF I
  <2> QED BY <1>1, <1>2, <1>3, PTL DEF PoolSpec, KeepsPoolPromise, Promise!Spec
<1> QED BY <1>3
=============================================================================
