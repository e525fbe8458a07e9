--------------------------- MODULE ThpoolServiceLoop ---------------------------
(***************************************************************************)
(* ThpoolServiceLoop: a pool of ServiceLoopThreads.  The owner opens the    *)
(* pool, starts the base loop and in the end closes the pool and stops the  *)
(* base loop; the base loop's thread calls get_loop for every connection    *)
(* it accepts.  Nothing guards the pool's vectors.                          *)
(***************************************************************************)
EXTENDS ServiceLoopThread, Sequences, FiniteSets

CONSTANTS
    QuitFirst,  \* is the base loop stopped before the pool is closed?
    IntMax,     \* largest int, 2^31 - 1 in the code
    SizeMod     \* number of values of size_t, 2^64 in the code

ASSUME QuitFirstAssumption == QuitFirst \in BOOLEAN
ASSUME WidthAssumption == IntMax \in Nat /\ SizeMod \in Nat /\ SizeMod >= 2 * IntMax + 2

VARIABLES
    caller,         \* the owner: opening, starting, serving, closing, closed
    thread_num_,
    loop_threads_,  \* the ServiceLoopThread objects, in the order they were made
    ev_loops_,      \* storage of the vector of loops, by object; clear() leaves it
    ev_size,        \* the vector's size
    it,             \* close()'s position in loop_threads_
    index,          \* get_loop's static int
    base,           \* the base loop's thread, see BaseSteps
    base_quit,      \* quit_ of the base loop
    loop_count,     \* get_loop's local
    picked          \* position of the loop get_loop returned last, 0: base_loop_

poolVars == <<caller, thread_num_, loop_threads_, ev_loops_, ev_size, it>>
baseVars == <<index, base, base_quit, loop_count, picked>>
vars == <<threadVars, poolVars, baseVars>>

\* size and at: in get_loop, before it reads the size and before it picks; add:
\* about to add_run to the picked loop; divided: it divided by zero.
BaseSteps == {"none", "loop", "size", "at", "add", "divided", "stopped"}

PoolInit ==
    /\ ThreadInit
    /\ thread_num_ \in 0..Cardinality(Threads) /\ caller = "opening"
    /\ loop_threads_ = <<>> /\ ev_loops_ = <<>> /\ ev_size = 0 /\ it = 1
    /\ index = 0 /\ base = "none" /\ base_quit = FALSE /\ loop_count = 0 /\ picked = 0

(***************************************************************************)
(* The owner.                                                              *)
(***************************************************************************)

\* One turn of open(): a new object, whose start_loop is then under way.
NewThread ==
    /\ caller = "opening" /\ Len(loop_threads_) < thread_num_ /\ caller' = "starting"
    /\ \E t \in Threads : start_loop(t) /\ loop_threads_' = Append(loop_threads_, t)
    /\ UNCHANGED <<thread_num_, ev_loops_, ev_size, it, baseVars>>

\* start_loop has returned and its loop is pushed.
PushLoop ==
    /\ caller = "starting" /\ caller' = "opening"
    /\ LET t == loop_threads_[Len(loop_threads_)]
       IN  owner[t] = "started" /\ ev_loops_' = Append(ev_loops_, t) /\ ev_size' = ev_size + 1
    /\ UNCHANGED <<threadVars, thread_num_, loop_threads_, it, baseVars>>

\* The base loop runs, in the owner's thread or in one it creates.
RunBase ==
    /\ caller = "opening" /\ Len(loop_threads_) = thread_num_ /\ caller' = "serving"
    /\ base = "none" /\ base' = "loop"
    /\ UNCHANGED <<threadVars, thread_num_, loop_threads_, ev_loops_, ev_size, it,
                   index, base_quit, loop_count, picked>>

QuitBase ==
    /\ caller = (IF QuitFirst THEN "serving" ELSE "closed")
    /\ ~base_quit /\ base_quit' = TRUE
    /\ UNCHANGED <<threadVars, poolVars, index, base, loop_count, picked>>

CloseVariantAnyTime ==
    /\ caller = "serving" /\ caller' = "closing"
    /\ UNCHANGED <<threadVars, thread_num_, loop_threads_, ev_loops_, ev_size, it, baseVars>>

close ==
    /\ caller = "serving" /\ caller' = "closing" /\ (QuitFirst => base = "stopped")
    /\ UNCHANGED <<threadVars, thread_num_, loop_threads_, ev_loops_, ev_size, it, baseVars>>

\* delete *it: the destructor quits the loop and joins its thread.
Delete ==
    /\ caller = "closing" /\ it <= Len(loop_threads_)
    /\ QuitFlag(loop_threads_[it])
    /\ UNCHANGED <<poolVars, baseVars>>

Advance ==
    /\ caller = "closing" /\ it <= Len(loop_threads_) /\ it' = it + 1
    /\ owner[loop_threads_[it]] = "joined"
    /\ UNCHANGED <<threadVars, caller, thread_num_, loop_threads_, ev_loops_, ev_size, baseVars>>

Clear ==
    /\ caller = "closing" /\ it > Len(loop_threads_) /\ caller' = "closed"
    /\ ev_size' = 0
    /\ UNCHANGED <<threadVars, thread_num_, loop_threads_, ev_loops_, it, baseVars>>

(***************************************************************************)
(* get_loop, in the thread of the base loop.                               *)
(***************************************************************************)

\* An int converted to size_t, and the int that follows it.
Unsigned(i) == IF i < 0 THEN i + SizeMod ELSE i
NextIntVariantResets(i) == IF i + 1 = IntMax THEN 0 ELSE i + 1
NextInt(i) == IF i = IntMax THEN -IntMax - 1 ELSE i + 1

TestEmpty ==
    /\ base = "loop"
    /\ IF ev_size = 0 THEN base' = "add" /\ picked' = 0 ELSE base' = "size" /\ UNCHANGED picked
    /\ UNCHANGED <<threadVars, poolVars, index, base_quit, loop_count>>

ReadSize ==
    /\ base = "size" /\ base' = "at" /\ loop_count' = ev_size
    /\ UNCHANGED <<threadVars, poolVars, index, base_quit, picked>>

\* index++ % loop_count; the signed overflow wraps around.
Pick ==
    /\ base = "at" /\ index' = NextInt(index)
    /\ IF loop_count = 0 THEN base' = "divided" /\ UNCHANGED picked
       ELSE base' = "add" /\ picked' = (Unsigned(index) % loop_count) + 1
    /\ UNCHANGED <<threadVars, poolVars, base_quit, loop_count>>

\* on_accept gives the connection to the loop it got.
AddRun ==
    /\ base = "add" /\ base' = "loop"
    /\ UNCHANGED <<threadVars, poolVars, index, base_quit, loop_count, picked>>

StopBase ==
    /\ base = "loop" /\ base_quit /\ base' = "stopped"
    /\ UNCHANGED <<threadVars, poolVars, index, base_quit, loop_count, picked>>

get_loop == TestEmpty \/ ReadSize \/ Pick

BaseStep == get_loop \/ AddRun \/ StopBase

ClosingStep == Delete \/ Advance \/ Clear

PoolStep ==
    \/ NewThread \/ PushLoop \/ RunBase \/ QuitBase \/ close \/ ClosingStep \/ BaseStep
    \/ \E t \in Threads : /\ OwnerCall(t) \/ SpuriousWakeup(t) \/ thread_routine(t)
                          /\ UNCHANGED <<poolVars, baseVars>>

\* A failed assertion or a division by zero ends the process.
Alive == crash = "none" /\ base # "divided"

PoolNext == Alive /\ PoolStep

PoolSpec == PoolInit /\ [][PoolNext]_vars

PoolFairSpec ==
    /\ PoolSpec /\ WF_vars(Alive /\ ClosingStep)
    /\ \A t \in Threads :
        /\ WF_vars(Alive /\ thread_routine(t) /\ UNCHANGED <<poolVars, baseVars>>)
        /\ WF_vars(Alive /\ OwnerCall(t) /\ UNCHANGED <<poolVars, baseVars>>)

(***************************************************************************)
(* Properties.                                                             *)
(***************************************************************************)

PoolTyped ==
    /\ caller \in {"opening", "starting", "serving", "closing", "closed"}
    /\ thread_num_ \in 0..Cardinality(Threads)
    /\ loop_threads_ \in Seq(Threads) /\ ev_loops_ \in Seq(Threads)
    /\ ev_size \in Nat /\ it \in Nat \ {0} /\ index \in (-IntMax - 1)..IntMax
    /\ base \in BaseSteps /\ base_quit \in BOOLEAN /\ loop_count \in Nat /\ picked \in Nat

\* Every variable of the threads and of the pool keeps its type, index the width
\* of an int.
PoolTypeOK == ThreadTypeOK /\ PoolTyped

\* The loop a connection is queued on still runs: get_loop never hands out a
\* loop that is not published yet, was told to quit or is destroyed, and never
\* computes a remainder by an emptied vector's size.
PickedLoopRuns ==
    /\ base # "divided"
    /\ base = "add" /\ picked > 0 =>
        /\ picked <= Len(ev_loops_)
        /\ loop_[ev_loops_[picked]] /\ ~quit_[ev_loops_[picked]]
        /\ thread[ev_loops_[picked]] \in {"notify", "unlock", "check", "poll"}

\* Weaker: the loop get_loop returned has not been destroyed yet.
PickedLoopExists ==
    /\ base # "divided"
    /\ base = "add" /\ picked > 0 => thread[ev_loops_[picked]] \in HoldsLoop

\* A closed pool has left no thread behind, whichever of them was slow.
ClosedPoolIsGone ==
    caller = "closed" => \A t \in Threads : thread[t] \in {"none", "exited"}

\* n divides the number of ints and of size_t values: in the code, a power of two.
EvenSize(n) == n > 0 /\ (2 * IntMax + 2) % n = 0 /\ SizeMod % n = 0

\* Connections go to the loops in turn, one each, also when index overflows and
\* when it comes back to 0, for the pools of even size.
RoundRobin ==
    [][base = "at" /\ base' = "add" /\ picked > 0 /\ EvenSize(ev_size)
        => picked' = (picked % ev_size) + 1]_vars

\* The stage of the pool, its loops and where their threads are, as users see them.
Stage ==
    CASE caller \in {"opening", "starting"} -> "filling"
      [] caller = "serving" -> "serving"
      [] caller = "closing" -> "emptying"
      [] caller = "closed" -> "empty"

Life(step) ==
    CASE step = "none" -> "none"
      [] step \in {"construct", "lock", "publish"} -> "starting"
      [] step \in {"notify", "unlock", "check", "poll"} -> "running"
      [] step \in {"returned", "closed"} -> "stopping"
      [] step = "exited" -> "gone"

Lives == [t \in Threads |-> Life(thread[t])]
Loops == IF ev_size = 0 THEN <<>> ELSE ev_loops_

Promise == INSTANCE LoopPool
               WITH stage <- Stage, life <- Lives, pool <- Loops, last <- picked,
                    LoopsDie <- FALSE, TurnSizes <- {n \in Nat : EvenSize(n)}

\* The vectors that nothing guards, the test and the index that get_loop uses apart
\* from each other and the threads started and joined one by one keep the promise
\* of LoopPool: each loop taken in and each one handed out is running, the turns
\* are kept, loops stop one after the other and a closed pool has left none.
KeepsPoolPromise == Promise!Spec

\* close() ends, unless the process aborts in a quit().
CloseEnds == (caller = "closing") ~> (caller = "closed" \/ ~Alive)
=============================================================================
