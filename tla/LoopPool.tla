-------------------------------- MODULE LoopPool --------------------------------
(***************************************************************************)
(* What a pool of loops promises those who use it, in C++ and in Python:   *)
(* its threads are started one at a time, only loops that run are taken in, *)
(* they are handed out in turn, and a closed pool leaves nothing behind.   *)
(***************************************************************************)
EXTENDS Integers, Sequences

CONSTANTS
    Threads,    \* the threads that may carry a loop of the pool
    LoopsDie,   \* may a loop end before it is told to?
    TurnSizes   \* sizes of the pool for which the turns are kept

VARIABLES
    stage,      \* filling, serving, emptying, empty
    life,       \* of each thread: none, starting, running, stopping, gone
    pool,       \* the loops, in the order in which they were taken in
    last        \* position of the loop handed out last, 0 before the first

vars == <<stage, life, pool, last>>

Init ==
    /\ stage = "filling" /\ pool = <<>> /\ last = 0
    /\ life = [t \in Threads |-> "none"]

Pooled == {pool[i] : i \in 1..Len(pool)}

Moves(t, from, to) == life[t] = from /\ life' = [life EXCEPT ![t] = to]

\* No other thread is on its way into the pool.
Create(t) ==
    /\ stage = "filling" /\ Moves(t, "none", "starting")
    /\ \A u \in Threads \ Pooled : life[u] = "none"
    /\ UNCHANGED <<stage, pool, last>>

Begin(t) == Moves(t, "starting", "running") /\ UNCHANGED <<stage, pool, last>>

Add(t) ==
    /\ stage = "filling" /\ life[t] = "running" /\ t \notin Pooled
    /\ pool' = Append(pool, t)
    /\ UNCHANGED <<stage, life, last>>

Serve ==
    /\ stage = "filling" /\ stage' = "serving"
    /\ \A u \in Threads \ Pooled : life[u] = "none"
    /\ UNCHANGED <<life, pool, last>>

Give ==
    /\ stage = "serving"
    /\ \E i \in 1..Len(pool) :
        /\ last' = i
        /\ LoopsDie \/ life[pool[i]] = "running"
        /\ Len(pool) \in TurnSizes => i = (last % Len(pool)) + 1
    /\ UNCHANGED <<stage, life, pool>>

Close == stage = "serving" /\ stage' = "emptying" /\ UNCHANGED <<life, pool, last>>

\* One after the other, and not before the one ahead of it is gone.
Stop(t) ==
    /\ stage = "emptying" /\ Moves(t, "running", "stopping")
    /\ \E i \in 1..Len(pool) : pool[i] = t /\ \A j \in 1..(i - 1) : life[pool[j]] = "gone"
    /\ UNCHANGED <<stage, pool, last>>

Exit(t) == Moves(t, "stopping", "gone") /\ UNCHANGED <<stage, pool, last>>

\* A loop of the pool that is serving ends by itself.
Die(t) ==
    /\ LoopsDie /\ stage = "serving" /\ t \in Pooled /\ Moves(t, "running", "gone")
    /\ UNCHANGED <<stage, pool, last>>

Empty ==
    /\ stage = "emptying" /\ stage' = "empty" /\ pool' = <<>>
    /\ \A t \in Threads : life[t] \in {"none", "gone"}
    /\ UNCHANGED <<life, last>>

Next ==
    \/ Serve \/ Give \/ Close \/ Empty
    \/ \E t \in Threads : Create(t) \/ Begin(t) \/ Add(t) \/ Stop(t) \/ Exit(t) \/ Die(t)

Spec == Init /\ [][Next]_vars
=============================================================================
