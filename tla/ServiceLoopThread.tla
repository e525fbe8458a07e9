--------------------------- MODULE ServiceLoopThread ---------------------------
(***************************************************************************)
(* ServiceLoopThread: an object whose thread builds a ServiceLoop on its   *)
(* own stack, publishes the pointer under a mutex and runs the loop, while *)
(* its owner starts it (start_loop) and later quits and joins it (the      *)
(* destructor).  The loop itself is reduced to its check of quit_, its     *)
(* eventfd and its destruction; Reactor models the rest.                   *)
(***************************************************************************)
EXTENDS Integers

CONSTANT Threads    \* the ServiceLoopThread objects

VARIABLES
    owner,      \* the owner's call on each object, see OwnerSteps
    thread,     \* where thread_routine is, see ThreadSteps
    loop_,      \* is ServiceLoopThread::loop_ set?
    mutex,      \* mutex_locker_: free, or held by "owner" or "thread"
    quit_,      \* ServiceLoop::quit_
    eventfd,    \* counter of the loop's wakeup eventfd
    crash       \* what brought the process down, or "none"

threadVars == <<owner, thread, loop_, mutex, quit_, eventfd, crash>>

\* start_loop: check, wait (about to call wait()), waiting, woken, started;
\* ~ServiceLoopThread: flagged (quit_ set), tested (wakeup_ seen), joining, joined.
OwnerSteps == {"idle", "check", "wait", "waiting", "woken", "started",
               "flagged", "tested", "joining", "joined"}

\* closed: ~ServiceLoop has closed the eventfd; exited: the stack is gone.
ThreadSteps == {"none", "construct", "lock", "publish", "notify", "unlock",
                "check", "poll", "returned", "closed", "exited"}

HoldsLoop == {"lock", "publish", "notify", "unlock", "check", "poll", "returned"}

ThreadInit ==
    /\ owner = [t \in Threads |-> "idle"] /\ thread = [t \in Threads |-> "none"]
    /\ loop_ = [t \in Threads |-> FALSE] /\ mutex = [t \in Threads |-> "free"]
    /\ quit_ = [t \in Threads |-> FALSE] /\ eventfd = [t \in Threads |-> 0]
    /\ crash = "none"

OwnerMoves(t, from, to) == owner[t] = from /\ owner' = [owner EXCEPT ![t] = to]
ThreadMoves(t, from, to) == thread[t] = from /\ thread' = [thread EXCEPT ![t] = to]

(***************************************************************************)
(* The owner.                                                              *)
(***************************************************************************)

start_loop(t) ==
    /\ OwnerMoves(t, "idle", "check") /\ ThreadMoves(t, "none", "construct")
    /\ UNCHANGED <<loop_, mutex, quit_, eventfd, crash>>

\* while (NULL == loop_), read without the mutex.
TestLoop(t) ==
    /\ OwnerMoves(t, "check", IF loop_[t] THEN "started" ELSE "wait")
    /\ UNCHANGED <<thread, loop_, mutex, quit_, eventfd, crash>>

\* cond_var_.wait() without holding the mutex, which POSIX leaves undefined:
\* glibc enqueues the caller and releases the mutex, whoever holds it.
Wait(t) ==
    /\ OwnerMoves(t, "wait", "waiting") /\ mutex' = [mutex EXCEPT ![t] = "free"]
    /\ UNCHANGED <<thread, loop_, quit_, eventfd, crash>>

\* POSIX lets a waiter wake up without a signal.
SpuriousWakeup(t) ==
    /\ OwnerMoves(t, "waiting", "woken")
    /\ UNCHANGED <<thread, loop_, mutex, quit_, eventfd, crash>>

\* Back from wait() the caller holds the mutex, and start_loop never releases it.
Relock(t) ==
    /\ mutex[t] = "free" /\ mutex' = [mutex EXCEPT ![t] = "owner"]
    /\ OwnerMoves(t, "woken", "check")
    /\ UNCHANGED <<thread, loop_, quit_, eventfd, crash>>

\* loop_->quit(): the flag first, then wakeup_event().
QuitFlag(t) ==
    /\ OwnerMoves(t, "started", "flagged") /\ quit_' = [quit_ EXCEPT ![t] = TRUE]
    /\ UNCHANGED <<thread, loop_, mutex, eventfd, crash>>

\* if (wakeup_): null only once the loop, then freed memory, has been destroyed.
QuitTest(t) ==
    /\ \/ OwnerMoves(t, "flagged", "tested")
       \/ thread[t] = "exited" /\ OwnerMoves(t, "flagged", "joining")
    /\ UNCHANGED <<thread, loop_, mutex, quit_, eventfd, crash>>

\* write_some(): the handler's descriptor is -1 once it is closed, and the
\* write's assertion fails; of a freed handler either may be read.
QuitWrite(t) ==
    /\ OwnerMoves(t, "tested", "joining")
    /\ eventfd' = [eventfd EXCEPT ![t] = IF thread[t] \in HoldsLoop THEN @ + 1 ELSE @]
    /\ crash' \in CASE thread[t] \in HoldsLoop -> {"none"}
                    [] thread[t] = "closed" -> {"write_some"}
                    [] OTHER -> {"none", "write_some"}
    /\ UNCHANGED <<thread, loop_, mutex, quit_>>

JoinVariantDetaches(t) ==
    /\ OwnerMoves(t, "joining", "joined")
    /\ UNCHANGED <<thread, loop_, mutex, quit_, eventfd, crash>>

\* join_thread; the object is deleted after it.
Join(t) ==
    /\ thread[t] = "exited" /\ OwnerMoves(t, "joining", "joined")
    /\ UNCHANGED <<thread, loop_, mutex, quit_, eventfd, crash>>

(***************************************************************************)
(* The thread.                                                             *)
(***************************************************************************)

Construct(t) ==
    /\ ThreadMoves(t, "construct", "lock")
    /\ UNCHANGED <<owner, loop_, mutex, quit_, eventfd, crash>>

Lock(t) ==
    /\ ThreadMoves(t, "lock", "publish")
    /\ mutex[t] = "free" /\ mutex' = [mutex EXCEPT ![t] = "thread"]
    /\ UNCHANGED <<owner, loop_, quit_, eventfd, crash>>

Publish(t) ==
    /\ ThreadMoves(t, "publish", "notify") /\ loop_' = [loop_ EXCEPT ![t] = TRUE]
    /\ UNCHANGED <<owner, mutex, quit_, eventfd, crash>>

\* A signal wakes a caller that is waiting and is lost otherwise.
Notify(t) ==
    /\ ThreadMoves(t, "notify", "unlock")
    /\ owner' = [owner EXCEPT ![t] = IF @ = "waiting" THEN "woken" ELSE @]
    /\ UNCHANGED <<loop_, mutex, quit_, eventfd, crash>>

\* ~MutexLockGuard unlocks whoever holds the mutex.
Unlock(t) ==
    /\ ThreadMoves(t, "unlock", "check") /\ mutex' = [mutex EXCEPT ![t] = "free"]
    /\ UNCHANGED <<owner, loop_, quit_, eventfd, crash>>

RunCheckVariantStale(t) ==
    /\ ThreadMoves(t, "check", "poll")
    /\ UNCHANGED <<owner, loop_, mutex, quit_, eventfd, crash>>

RunCheck(t) ==
    /\ ThreadMoves(t, "check", IF quit_[t] THEN "returned" ELSE "poll")
    /\ UNCHANGED <<owner, loop_, mutex, quit_, eventfd, crash>>

\* One turn of run(), which the poll timeout ends if nothing wakes it.
Turn(t) ==
    /\ ThreadMoves(t, "poll", "check") /\ eventfd' = [eventfd EXCEPT ![t] = 0]
    /\ UNCHANGED <<owner, loop_, mutex, quit_, crash>>

\* ~ServiceLoop closes the wakeup handler, deletes it and ends the routine.
CloseWakeup(t) ==
    /\ ThreadMoves(t, "returned", "closed")
    /\ UNCHANGED <<owner, loop_, mutex, quit_, eventfd, crash>>

Exit(t) ==
    /\ ThreadMoves(t, "closed", "exited")
    /\ UNCHANGED <<owner, loop_, mutex, quit_, eventfd, crash>>

thread_routine(t) ==
    \/ Construct(t) \/ Lock(t) \/ Publish(t) \/ Notify(t) \/ Unlock(t)
    \/ RunCheck(t) \/ Turn(t) \/ CloseWakeup(t) \/ Exit(t)

\* The owner's steps inside a call it has begun.
OwnerCall(t) == TestLoop(t) \/ Wait(t) \/ Relock(t) \/ QuitTest(t) \/ QuitWrite(t) \/ Join(t)

ThreadStep ==
    \E t \in Threads :
        \/ start_loop(t) \/ QuitFlag(t) \/ OwnerCall(t) \/ SpuriousWakeup(t) \/ thread_routine(t)

\* A failed assert ends the process.
ThreadNext == crash = "none" /\ ThreadStep

ThreadSpec == ThreadInit /\ [][ThreadNext]_threadVars

\* The scheduler runs both threads; nothing makes a spurious wakeup happen.
ThreadFairSpec ==
    /\ ThreadSpec
    /\ \A t \in Threads : /\ WF_threadVars(crash = "none" /\ thread_routine(t))
                          /\ WF_threadVars(crash = "none" /\ OwnerCall(t))

(***************************************************************************)
(* Properties.                                                             *)
(***************************************************************************)

ThreadTypeOK ==
    /\ owner \in [Threads -> OwnerSteps] /\ thread \in [Threads -> ThreadSteps]
    /\ loop_ \in [Threads -> BOOLEAN] /\ mutex \in [Threads -> {"free", "owner", "thread"}]
    /\ quit_ \in [Threads -> BOOLEAN] /\ eventfd \in [Threads -> Nat]
    /\ crash \in {"none", "write_some"}

\* start_loop returns only a loop that is built and that keeps running until
\* its owner quits it, although the pointer is read without the mutex and the
\* mutex excludes nobody.
StartedLoopRuns ==
    \A t \in Threads : owner[t] = "started" =>
        loop_[t] /\ thread[t] \in {"notify", "unlock", "check", "poll"}

\* The object, its mutex and its stack outlive each other in the right order:
\* nothing of the thread is left when the destructor ends.
JoinedIsGone == \A t \in Threads : owner[t] = "joined" => thread[t] = "exited"

\* start_loop returns, as the callers of ThpoolServiceLoop::open rely on.
StartReturns == \A t \in Threads : owner[t] = "check" ~> owner[t] = "started"
=============================================================================
