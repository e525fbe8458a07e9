--------------------------------- MODULE Timer ---------------------------------
(***************************************************************************)
(* TimerHandlers on one loop: timerfds that expire by themselves, the       *)
(* loop's batches of ready descriptors, and user code on the loop's thread, *)
(* in on_timer and in other handlers, that starts, stops and replaces       *)
(* timers.  A timer stands for its descriptor: a new one may get the        *)
(* descriptor of one that was deleted.  Intervals are positive.             *)
(***************************************************************************)
EXTENDS Naturals

CONSTANTS
    Timers,
    None,           \* no timer
    MaxTicks,       \* bound: expirations counted before they are read
    RestartInBatch, \* may a timer be started while the batch holds an entry of it?
    LateRepeat      \* may set_repeat(true) be called while a timer is registered?

ASSUME TimersAssumption == None \notin Timers
ASSUME TicksAssumption == MaxTicks \in Nat \ {0}
ASSUME UserAssumption == RestartInBatch \in BOOLEAN /\ LateRepeat \in BOOLEAN

VARIABLES
    armed,      \* what the timerfd will do: off, once or periodic
    ticks,      \* expirations not read yet
    repeat_,
    started_,
    registered, \* is it in the loop's handlers_ and interest list?
    wanted,     \* history: started, and neither stopped nor finished since
    pc,         \* the loop: poll, dispatch or on_timer
    ready,      \* timers whose entry of this batch is not dispatched yet
    current,    \* the timer in on_timer, or None
    crash       \* the assertion that failed, or "none"

clock == <<armed, ticks>>
loop == <<pc, ready, current>>
vars == <<clock, repeat_, started_, registered, wanted, loop, crash>>

\* Before run(), as in a batch without entries, user code starts timers.
Init ==
    /\ armed = [t \in Timers |-> "off"] /\ ticks = [t \in Timers |-> 0]
    /\ repeat_ \in [Timers -> BOOLEAN] /\ started_ = [t \in Timers |-> FALSE]
    /\ registered = [t \in Timers |-> FALSE] /\ wanted = [t \in Timers |-> FALSE]
    /\ pc = "dispatch" /\ ready = {} /\ current = None /\ crash = "none"

(***************************************************************************)
(* The calls of user code.                                                 *)
(***************************************************************************)

StartVariantIntervalOnly(t) ==
    /\ armed' = [armed EXCEPT ![t] = IF repeat_[t] THEN "off" ELSE "once"]
    /\ ticks' = [ticks EXCEPT ![t] = 0]
    /\ registered' = [registered EXCEPT ![t] = TRUE] /\ started_' = [started_ EXCEPT ![t] = TRUE]
    /\ wanted' = [wanted EXCEPT ![t] = TRUE] /\ UNCHANGED <<crash, repeat_>>

\* start(): timerfd_settime, then register_event, which fails if the timer is
\* registered.
start(t) ==
    /\ armed' = [armed EXCEPT ![t] = IF repeat_[t] THEN "periodic" ELSE "once"]
    /\ ticks' = [ticks EXCEPT ![t] = 0]
    /\ IF registered[t] THEN crash' = "register" /\ UNCHANGED <<registered, started_>>
       ELSE /\ registered' = [registered EXCEPT ![t] = TRUE]
            /\ started_' = [started_ EXCEPT ![t] = TRUE] /\ UNCHANGED crash
    /\ wanted' = [wanted EXCEPT ![t] = TRUE] /\ UNCHANGED repeat_

StopVariantAtNext(t) ==
    /\ repeat_' = [repeat_ EXCEPT ![t] = IF started_[t] THEN FALSE ELSE @]
    /\ registered' = [registered EXCEPT ![t] = @ /\ repeat_[t]]
    /\ wanted' = [wanted EXCEPT ![t] = FALSE] /\ UNCHANGED <<clock, started_, crash>>

StopVariantDisarms(t) ==
    /\ armed' = [armed EXCEPT ![t] = IF started_[t] THEN "off" ELSE @]
    /\ ticks' = [ticks EXCEPT ![t] = IF started_[t] THEN 0 ELSE @]
    /\ wanted' = [wanted EXCEPT ![t] = FALSE] /\ UNCHANGED <<repeat_, registered, started_, crash>>

\* stop(): timerfd_settime fails, being given NULL, so the timerfd goes on.
stop(t) ==
    /\ repeat_' = [repeat_ EXCEPT ![t] = IF started_[t] THEN FALSE ELSE @]
    /\ registered' = [registered EXCEPT ![t] = IF started_[t] THEN FALSE ELSE @]
    /\ wanted' = [wanted EXCEPT ![t] = FALSE] /\ UNCHANGED <<clock, started_, crash>>

set_repeat(t, repeat) ==
    /\ repeat_' = [repeat_ EXCEPT ![t] = repeat]
    /\ UNCHANGED <<clock, started_, registered, wanted, crash>>

\* Delete a timer that is not registered and create one, which gets the same
\* descriptor.
Replace(t) ==
    /\ ~registered[t] /\ t # current
    /\ armed' = [armed EXCEPT ![t] = "off"] /\ ticks' = [ticks EXCEPT ![t] = 0]
    /\ \E repeat \in BOOLEAN : repeat_' = [repeat_ EXCEPT ![t] = repeat]
    /\ started_' = [started_ EXCEPT ![t] = FALSE] /\ wanted' = [wanted EXCEPT ![t] = FALSE]
    /\ UNCHANGED <<registered, crash>>

UserCall ==
    /\ pc \in {"dispatch", "on_timer"} /\ UNCHANGED loop
    /\ \E t \in Timers :
        \/ (t \in ready => RestartInBatch) /\ start(t)
        \/ stop(t)
        \/ \E repeat \in BOOLEAN :
            (repeat /\ registered[t] => LateRepeat) /\ set_repeat(t, repeat)
        \/ Replace(t)

(***************************************************************************)
(* The kernel and the loop.                                                *)
(***************************************************************************)

Expire(t) ==
    /\ armed[t] # "off" /\ ticks[t] < MaxTicks
    /\ ticks' = [ticks EXCEPT ![t] = @ + 1]
    /\ armed' = [armed EXCEPT ![t] = IF @ = "once" THEN "off" ELSE @]
    /\ UNCHANGED <<repeat_, started_, registered, wanted, loop, crash>>

HandleEvents ==
    /\ pc = "poll" /\ pc' = "dispatch"
    /\ ready' = {t \in Timers : registered[t] /\ ticks[t] > 0}
    /\ UNCHANGED <<clock, repeat_, started_, registered, wanted, current, crash>>

\* The handler is gone from handlers_.
DispatchNull ==
    /\ pc = "dispatch"
    /\ \E t \in ready : ~registered[t] /\ ready' = ready \ {t}
    /\ UNCHANGED <<clock, repeat_, started_, registered, wanted, pc, current, crash>>

\* do_handle_read, up to on_timer: read() returns the count and resets it, or
\* fails with EAGAIN.
DispatchRead ==
    /\ pc = "dispatch"
    /\ \E t \in ready :
        /\ registered[t] /\ ready' = ready \ {t}
        /\ IF ticks[t] = 0 THEN crash' = "read" /\ UNCHANGED <<ticks, pc, current>>
           ELSE /\ ticks' = [ticks EXCEPT ![t] = 0]
                /\ pc' = "on_timer" /\ current' = t /\ UNCHANGED crash
    /\ UNCHANGED <<armed, repeat_, started_, registered, wanted>>

ReturnVariantKeeps ==
    /\ pc = "on_timer" /\ pc' = "dispatch" /\ current' = None
    /\ UNCHANGED <<clock, repeat_, started_, registered, wanted, ready, crash>>

\* do_handle_read, after on_timer.
Return ==
    /\ pc = "on_timer" /\ pc' = "dispatch" /\ current' = None /\ UNCHANGED ready
    /\ IF repeat_[current]
       THEN UNCHANGED <<clock, repeat_, started_, registered, wanted, crash>>
       ELSE stop(current)

EndBatch ==
    /\ pc = "dispatch" /\ ready = {} /\ pc' = "poll"
    /\ UNCHANGED <<clock, repeat_, started_, registered, wanted, ready, current, crash>>

LoopStep == HandleEvents \/ DispatchNull \/ DispatchRead \/ Return \/ EndBatch

\* A failed assertion ends the process.
Next == crash = "none" /\ (LoopStep \/ UserCall \/ \E t \in Timers : Expire(t))

Spec == Init /\ [][Next]_vars

\* Time passes, and handlers return.
FairSpec ==
    Spec /\ WF_vars(crash = "none" /\ LoopStep)
         /\ \A t \in Timers : WF_vars(crash = "none" /\ Expire(t))

(***************************************************************************)
(* Properties.                                                             *)
(***************************************************************************)

TypeOK ==
    /\ armed \in [Timers -> {"off", "once", "periodic"}] /\ ticks \in [Timers -> 0..MaxTicks]
    /\ repeat_ \in [Timers -> BOOLEAN] /\ started_ \in [Timers -> BOOLEAN]
    /\ registered \in [Timers -> BOOLEAN] /\ wanted \in [Timers -> BOOLEAN]
    /\ \A t \in Timers : registered[t] => started_[t]     \* else stop() does nothing
    /\ pc \in {"poll", "dispatch", "on_timer"} /\ ready \subseteq Timers
    /\ current \in Timers \cup {None} /\ (current = None <=> pc # "on_timer")
    /\ crash \in {"none", "register", "read"}

\* do_handle_read: assert(n == sizeof(uint64_t)), also when timers are stopped,
\* or deleted and replaced, while an entry of theirs stands in the batch.
ReadSucceeds == crash # "read"

\* After stop() has returned on_timer is not called until the timer is started
\* again, although stop() leaves the timerfd running and the batch as it is.
StoppedIsSilent == [][pc' = "on_timer" /\ pc # "on_timer" => wanted[current']]_vars

\* A registered timer has an expiration to come, or one to be read, or is in
\* its on_timer: none stays registered for nothing, where start() would fail.
NoDeafTimer ==
    \A t \in Timers : registered[t] => armed[t] # "off" \/ ticks[t] > 0 \/ current = t

\* A registered timer fires, again and again if it repeats, until it is stopped.
TimerFires ==
    \A t \in Timers : registered[t] ~> (current = t \/ ~registered[t] \/ crash # "none")
=============================================================================
