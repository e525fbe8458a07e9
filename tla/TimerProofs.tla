------------------------------ MODULE TimerProofs ------------------------------
(***************************************************************************)
(* Timer for any set of timers and any bound of expirations.  What stop()   *)
(* promises holds whatever user code does; the assertion in do_handle_read  *)
(* and the absence of deaf timers need one restriction of it each.          *)
(***************************************************************************)
EXTENDS Timer, TLAPS

USE TimersAssumption, TicksAssumption, UserAssumption

-----------------------------------------------------------------------------
(* Types, and what is registered has been asked for.                       *)

\* on_timer is only ever called through handlers_, and stop() leaves nothing there.
RegisteredIsWanted == \A t \in Timers : registered[t] => wanted[t]

AskedInv == TypeOK /\ RegisteredIsWanted

LEMMA AskedInit == Init => AskedInv
  BY DEF Init, AskedInv, TypeOK, RegisteredIsWanted

LEMMA AskedStart == ASSUME AskedInv, NEW t \in Timers, start(t), UNCHANGED loop PROVE AskedInv'
  <1>1. /\ armed' \in [Timers -> {"off", "once", "periodic"}]
        /\ ticks' \in [Timers -> 0..MaxTicks]
    BY DEF start, AskedInv, TypeOK
  <1>2. /\ repeat_' \in [Timers -> BOOLEAN] /\ wanted' \in [Timers -> BOOLEAN]
        /\ \A u \in Timers : wanted'[u] <=> (wanted[u] \/ u = t)
    BY DEF start, AskedInv, TypeOK
  <1>3. /\ pc' \in {"poll", "dispatch", "on_timer"} /\ ready' \subseteq Timers
        /\ current' \in Timers \cup {None} /\ (current' = None <=> pc' # "on_timer")
    BY DEF loop, AskedInv, TypeOK
  <1>4. CASE registered[t]
    <2>1. crash' = "register" /\ registered' = registered /\ started_' = started_
      BY <1>4 DEF start
    <2> QED
      BY <1>1, <1>2, <1>3, <2>1 DEF AskedInv, TypeOK, RegisteredIsWanted
  <1>5. CASE ~registered[t]
    <2>1. /\ crash' = crash /\ registered' = [registered EXCEPT ![t] = TRUE]
          /\ started_' = [started_ EXCEPT ![t] = TRUE]
      BY <1>5 DEF start
    <2>2. /\ registered' \in [Timers -> BOOLEAN] /\ started_' \in [Timers -> BOOLEAN]
          /\ \A u \in Timers : registered'[u] => started_'[u] /\ wanted'[u]
      BY <1>2, <2>1 DEF AskedInv, TypeOK, RegisteredIsWanted
    <2> QED
      BY <1>1, <1>2, <1>3, <2>1, <2>2 DEF AskedInv, TypeOK, RegisteredIsWanted
  <1> QED
    BY <1>4, <1>5

LEMMA AskedStop ==
  ASSUME AskedInv, NEW t \in Timers, stop(t),
         pc' \in {"poll", "dispatch", "on_timer"}, ready' = ready,
         current' \in Timers \cup {None}, current' = None <=> pc' # "on_timer"
  PROVE  AskedInv'
  BY DEF stop, clock, AskedInv, TypeOK, RegisteredIsWanted

LEMMA AskedUser == ASSUME AskedInv, UserCall PROVE AskedInv'
  <1>1. PICK t \in Timers :
            \/ start(t) \/ stop(t) \/ Replace(t)
            \/ \E repeat \in BOOLEAN : set_repeat(t, repeat)
    BY DEF UserCall
  <1>2. UNCHANGED loop
    BY DEF UserCall
  <1>3. CASE start(t)
    BY <1>2, <1>3, AskedStart
  <1>4. CASE stop(t)
    BY <1>2, <1>4, AskedStop DEF loop, AskedInv, TypeOK
  <1>5. CASE Replace(t)
    BY <1>2, <1>5 DEF Replace, loop, AskedInv, TypeOK, RegisteredIsWanted
  <1>6. CASE \E repeat \in BOOLEAN : set_repeat(t, repeat)
    BY <1>2, <1>6 DEF set_repeat, loop, clock, AskedInv, TypeOK, RegisteredIsWanted
  <1> QED
    BY <1>1, <1>3, <1>4, <1>5, <1>6

LEMMA AskedLoop == ASSUME AskedInv, LoopStep PROVE AskedInv'
  <1>1. CASE HandleEvents
    BY <1>1 DEF HandleEvents, clock, AskedInv, TypeOK, RegisteredIsWanted
  <1>2. CASE DispatchNull
    BY <1>2 DEF DispatchNull, clock, AskedInv, TypeOK, RegisteredIsWanted
  <1>3. CASE DispatchRead
    BY <1>3 DEF DispatchRead, AskedInv, TypeOK, RegisteredIsWanted
  <1>4. CASE Return
    <2>1. CASE repeat_[current]
      BY <1>4, <2>1 DEF Return, clock, AskedInv, TypeOK, RegisteredIsWanted
    <2>2. CASE ~repeat_[current]
      <3>1. current \in Timers /\ stop(current)
        BY <1>4, <2>2 DEF Return, AskedInv, TypeOK
      <3> QED
        BY <1>4, <3>1, AskedStop DEF Return
    <2> QED
      BY <2>1, <2>2
  <1>5. CASE EndBatch
    BY <1>5 DEF EndBatch, clock, AskedInv, TypeOK, RegisteredIsWanted
  <1> QED
    BY <1>1, <1>2, <1>3, <1>4, <1>5 DEF LoopStep

LEMMA AskedExpire == ASSUME AskedInv, NEW t \in Timers, Expire(t) PROVE AskedInv'
  BY DEF Expire, loop, AskedInv, TypeOK, RegisteredIsWanted

LEMMA AskedStep == AskedInv /\ [Next]_vars => AskedInv'
  <1> SUFFICES ASSUME AskedInv, [Next]_vars PROVE AskedInv'
    OBVIOUS
  <1>1. CASE UNCHANGED vars
    BY <1>1 DEF vars, clock, loop, AskedInv, TypeOK, RegisteredIsWanted
  <1> QED
    BY <1>1, AskedLoop, AskedUser, AskedExpire DEF Next

\* The variables keep their types, and what is registered was started.
THEOREM TimerTypeCorrect == Spec => []TypeOK
  <1>1. AskedInv => TypeOK
    BY DEF AskedInv
  <1> QED
    BY <1>1, AskedInit, AskedStep, PTL DEF Spec

\* stop() is final: on_timer is called only for timers that were started after it,
\* whatever else user code does.
THEOREM StopSilences == Spec => StoppedIsSilent
  <1>1. AskedInv /\ [Next]_vars => [pc' = "on_timer" /\ pc # "on_timer" => wanted[current']]_vars
    <2> SUFFICES ASSUME AskedInv, Next, pc' = "on_timer", pc # "on_timer"
                 PROVE  wanted[current']
      BY DEF vars, clock, loop
    <2>1. DispatchRead
      BY DEF Next, LoopStep, HandleEvents, DispatchNull, Return, EndBatch, UserCall, Expire, loop
    <2> QED
      BY <2>1 DEF DispatchRead, AskedInv, TypeOK, RegisteredIsWanted
  <1>2. Spec => []AskedInv
    BY AskedInit, AskedStep, PTL DEF Spec
  <1> QED
    BY <1>1, <1>2, PTL DEF Spec, StoppedIsSilent

-----------------------------------------------------------------------------
(* The assertion in do_handle_read.                                        *)

\* The entry of a registered timer stands for an expiration not read yet.
EntriesAreFresh == \A t \in ready : registered[t] => ticks[t] > 0

ReadInv == EntriesAreFresh /\ ReadSucceeds

LEMMA ReadStep ==
  ASSUME ~RestartInBatch, AskedInv, ReadInv, [Next]_vars PROVE ReadInv'
  <1>1. CASE UNCHANGED vars
    BY <1>1 DEF vars, clock, loop, ReadInv, EntriesAreFresh, ReadSucceeds
  <1>2. CASE UserCall
    <2>1. UNCHANGED loop
      BY <1>2 DEF UserCall
    <2>2. PICK t \in Timers :
              \/ t \notin ready /\ start(t)
              \/ stop(t) \/ Replace(t)
              \/ \E repeat \in BOOLEAN : set_repeat(t, repeat)
      BY <1>2 DEF UserCall
    <2>3. CASE t \notin ready /\ start(t)
      BY <2>1, <2>3 DEF start, loop, ReadInv, EntriesAreFresh, ReadSucceeds, AskedInv, TypeOK
    <2>4. CASE stop(t)
      BY <2>1, <2>4 DEF stop, clock, loop, ReadInv, EntriesAreFresh, ReadSucceeds, AskedInv, TypeOK
    <2>5. CASE Replace(t)
      BY <2>1, <2>5 DEF Replace, loop, ReadInv, EntriesAreFresh, ReadSucceeds, AskedInv, TypeOK
    <2>6. CASE \E repeat \in BOOLEAN : set_repeat(t, repeat)
      BY <2>1, <2>6 DEF set_repeat, clock, loop, ReadInv, EntriesAreFresh, ReadSucceeds
    <2> QED
      BY <2>2, <2>3, <2>4, <2>5, <2>6
  <1>3. CASE HandleEvents
    BY <1>3 DEF HandleEvents, clock, ReadInv, EntriesAreFresh, ReadSucceeds
  <1>4. CASE DispatchNull
    BY <1>4 DEF DispatchNull, clock, ReadInv, EntriesAreFresh, ReadSucceeds
  <1>5. CASE DispatchRead
    <2>1. PICK t \in ready :
            /\ registered[t] /\ ready' = ready \ {t}
            /\ IF ticks[t] = 0 THEN crash' = "read" /\ UNCHANGED <<ticks, pc, current>>
               ELSE /\ ticks' = [ticks EXCEPT ![t] = 0]
                    /\ pc' = "on_timer" /\ current' = t /\ UNCHANGED crash
      BY <1>5 DEF DispatchRead
    <2>2. ticks[t] > 0
      BY <2>1 DEF ReadInv, EntriesAreFresh
    <2>3. ticks' = [ticks EXCEPT ![t] = 0] /\ UNCHANGED <<crash, registered>>
      BY <1>5, <2>1, <2>2 DEF DispatchRead
    <2> QED
      BY <2>1, <2>3 DEF ReadInv, EntriesAreFresh, ReadSucceeds, AskedInv, TypeOK
  <1>6. CASE Return
    <2>1. CASE repeat_[current]
      BY <1>6, <2>1 DEF Return, clock, ReadInv, EntriesAreFresh, ReadSucceeds
    <2>2. CASE ~repeat_[current]
      <3>1. current \in Timers /\ stop(current) /\ ready' = ready
        BY <1>6, <2>2 DEF Return, AskedInv, TypeOK
      <3> QED
        BY <3>1 DEF stop, clock, ReadInv, EntriesAreFresh, ReadSucceeds, AskedInv, TypeOK
    <2> QED
      BY <2>1, <2>2
  <1>7. CASE EndBatch
    BY <1>7 DEF EndBatch, clock, ReadInv, EntriesAreFresh, ReadSucceeds
  <1>8. ASSUME NEW t \in Timers, Expire(t) PROVE ReadInv'
    BY <1>8 DEF Expire, loop, ReadInv, EntriesAreFresh, ReadSucceeds, AskedInv, TypeOK
  <1> QED
    BY <1>1, <1>2, <1>3, <1>4, <1>5, <1>6, <1>7, <1>8 DEF Next, LoopStep

\* The read() of do_handle_read never fails if no timer is started while the batch
\* holds an entry of it; stopping and replacing timers in a batch is safe.
THEOREM ReadNeverFails == ASSUME ~RestartInBatch PROVE Spec => []ReadSucceeds
  <1>1. Init => ReadInv
    BY DEF Init, ReadInv, EntriesAreFresh, ReadSucceeds
  <1>2. ReadInv => ReadSucceeds
    BY DEF ReadInv
  <1>3. AskedInv /\ ReadInv /\ [Next]_vars => ReadInv'
    BY ReadStep
  <1> QED
    BY <1>1, <1>2, <1>3, AskedInit, AskedStep, PTL DEF Spec

-----------------------------------------------------------------------------
(* No timer stays registered for nothing.                                  *)

\* do_handle_read keeps a timer that repeats registered, so its timerfd must.
RepeatersTick == \A t \in Timers : registered[t] /\ repeat_[t] => armed[t] = "periodic"

DeafInv == RepeatersTick /\ NoDeafTimer

LEMMA DeafStep ==
  ASSUME ~LateRepeat, AskedInv, DeafInv, [Next]_vars PROVE DeafInv'
  <1>1. CASE UNCHANGED vars
    BY <1>1 DEF vars, clock, loop, DeafInv, RepeatersTick, NoDeafTimer
  <1>2. CASE UserCall
    <2>1. UNCHANGED loop
      BY <1>2 DEF UserCall
    <2>2. PICK t \in Timers :
              \/ start(t) \/ stop(t) \/ Replace(t)
              \/ \E repeat \in BOOLEAN : (repeat => ~registered[t]) /\ set_repeat(t, repeat)
      BY <1>2 DEF UserCall
    <2>3. CASE start(t)
      BY <2>1, <2>3 DEF start, loop, DeafInv, RepeatersTick, NoDeafTimer, AskedInv, TypeOK
    <2>4. CASE stop(t)
      BY <2>1, <2>4 DEF stop, clock, loop, DeafInv, RepeatersTick, NoDeafTimer, AskedInv, TypeOK
    <2>5. CASE Replace(t)
      BY <2>1, <2>5 DEF Replace, loop, DeafInv, RepeatersTick, NoDeafTimer, AskedInv, TypeOK
    <2>6. CASE \E repeat \in BOOLEAN : (repeat => ~registered[t]) /\ set_repeat(t, repeat)
      BY <2>1, <2>6
      DEF set_repeat, clock, loop, DeafInv, RepeatersTick, NoDeafTimer, AskedInv, TypeOK
    <2> QED
      BY <2>2, <2>3, <2>4, <2>5, <2>6
  <1>3. CASE HandleEvents
    BY <1>3 DEF HandleEvents, clock, DeafInv, RepeatersTick, NoDeafTimer
  <1>4. CASE DispatchNull
    BY <1>4 DEF DispatchNull, clock, DeafInv, RepeatersTick, NoDeafTimer
  <1>5. CASE DispatchRead
    <2>1. current = None
      BY <1>5 DEF DispatchRead, AskedInv, TypeOK
    <2> QED
      BY <1>5, <2>1 DEF DispatchRead, DeafInv, RepeatersTick, NoDeafTimer, AskedInv, TypeOK
  <1>6. CASE Return
    <2>1. current \in Timers /\ current' = None
      BY <1>6 DEF Return, AskedInv, TypeOK
    <2>2. CASE repeat_[current]
      BY <1>6, <2>1, <2>2 DEF Return, clock, DeafInv, RepeatersTick, NoDeafTimer
    <2>3. CASE ~repeat_[current]
      <3>1. stop(current)
        BY <1>6, <2>3 DEF Return
      <3> QED
        BY <2>1, <3>1 DEF stop, clock, DeafInv, RepeatersTick, NoDeafTimer, AskedInv, TypeOK
    <2> QED
      BY <2>2, <2>3
  <1>7. CASE EndBatch
    BY <1>7 DEF EndBatch, clock, DeafInv, RepeatersTick, NoDeafTimer
  <1>8. ASSUME NEW t \in Timers, Expire(t) PROVE DeafInv'
    BY <1>8 DEF Expire, loop, DeafInv, RepeatersTick, NoDeafTimer, AskedInv, TypeOK
  <1> QED
    BY <1>1, <1>2, <1>3, <1>4, <1>5, <1>6, <1>7, <1>8 DEF Next, LoopStep

\* If set_repeat(true) is called only before start(), no registered timer is deaf.
THEOREM RegisteredTimersTick == ASSUME ~LateRepeat PROVE Spec => []NoDeafTimer
  <1>1. Init => DeafInv
    BY DEF Init, DeafInv, RepeatersTick, NoDeafTimer
  <1>2. DeafInv => NoDeafTimer
    BY DEF DeafInv
  <1>3. AskedInv /\ DeafInv /\ [Next]_vars => DeafInv'
    BY DeafStep
  <1> QED
    BY <1>1, <1>2, <1>3, AskedInit, AskedStep, PTL DEF Spec
=============================================================================
