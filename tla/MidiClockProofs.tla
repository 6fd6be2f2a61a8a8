-------------------------- MODULE MidiClockProofs ---------------------------
(***************************************************************************)
(* Theorems about MidiClock, for any number of ticks to the beat.          *)
(***************************************************************************)
EXTENDS MidiClock, TLAPS

\* The position advances within the beat.
LEMMA NextInBeat ==
    ASSUME NEW t \in 0..TicksPerBeat - 1
    PROVE  (t + 1) % TicksPerBeat \in 0..TicksPerBeat - 1
BY MidiClockAssumption

-----------------------------------------------------------------------------
\* The clock, its timer and the slave keep their types: the position stays in the beat.
THEOREM ClockTypes == ClockSpec => []ClockTypeOK
<1>1. ClockInit => ClockTypeOK
    <2>1. 0 \in 0..TicksPerBeat - 1
        BY MidiClockAssumption
    <2>2. Rest \in {"none", "idle"}
        BY DEF Rest
    <2>3. ClockInit => {running, timerOn, armed, rolling} \subseteq BOOLEAN
        BY Zenon DEF ClockInit
    <2>4. ClockInit => {tickIn, seen, pos} \subseteq 0..TicksPerBeat - 1
        BY <2>1 DEF ClockInit
    <2>5. ClockInit => /\ timer \in {"posix", "esp"} /\ tail \in 0..2
                       /\ call = "out" /\ byte = Quiet /\ tick \in {"none", "idle"}
        BY <2>2 DEF ClockInit
    <2> QED BY <2>3, <2>4, <2>5, Zenon DEF ClockTypeOK
<1>2. ClockTypeOK /\ [ClockNext]_clockVars => ClockTypeOK'
    <2> SUFFICES ASSUME ClockTypeOK, [ClockNext]_clockVars PROVE ClockTypeOK'
        OBVIOUS
    <2> USE DEF ClockTypeOK
    <2>1. CASE BridgeThread /\ UNCHANGED timer
        <3>1. CASE CallsStart
            BY <2>1, <3>1 DEF CallsStart, Silent, timerVars, wire, Quiet
        <3>2. CASE Resets
            BY <2>1, <3>2, MidiClockAssumption DEF Resets, Silent, timerVars, wire, Quiet
        <3>3. CASE SendsStart
            BY <2>1, <3>3, MidiClockAssumption DEF SendsStart, Sends, timerVars, Quiet
        <3>4. CASE StartsTimer
            BY <2>1, <3>4 DEF StartsTimer, Silent, wire, Quiet
        <3>5. CASE CallsStop
            BY <2>1, <3>5 DEF CallsStop, Silent, timerVars, wire, Quiet
        <3>6. CASE StopsTimer
            BY <2>1, <3>6 DEF StopsTimer, Silent, wire, Quiet
        <3>7. CASE Joins
            BY <2>1, <3>7 DEF Joins, Silent, wire, Quiet
        <3>8. CASE SendsStop
            BY <2>1, <3>8 DEF SendsStop, Sends, timerVars, Quiet
        <3> QED BY <2>1, <3>1, <3>2, <3>3, <3>4, <3>5, <3>6, <3>7, <3>8 DEF BridgeThread
    <2>2. CASE TimerThread /\ UNCHANGED timer
        <3>1. CASE SendsClock
            <4>1. pos' = (pos + 1) % TicksPerBeat /\ tail' \in 0..2
                BY <3>1 DEF SendsClock, Sends
            <4>2. pos' \in 0..TicksPerBeat - 1
                BY <4>1, NextInBeat
            <4> QED BY <2>2, <3>1, <4>1, <4>2 DEF SendsClock, Sends, callVars, Quiet
        <3>2. CASE Advances
            <4>1. tickIn' \in 0..TicksPerBeat - 1
                BY <3>2, NextInBeat DEF Advances, NextTick
            <4> QED BY <2>2, <3>2, <4>1, MidiClockAssumption
                    DEF Advances, Silent, callVars, wire, Quiet
        <3>3. CASE ReadsPosition
            BY <2>2, <3>3 DEF ReadsPosition, Silent, callVars, wire, Quiet
        <3>4. CASE LoopTurns \/ Fires \/ Enters \/ Checks \/ Quits \/ Rearms
            BY <2>2, <3>4
            DEF LoopTurns, Fires, Enters, Checks, Quits, Rearms, Silent, callVars, wire, Quiet
        <3> QED BY <2>2, <3>1, <3>2, <3>3, <3>4 DEF TimerThread
    <2>3. CASE UNCHANGED clockVars
        BY <2>3 DEF clockVars, callVars, timerVars, wire
    <2> QED BY <2>1, <2>2, <2>3 DEF ClockNext
<1> QED BY <1>1, <1>2, PTL DEF ClockSpec

-----------------------------------------------------------------------------
\* A late clock.

\* The timer is off from before the Stop until after the next Start, so that a tick
\* which has sent its clock in between cannot come round to sending another.
TailInv ==
    /\ ~rolling => ~timerOn
    /\ call = "arm" => rolling
    /\ call \in {"join", "stopByte"} => ~timerOn
    /\ tail \in {0, 1}
    /\ tail = 1 => ~rolling /\ tick \notin {"check", "send"}

\* Every step of the two threads keeps it.
LEMMA TailKept == TailInv /\ ClockTypeOK /\ [ClockNext]_clockVars => TailInv'
<1> SUFFICES ASSUME TailInv, ClockTypeOK, [ClockNext]_clockVars PROVE TailInv'
    OBVIOUS
<1> USE DEF TailInv
<1>1. CASE CallsStart \/ Resets \/ CallsStop
    BY <1>1 DEF CallsStart, Resets, CallsStop, Silent, timerVars, wire
<1>2. CASE SendsStart
    BY <1>2 DEF SendsStart, Sends, timerVars
<1>3. CASE StartsTimer
    BY <1>3 DEF StartsTimer, Silent, wire
<1>4. CASE StopsTimer
    BY <1>4 DEF StopsTimer, Silent, wire
<1>5. CASE Joins
    BY <1>5 DEF Joins, Silent, wire
<1>6. CASE SendsStop
    BY <1>6 DEF SendsStop, Sends, timerVars
<1>7. CASE SendsClock
    BY <1>7 DEF SendsClock, Sends, callVars, Quiet
<1>8. CASE LoopTurns \/ Enters
    BY <1>8 DEF LoopTurns, Enters, Silent, callVars, wire
<1>11. CASE Fires \/ Checks \/ Quits
    BY <1>11 DEF Fires, Checks, Quits, Silent, callVars, wire
<1>9. CASE ReadsPosition \/ Advances \/ Rearms
    BY <1>9 DEF ReadsPosition, Advances, Rearms, Silent, callVars, wire
<1>10. CASE UNCHANGED clockVars
    BY <1>10 DEF clockVars, callVars, timerVars, wire
<1> QED BY <1>1, <1>2, <1>3, <1>4, <1>5, <1>6, <1>7, <1>8, <1>9, <1>10, <1>11
        DEF ClockNext, BridgeThread, TimerThread

\* With either timer a stopped clock is heard at most once more: no timer goes on
\* ticking behind the bridge's back, and none is started twice.
THEOREM OneLateClock == ClockSpec => []TailIsOneClock
<1>1. ClockInit => TailInv
    BY DEF ClockInit, TailInv
<1>2. TailInv => TailIsOneClock
    BY DEF TailInv, TailIsOneClock
<1> QED BY <1>1, <1>2, TailKept, ClockTypes, PTL DEF ClockSpec

-----------------------------------------------------------------------------
\* The desktop's timer.

Ticking == {"loop", "check", "send", "read", "store"}

\* Where the thread and the slave are, by the place of the bridge thread: the timer
\* thread lives only between a Start and a Stop, because stop() joins it.
PosixPhase ==
    /\ ~armed
    /\ call = "out" /\ running => rolling /\ timerOn /\ tick \in Ticking
    /\ call = "out" /\ ~running => ~rolling /\ ~timerOn /\ tick = "none"
    /\ call \in {"reset", "startByte"} => running /\ ~rolling /\ ~timerOn /\ tick = "none"
    /\ call = "arm" => running /\ rolling /\ ~timerOn /\ tick = "none"
    /\ call = "stopTimer" => ~running /\ rolling /\ tick \in Ticking \cup {"quit", "exit"}
    /\ call = "join" => ~running /\ rolling /\ ~timerOn
                        /\ tick \in Ticking \cup {"quit", "exit"}
    /\ call = "stopByte" => ~running /\ rolling /\ ~timerOn /\ tick = "none"

\* Where the clock and the slave are in the beat, through the two accesses of a tick.
PosixPlace ==
    /\ call = "startByte" => tickIn = 0
    /\ rolling /\ tick \notin {"read", "store"} => tickIn = pos
    /\ rolling /\ tick = "read" => pos = NextTick(tickIn)
    /\ rolling /\ tick = "store" => pos = NextTick(seen)

PosixInv == timer = "posix" => PosixPhase /\ PosixPlace

\* A slave that hears a clock from the desktop plays.
LEMMA TicksWhileRolling ==
    ASSUME PosixPhase, ClockTypeOK, tick \in {"send", "read", "store"}
    PROVE  rolling
BY DEF PosixPhase, ClockTypeOK, Ticking

\* Every step of the two threads keeps the order of Start, thread and Stop.
LEMMA PosixKept == PosixInv /\ ClockTypeOK /\ [ClockNext]_clockVars => PosixInv'
<1> SUFFICES ASSUME PosixInv, ClockTypeOK, [ClockNext]_clockVars, timer = "posix"
             PROVE  PosixPhase' /\ PosixPlace'
    BY DEF PosixInv, ClockNext, clockVars
<1>0. PosixPhase /\ PosixPlace
    BY DEF PosixInv
<1> USE DEF PosixPhase, PosixPlace, Ticking
<1>1. CASE CallsStart \/ CallsStop
    BY <1>0, <1>1 DEF CallsStart, CallsStop, Silent, timerVars, wire
<1>2. CASE Resets
    BY <1>0, <1>2 DEF Resets, Silent, timerVars, wire
<1>3. CASE SendsStart
    BY <1>0, <1>3 DEF SendsStart, Sends, timerVars
<1>4. CASE StartsTimer
    BY <1>0, <1>4 DEF StartsTimer, Silent, wire
<1>5. CASE StopsTimer
    BY <1>0, <1>5 DEF StopsTimer, Silent, wire
<1>6. CASE Joins
    BY <1>0, <1>6 DEF Joins, Silent, wire
<1>7. CASE SendsStop
    BY <1>0, <1>7 DEF SendsStop, Sends, timerVars
<1>8. CASE LoopTurns \/ Checks
    BY <1>0, <1>8, ClockTypeOK DEF LoopTurns, Checks, Silent, callVars, wire, ClockTypeOK
<1>9. CASE Quits
    BY <1>0, <1>9 DEF Quits, Silent, callVars, wire, ClockTypeOK
<1>10. CASE Fires \/ Enters \/ Rearms
    BY <1>0, <1>10 DEF Fires, Enters, Rearms, ClockTypeOK
<1>11. CASE SendsClock
    BY <1>0, <1>11, TicksWhileRolling DEF SendsClock, Sends, callVars, NextTick, ClockTypeOK
<1>12. CASE ReadsPosition
    BY <1>0, <1>12 DEF ReadsPosition, Silent, callVars, wire, ClockTypeOK
<1>13. CASE Advances
    BY <1>0, <1>13 DEF Advances, Silent, callVars, wire, ClockTypeOK
<1>14. CASE UNCHANGED clockVars
    BY <1>0, <1>14 DEF clockVars, callVars, timerVars, wire, NextTick
<1> QED BY <1>1, <1>2, <1>3, <1>4, <1>5, <1>6, <1>7, <1>8, <1>9, <1>10, <1>11, <1>12,
           <1>13, <1>14
        DEF ClockNext, BridgeThread, TimerThread

\* It holds before the first Start.
LEMMA PosixStarts == ClockInit => PosixInv
BY DEF ClockInit, PosixInv, PosixPhase, PosixPlace, Rest

\* On the desktop the clock and the slave agree on the place in the beat.
THEOREM DesktopInStep == ClockSpec => []PosixInStep
<1>1. PosixInv => PosixInStep
    BY DEF PosixInv, PosixPlace, PosixInStep, InStepWithSlave
<1> QED BY <1>1, PosixStarts, PosixKept, ClockTypes, PTL DEF ClockSpec

\* On the desktop what the slave hears is a MIDI stream: every change of what it has
\* heard is a Start, a clock or a Stop where one may come.
THEOREM DesktopStream == ClockSpec => PosixImplementsStream
<1>1. PosixInv /\ ClockTypeOK /\ [ClockNext]_clockVars =>
          [timer = "posix" => Stream!Next]_wire
    <2> SUFFICES ASSUME PosixInv, ClockTypeOK, ClockNext, timer = "posix"
                 PROVE  Stream!Next \/ UNCHANGED wire
        BY DEF clockVars
    <2>0. PosixPhase /\ PosixPlace
        BY DEF PosixInv
    <2>1. CASE SendsStart
        BY <2>0, <2>1 DEF SendsStart, Sends, PosixPhase, Stream!Next, Stream!Start
    <2>2. CASE SendsStop
        BY <2>0, <2>2 DEF SendsStop, Sends, PosixPhase, Stream!Next, Stream!Stop
    <2>3. CASE SendsClock
        BY <2>0, <2>3, TicksWhileRolling DEF SendsClock, Sends, Stream!Next, Stream!Tick
    <2>4. CASE Silent
        BY <2>4 DEF Silent
    <2>5. Silent \/ SendsStart \/ SendsStop \/ SendsClock
        BY DEF ClockNext, BridgeThread, TimerThread, CallsStart, Resets, StartsTimer,
               CallsStop, StopsTimer, Joins, LoopTurns, Fires, Enters, Checks, Quits,
               ReadsPosition, Advances, Rearms
    <2> QED BY <2>1, <2>2, <2>3, <2>4, <2>5
<1> QED BY <1>1, PosixStarts, PosixKept, ClockTypes, PTL
        DEF ClockSpec, PosixImplementsStream
=============================================================================
