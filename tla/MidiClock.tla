------------------------------ MODULE MidiClock ------------------------------
(***************************************************************************)
(* Clock (lib/prolink/clock.cpp) over its two timers: the thread that the  *)
(* desktop's TimerPosix runs and the one-shot esp_timer that the           *)
(* firmware's TimerEsp arms again and again.                               *)
(*                                                                         *)
(* The bridge thread calls start() and stop(), the timer calls on_tick_(), *)
(* and what they share is read and written in the order of the code.  The  *)
(* slave listens at the far end of the wire.                               *)
(*                                                                         *)
(* Variants named ..._Mut are wrong on purpose; MasterRole says why.       *)
(***************************************************************************)
EXTENDS Integers

CONSTANT TicksPerBeat   \* TICKS_PER_BEAT

ASSUME MidiClockAssumption == TicksPerBeat \in Nat \ {0}

VARIABLES
    timer,     \* the build: "posix" or "esp"
    running,   \* Clock::running_
    tickIn,    \* tick_in_beat_, the tick to emit next
    call,      \* where the bridge thread is in start() or stop(); "out" outside them
    timerOn,   \* running_ of the timer
    armed,     \* the one-shot of the esp_timer is armed
    tick,      \* where the timer is in its callback; "none" without a thread
    seen,      \* the tick it read in there, 0 before that
    rolling,   \* what the slave has heard: it plays,
    pos,       \* and so many clocks have passed in its beat
    byte,      \* the byte this step sent, or "none"
    tail       \* clocks heard outside Start and Stop since the last of them, at most 2

callVars == <<running, call>>
timerVars == <<timerOn, armed, tick, seen>>
wire == <<rolling, pos>>
clockVars == <<timer, callVars, timerVars, tickIn, wire, byte, tail>>

Quiet == "none"
Rest == IF timer = "posix" THEN "none" ELSE "idle"

ClockTypeOK ==
    /\ timer \in {"posix", "esp"}
    /\ {running, timerOn, armed, rolling} \subseteq BOOLEAN
    /\ {tickIn, seen, pos} \subseteq 0..TicksPerBeat - 1
    /\ call \in {"out", "reset", "startByte", "arm", "stopTimer", "join", "stopByte"}
    /\ tick \in {"none", "idle", "loop", "entry", "check", "send", "read", "store",
                 "rearm", "quit", "exit"}
    /\ tail \in 0..2
    /\ byte \in {Quiet, "start", "clock", "stop"}

ClockInit ==
    /\ timer \in {"posix", "esp"}
    /\ running = FALSE /\ tickIn = 0 /\ call = "out"
    /\ timerOn = FALSE /\ armed = FALSE /\ tick = Rest /\ seen = 0
    /\ rolling = FALSE /\ pos = 0 /\ byte = Quiet /\ tail = 0

\* The byte reaches the slave, which counts a clock wherever it hears one.
Sends(m) ==
    /\ byte' = m
    /\ rolling' = CASE m = "start" -> TRUE [] m = "stop" -> FALSE [] OTHER -> rolling
    /\ pos' = CASE m = "start" -> 0
                [] m = "clock" -> (pos + 1) % TicksPerBeat
                [] OTHER -> pos
    /\ tail' = IF m # "clock" THEN 0 ELSE IF rolling \/ tail = 2 THEN tail ELSE tail + 1

Silent == byte' = Quiet /\ UNCHANGED <<wire, tail>>

-----------------------------------------------------------------------------
\* Clock::start() and Clock::stop(), on the bridge thread.

CallsStart ==
    /\ call = "out" /\ ~running
    /\ running' = TRUE /\ call' = "reset"
    /\ Silent /\ UNCHANGED <<timerVars, tickIn>>

Resets_Mut ==
    /\ call = "reset" /\ call' = "startByte"
    /\ Silent /\ UNCHANGED <<running, timerVars, tickIn>>

Resets ==
    /\ call = "reset" /\ call' = "startByte"
    /\ tickIn' = 0
    /\ Silent /\ UNCHANGED <<running, timerVars>>

SendsStart ==
    /\ call = "startByte" /\ call' = "arm"
    /\ Sends("start") /\ UNCHANGED <<running, timerVars, tickIn>>

\* timer_.start(): a new thread, or the one-shot at once (unless it is armed already).
StartsTimer ==
    /\ call = "arm" /\ call' = "out"
    /\ \/ /\ timer = "posix"
          /\ \/ ~timerOn /\ timerOn' = TRUE /\ tick' = "loop"
             \/ timerOn /\ UNCHANGED <<timerOn, tick>>
          /\ UNCHANGED armed
       \/ /\ timer = "esp"
          /\ timerOn' = TRUE /\ armed' = TRUE
          /\ UNCHANGED tick
    /\ Silent /\ UNCHANGED <<running, tickIn, seen>>

CallsStop ==
    /\ call = "out" /\ running
    /\ running' = FALSE /\ call' = "stopTimer"
    /\ Silent /\ UNCHANGED <<timerVars, tickIn>>

\* timer_.stop(): the thread is joined; a callback of the esp_timer goes on.
StopsTimer_Mut ==
    /\ call = "stopTimer"
    /\ call' = IF timer = "posix" THEN "join" ELSE "stopByte"
    /\ armed' = (armed /\ ~timerOn)
    /\ Silent /\ UNCHANGED <<running, tickIn, timerOn, tick, seen>>

StopsTimer ==
    /\ call = "stopTimer"
    /\ call' = IF timer = "posix" THEN "join" ELSE "stopByte"
    /\ timerOn' = FALSE
    /\ armed' = (armed /\ ~timerOn)
    /\ Silent /\ UNCHANGED <<running, tickIn, tick, seen>>

Joins_Mut ==
    /\ call = "join" /\ call' = "stopByte"
    /\ Silent /\ UNCHANGED <<running, tickIn, timerOn, armed, tick, seen>>

Joins ==
    /\ call = "join" /\ tick \in {"none", "exit"}
    /\ call' = "stopByte" /\ tick' = "none"
    /\ Silent /\ UNCHANGED <<running, tickIn, timerOn, armed, seen>>

SendsStop ==
    /\ call = "stopByte" /\ call' = "out"
    /\ Sends("stop") /\ UNCHANGED <<running, timerVars, tickIn>>

-----------------------------------------------------------------------------
\* The timer and its callback on_tick_().

\* The loop of the posix thread asks whether it is to go on.
LoopTurns ==
    /\ tick = "loop"
    /\ tick' = IF timerOn THEN "check" ELSE "exit"
    /\ Silent /\ UNCHANGED <<callVars, tickIn, timerOn, armed, seen>>

\* The one-shot fires, and timer_cb() asks whether the timer is to go on.
Fires ==
    /\ tick = "idle" /\ armed
    /\ armed' = FALSE /\ tick' = "entry"
    /\ Silent /\ UNCHANGED <<callVars, tickIn, timerOn, seen>>

Enters ==
    /\ tick = "entry"
    /\ tick' = IF timerOn THEN "check" ELSE "idle"
    /\ Silent /\ UNCHANGED <<callVars, tickIn, timerOn, armed, seen>>

\* on_tick_() of a stopped clock ends the timer.
Checks ==
    /\ tick = "check"
    /\ tick' = IF running THEN "send" ELSE "quit"
    /\ Silent /\ UNCHANGED <<callVars, tickIn, timerOn, armed, seen>>

Quits ==
    /\ tick = "quit"
    /\ timerOn' = FALSE
    /\ tick' = IF timer = "posix" THEN "exit" ELSE "idle"
    /\ Silent /\ UNCHANGED <<callVars, tickIn, armed, seen>>

SendsClock ==
    /\ tick = "send" /\ tick' = "read"
    /\ Sends("clock") /\ UNCHANGED <<callVars, tickIn, timerOn, armed, seen>>

\* The position is read and written back as two accesses.
ReadsPosition ==
    /\ tick = "read" /\ tick' = "store"
    /\ seen' = tickIn
    /\ Silent /\ UNCHANGED <<callVars, tickIn, timerOn, armed>>

NextTick_Mut(t) == t + 1

NextTick(t) == (t + 1) % TicksPerBeat

Advances ==
    /\ tick = "store"
    /\ tick' = IF timer = "posix" THEN "loop" ELSE "rearm"
    /\ tickIn' = NextTick(seen) /\ seen' = 0
    /\ Silent /\ UNCHANGED <<callVars, timerOn, armed>>

\* timer_cb() arms the next one whatever has happened to the timer meanwhile.
Rearms ==
    /\ tick = "rearm" /\ tick' = "idle"
    /\ armed' = TRUE
    /\ Silent /\ UNCHANGED <<callVars, tickIn, timerOn, seen>>

BridgeThread ==
    \/ CallsStart \/ Resets \/ SendsStart \/ StartsTimer
    \/ CallsStop \/ StopsTimer \/ Joins \/ SendsStop

TimerThread ==
    \/ LoopTurns \/ Fires \/ Enters \/ Checks \/ Quits
    \/ SendsClock \/ ReadsPosition \/ Advances \/ Rearms

ClockNext == (BridgeThread \/ TimerThread) /\ UNCHANGED timer

ClockSpec == ClockInit /\ [][ClockNext]_clockVars

-----------------------------------------------------------------------------
\* Properties.

Stream == INSTANCE MidiStream

\* On the desktop the slave hears a proper MIDI stream, whatever start(), stop() and the
\* timer thread do: stop() joins the thread before it sends MIDI Stop
\* (timer_posix.cpp:108-114), and MIDI Start precedes the thread.
PosixImplementsStream == [][timer = "posix" => Stream!Next]_wire

\* Between two ticks the clock and the slave agree where in the beat they are: phase
\* locking to the deck's beat (clock.cpp:128-134) rests on it.
InStepWithSlave == (rolling /\ tick \notin {"read", "store"}) => tickIn = pos
PosixInStep == timer = "posix" => InStepWithSlave

\* On the firmware too, a stopped clock is heard once more at most: the tick that was in
\* flight, and not a timer that goes on.
TailIsOneClock == tail <= 1

\* What the repository says and the firmware's timer does not keep; see the README.

\* A re-sync "re-emits a Stop+Start to snap it back" (docs/architecture.md:586-587).
AlwaysInStep == InStepWithSlave

\* "Return 0 to stop the timer cleanly" (clock.hpp:12): a clock that runs has a timer.
RunningClockTicks == (running /\ call = "out" /\ tick = "idle") => timerOn

=============================================================================
