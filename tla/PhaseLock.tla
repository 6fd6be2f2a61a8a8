----------------------------- MODULE PhaseLock ------------------------------
(***************************************************************************)
(* How Clock (lib/prolink/clock.cpp) keeps its beats a constant time ahead *)
(* of the deck's: feed_beat() measures the lead of the last tick 0 over    *)
(* the beat packet, on_tick_() bleeds a fraction of the error into every   *)
(* interval, and set_offset_us() adds what a nudge changed.  The three run *)
(* on three threads and share phase_error_us_ and offset_us_.              *)
(*                                                                         *)
(* Time advances to the next tick or beat; what falls on one instant       *)
(* happens in any order, and the loads and stores of the three interleave. *)
(* The deck plays at the clock's tempo; its beat packets may be lost.      *)
(*                                                                         *)
(* Variants named ..._Mut are wrong on purpose; MasterRole says why.       *)
(***************************************************************************)
EXTENDS Integers

CONSTANTS TicksPerBeat,  \* TICKS_PER_BEAT
          Period,        \* tick_period_us_, in units of time
          Floor,         \* MIN_TICK_PERIOD_US / 2
          Gain,          \* gain_
          Offsets,       \* the lead-time offsets the operator uses
          MaxNudges      \* how often the operator changes them

Span == TicksPerBeat * Period
Half == Span \div 2

ASSUME PhaseAssumption ==
    /\ {TicksPerBeat, Period, Floor, Gain} \subseteq Nat \ {0}
    /\ Floor <= Period
    /\ Offsets \subseteq -Half..Half
    /\ MaxNudges \in Nat

VARIABLES
    tickIn,      \* tick_in_beat_
    phaseError,  \* phase_error_us_
    offset,      \* offset_us_
    sinceAnchor, \* the time since last_beat_anchor_us_
    untilTick, untilBeat,  \* the time until the next tick, and until the deck's beat
    ticking,     \* the phase error on_tick_() has read, while it is in there
    feeding,     \* the error feed_beat() has computed, until it stores it
    nudging,     \* the change set_offset_us() has still to add
    nudges,      \* nudges so far
    error,       \* history: the true error of the last tick 0
    bound        \* history: how large it may be by clock.cpp:101-104

time == <<sinceAnchor, untilTick, untilBeat>>
history == <<nudges, error, bound>>
vars == <<tickIn, phaseError, offset, time, ticking, feeding, nudging, history>>

Nothing == [on |-> FALSE, val |-> 0]
Holding(v) == [on |-> TRUE, val |-> v]

\* The while loops of feed_beat(): the shortest way round the beat.
Wrap(x) ==
    IF x > Half THEN x - Span * ((x - Half + Span - 1) \div Span)
    ELSE IF x < -Half THEN x + Span * ((-Half - x + Span - 1) \div Span)
    ELSE x

Abs(x) == IF x < 0 THEN -x ELSE x

\* Division as C++ rounds it.
Quotient(x) == IF x < 0 THEN -((-x) \div Gain) ELSE x \div Gain

AtLeastFloor(interval) == IF interval < Floor THEN Floor ELSE interval

\* The clock has just sent its first tick, anywhere in the deck's beat.
Init ==
    /\ tickIn = 1 % TicksPerBeat /\ phaseError = 0
    /\ offset \in Offsets
    /\ sinceAnchor = 0 /\ untilTick = Period
    /\ untilBeat \in 1..Span
    /\ ticking = Nothing /\ feeding = Nothing /\ nudging = Nothing
    /\ nudges = 0 /\ error = Wrap(untilBeat - offset) /\ bound = Span

\* No time passes while a thread is in the code.
Advance ==
    LET d == IF untilTick < untilBeat THEN untilTick ELSE untilBeat
    IN  /\ ~ticking.on /\ ~feeding.on /\ ~nudging.on
        /\ d > 0
        /\ untilTick' = untilTick - d
        /\ untilBeat' = untilBeat - d
        /\ sinceAnchor' = sinceAnchor + d
        /\ UNCHANGED <<tickIn, phaseError, offset, ticking, feeding, nudging, history>>

\* on_tick_(): tick 0 is the anchor; then the error is read...
TickReads ==
    /\ untilTick = 0 /\ ~ticking.on
    /\ ticking' = Holding(phaseError)
    /\ \/ tickIn = 0 /\ sinceAnchor' = 0 /\ error' = Wrap(untilBeat - offset)
       \/ tickIn # 0 /\ UNCHANGED <<sinceAnchor, error>>
    /\ UNCHANGED <<tickIn, phaseError, offset, untilTick, untilBeat, feeding, nudging,
                   nudges, bound>>

\* ...and what goes into the next interval is subtracted from it, as it is by then.
Bled_Mut(read, correction) == read - correction

Bled(read, correction) == phaseError - correction

TickBleeds ==
    LET correction == Quotient(ticking.val)
    IN  /\ ticking.on
        /\ ticking' = Nothing
        /\ phaseError' = Bled(ticking.val, correction)
        /\ untilTick' = AtLeastFloor(Period + correction)
        /\ tickIn' = (tickIn + 1) % TicksPerBeat
        /\ UNCHANGED <<offset, sinceAnchor, untilBeat, feeding, nudging, history>>

\* feed_beat(), on the deck's beat.
BeatMeasures ==
    /\ untilBeat = 0 /\ ~feeding.on
    /\ feeding' = Holding(Wrap(sinceAnchor - offset))
    /\ untilBeat' = Span
    /\ UNCHANGED <<tickIn, phaseError, offset, sinceAnchor, untilTick, ticking, nudging,
                   history>>

BeatStores ==
    /\ feeding.on
    /\ phaseError' = feeding.val
    /\ feeding' = Nothing
    /\ UNCHANGED <<tickIn, offset, time, ticking, nudging, history>>

BeatLost ==
    /\ untilBeat = 0 /\ ~feeding.on
    /\ untilBeat' = Span
    /\ UNCHANGED <<tickIn, phaseError, offset, sinceAnchor, untilTick, ticking, feeding,
                   nudging, history>>

\* set_offset_us(): the offset is exchanged, then the change goes into the error.
NudgeSwaps ==
    \E o \in Offsets \ {offset} :
        /\ ~nudging.on /\ nudges < MaxNudges
        /\ nudging' = Holding(o - offset)
        /\ offset' = o
        /\ nudges' = nudges + 1
        /\ bound' = IF nudges = 0 /\ Abs(error) < Gain /\ Abs(phaseError) < Gain
                    THEN Abs(o - offset) + Gain ELSE Span
        /\ UNCHANGED <<tickIn, phaseError, time, ticking, feeding, error>>

NudgeAdds ==
    /\ nudging.on
    /\ phaseError' = phaseError - nudging.val * Gain
    /\ nudging' = Nothing
    /\ UNCHANGED <<tickIn, offset, time, ticking, feeding, history>>

Tick == TickReads \/ TickBleeds

Next == Advance \/ Tick \/ BeatMeasures \/ BeatStores \/ BeatLost \/ NudgeSwaps \/ NudgeAdds

\* Time, the timer and the threads go on, and beats keep arriving.
FairSpec ==
    /\ Init /\ [][Next]_vars
    /\ WF_vars(Advance) /\ WF_vars(Tick) /\ WF_vars(BeatStores) /\ WF_vars(NudgeAdds)
    /\ SF_vars(BeatMeasures)

-----------------------------------------------------------------------------
\* From anywhere in the deck's beat, with losses, and after any nudges, the box comes to
\* lead the deck by the offset, as closely as an integer division by the gain can tell,
\* and stays there.  No update of the three threads to the shared error may get lost
\* for that (clock.cpp:151-155).
Locks == <>[](Abs(error) < Gain)

\* "the *next* tick applies most of the nudge in one shot ... The residual is small and
\* bleeds off the next few ticks" (clock.cpp:101-104): the nudge of a settled clock
\* leaves it no further from the new offset than the nudge itself.
NudgeDoesNotOvershoot == Abs(error) <= bound
=============================================================================
