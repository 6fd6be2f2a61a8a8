----------------------------- MODULE MidiStream -----------------------------
(***************************************************************************)
(* What a MIDI slave may expect of the box: MIDI Start, then clocks, then  *)
(* MIDI Stop, and no clock outside them.  The slave is on the downbeat     *)
(* after a Start and moves one step round the beat with every clock.       *)
(***************************************************************************)
EXTENDS Integers

CONSTANT TicksPerBeat

VARIABLES rolling, pos

Init == rolling = FALSE /\ pos = 0

Start == ~rolling /\ rolling' = TRUE /\ pos' = 0

Tick == rolling /\ pos' = (pos + 1) % TicksPerBeat /\ UNCHANGED rolling

Stop == rolling /\ rolling' = FALSE /\ UNCHANGED pos

Next == Start \/ Tick \/ Stop

Spec == Init /\ [][Next]_<<rolling, pos>>

=============================================================================
