------------------------------- MODULE MidiOut -------------------------------
(***************************************************************************)
(* The MIDI outputs of the box: on the firmware every byte of MidiClock    *)
(* goes to the DIN output, whose slave MidiClock has, and to MidiHostUsb   *)
(* (firmware/src/midi_fanout.hpp); on the desktop there is one output.     *)
(***************************************************************************)
EXTENDS MidiClock, MidiHostUsb

Init == ClockInit /\ UsbInit

\* MidiFanOut::send_byte().
FanOut ==
    \/ byte' # Quiet /\ timer = "esp" /\ SendByte(byte')
    \/ (byte' = Quiet \/ timer = "posix") /\ UNCHANGED usbVars

ClockSteps == ClockNext /\ FanOut
UsbSteps == timer = "esp" /\ UsbNext /\ UNCHANGED clockVars

Next == ClockSteps \/ UsbSteps

vars == <<clockVars, usbVars>>

Spec == Init /\ [][Next]_vars

\* The USB tasks run and transfers end.
FairSpec ==
    Spec /\ WF_vars(Sender /\ UNCHANGED clockVars) /\ WF_vars(Client /\ UNCHANGED clockVars)
         /\ WF_vars(Completes /\ UNCHANGED clockVars) /\ WF_vars(ClockSteps)

\* "Drop silently -- we'll re-sync as soon as a device shows up"
\* (midi_host_usb.cpp:150): a device that stays on the port of a playing box plays.
ResyncedOnConnect == <>[](connected /\ plugged = "known" /\ told) => <>deviceRolls

=============================================================================
