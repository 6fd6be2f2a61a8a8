----------------------------- MODULE MidiHostUsb -----------------------------
(***************************************************************************)
(* MIDI out over USB host (firmware/src/midi_host_usb.cpp): send_byte() on *)
(* the clock's threads, the byte queue, the sender task with its one       *)
(* transfer, and the client task that opens and closes devices.  The USB   *)
(* stack and the device on the port are external.                          *)
(*                                                                         *)
(* The counters only grow; what is kept of them is the number of bytes     *)
(* offered and not yet counted as sent or dropped, and whether the number  *)
(* dropped has moved since the device came up.                             *)
(*                                                                         *)
(* Variants named ..._Mut are wrong on purpose; MasterRole says why.       *)
(***************************************************************************)
EXTENDS Integers, Sequences

CONSTANTS QueueLen,        \* kByteQueueLen
          MaxDescriptors,  \* length of a configuration descriptor
          MaxPlugs         \* times a device is plugged in

ASSUME UsbAssumption == {QueueLen, MaxDescriptors, MaxPlugs} \subseteq Nat

VARIABLES
    queueMade,   \* byte_queue_ exists
    state,       \* state_
    connected,   \* device_connected_
    deviceOpen,  \* device_hdl_ is set
    transfer,    \* transfer_: the block it points to, 0: null
    allocated,   \* the block that is allocated, 0: none
    queue,       \* byte_queue_
    client,      \* where the client task is in its handler
    config,      \* the descriptor it has walked; <<>> once the device is announced
    sender, hand, held,  \* where the sender is, its byte, and the block it has loaded
    flight,      \* the byte on its way in the transfer, or "none"
    unaccounted, \* bytes offered and counted neither as sent nor as dropped
    \* The port, and history.
    plugged,     \* "none", "new" (not handled yet) or "known": the device on the port
    plugs,       \* times one has been plugged in
    told,        \* the box plays: the last transport byte offered was a Start
    deviceRolls, \* the device plays
    clean        \* the box was stopped when the device came up, none dropped since

Messages == {"start", "clock", "stop"}
NoMsg == "none"
NoClaim == [intf |-> 0, ep |-> 0]

port == <<plugged, plugs, deviceRolls>>
device == <<connected, deviceOpen, transfer, allocated, state>>
senderVars == <<sender, hand, held>>
usbVars == <<queueMade, device, queue, client, config, senderVars, flight,
             unaccounted, port, told, clean>>

UsbTypeOK ==
    /\ {queueMade, connected, deviceOpen, told, deviceRolls, clean} \subseteq BOOLEAN
    /\ plugged \in {"none", "new", "known"}
    /\ state \in {"uninstalled", "waiting", "noMidi", "ready"}
    /\ Len(config) <= MaxDescriptors /\ (config = <<>> <=> client # "announce")
    /\ {transfer, allocated, held, plugs} \subseteq 0..MaxPlugs
    /\ queue \in Seq(Messages) /\ Len(queue) <= QueueLen
    /\ client \in {"idle", "announce", "free", "close"}
    /\ sender \in {"idle", "got", "checked", "loaded"}
    /\ {hand, flight} \subseteq Messages \cup {NoMsg}
    /\ unaccounted \in 0..QueueLen + 2 + MaxPlugs

UsbInit ==
    /\ queueMade = FALSE /\ state = "uninstalled"
    /\ connected = FALSE /\ deviceOpen = FALSE
    /\ transfer = 0 /\ allocated = 0
    /\ queue = <<>> /\ client = "idle" /\ config = <<>>
    /\ sender = "idle" /\ hand = NoMsg /\ held = 0 /\ flight = NoMsg
    /\ unaccounted = 0
    /\ plugged = "none" /\ plugs = 0
    /\ told = FALSE /\ deviceRolls = FALSE /\ clean = FALSE

Dropped(n) == unaccounted' = unaccounted - n /\ clean' = (clean /\ n = 0)

\* begin(): the queue, then the driver and the tasks, any of which may fail.
Begins ==
    /\ state = "uninstalled" /\ ~queueMade
    /\ queueMade' = TRUE /\ state' \in {"uninstalled", "waiting"}
    /\ UNCHANGED <<connected, deviceOpen, transfer, allocated, queue, client, config,
                   senderVars, flight, unaccounted, port, told, clean>>

\* What send_byte() cannot queue it counts.
HasRoom_Mut == connected /\ Len(queue) <= QueueLen
HasRoom == connected /\ Len(queue) < QueueLen

DropsAtOnce_Mut == clean' = (clean /\ connected)
DropsAtOnce == clean' = FALSE

\* send_byte(m): counted as queued or dropped, without waiting for anything.
SendByte(m) ==
    /\ told' = (m = "start" \/ (m = "clock" /\ told))
    /\ \/ ~queueMade /\ UNCHANGED <<queue, unaccounted, clean>>
       \/ /\ queueMade /\ HasRoom
          /\ queue' = Append(queue, m)
          /\ unaccounted' = unaccounted + 1 /\ UNCHANGED clean
       \/ queueMade /\ ~HasRoom /\ DropsAtOnce /\ UNCHANGED <<queue, unaccounted>>
    /\ UNCHANGED <<queueMade, device, client, config, senderVars, flight, port>>

-----------------------------------------------------------------------------
\* run_sender_loop() and submit_one().

Takes ==
    /\ state # "uninstalled"
    /\ sender = "idle" /\ queue # <<>>
    /\ hand' = Head(queue) /\ queue' = Tail(queue) /\ sender' = "got"
    /\ UNCHANGED <<queueMade, device, client, config, held, flight, unaccounted, port,
                   told, clean>>

\* Without a device the byte is dropped and counted.
ChecksDevice ==
    /\ sender = "got"
    /\ \/ connected /\ transfer # 0 /\ sender' = "checked"
          /\ UNCHANGED <<hand, unaccounted, clean>>
       \/ ~(connected /\ transfer # 0) /\ sender' = "idle" /\ hand' = NoMsg /\ Dropped(1)
    /\ UNCHANGED <<queueMade, device, queue, client, config, held, flight, port, told>>

\* submit_one() reads transfer_ again; finding none it returns without counting.
LoadsTransfer ==
    /\ sender = "checked"
    /\ \/ transfer # 0 /\ held' = transfer /\ sender' = "loaded" /\ UNCHANGED hand
       \/ transfer = 0 /\ sender' = "idle" /\ hand' = NoMsg /\ UNCHANGED held
    /\ UNCHANGED <<queueMade, device, queue, client, config, flight, unaccounted, port,
                   told, clean>>

Refused_Mut == UNCHANGED <<unaccounted, clean>>
Refused == Dropped(1)

\* The packet is written into the block and submitted.  A transfer on its way is not
\* accepted again, but its packet may be the new one by now; a block that has been
\* freed is refused.
Submits ==
    /\ sender = "loaded"
    /\ \/ held = allocated /\ flight = NoMsg
          /\ flight' = hand /\ UNCHANGED <<unaccounted, clean>>
       \/ held = allocated /\ flight # NoMsg
          /\ flight' \in {flight, hand} /\ Refused
       \/ held # allocated /\ Refused /\ UNCHANGED flight
    /\ sender' = "idle" /\ hand' = NoMsg /\ held' = 0
    /\ UNCHANGED <<queueMade, device, queue, client, config, port, told>>

\* The transfer's callback: completed, or failed.
Completes ==
    /\ flight # NoMsg /\ flight' = NoMsg
    /\ \/ /\ plugged # "none"
          /\ deviceRolls' = (flight = "start" \/ (flight = "clock" /\ deviceRolls))
          /\ unaccounted' = unaccounted - 1 /\ UNCHANGED clean
       \/ Dropped(1) /\ UNCHANGED deviceRolls
    /\ UNCHANGED <<queueMade, device, queue, client, config, senderVars, plugged, plugs,
                   told>>

-----------------------------------------------------------------------------
\* claim_midi_interface(): the first bulk-OUT endpoint of a MIDIStreaming interface.
\* A descriptor is a sequence of interfaces ("midi" or "other") and endpoints ("out" for
\* a bulk OUT one, or "in").  What is claimed, interface_num_ and
\* out_ep_addr_, is Walk(config): nothing that is modelled depends on it afterwards.

Kinds == {"midi", "other", "out", "in"}
Configs == UNION {[1..n -> Kinds] : n \in 0..MaxDescriptors}

WalkStep_Mut(found, kind, i) ==
    CASE kind = "midi" -> [found EXCEPT !.inside = TRUE, !.intf = i]
      [] kind = "other" -> [found EXCEPT !.inside = FALSE]
      [] kind = "out" /\ found.inside /\ found.ep = 0 -> [found EXCEPT !.ep = i]
      [] OTHER -> found

WalkStep(found, kind, i) ==
    CASE kind = "midi" -> [found EXCEPT !.inside = TRUE,
                                        !.intf = IF found.ep = 0 THEN i ELSE @]
      [] kind = "other" -> [found EXCEPT !.inside = FALSE]
      [] kind = "out" /\ found.inside /\ found.ep = 0 -> [found EXCEPT !.ep = i]
      [] OTHER -> found

Walk(c) ==
    LET f[i \in 0..Len(c)] ==
            IF i = 0 THEN [inside |-> FALSE, intf |-> 0, ep |-> 0]
            ELSE WalkStep(f[i - 1], c[i], i)
    IN IF f[Len(c)].ep = 0 THEN NoClaim
       ELSE [intf |-> f[Len(c)].intf, ep |-> f[Len(c)].ep]

\* on_device_connect(): up to the allocation of the transfer, or the early return of a
\* device that cannot be used.
Connects ==
    /\ client = "idle" /\ state # "uninstalled"
    /\ plugged = "new" /\ plugged' = "known"
    /\ \E c \in Configs :
          \/ /\ Walk(c) # NoClaim
             /\ config' = c /\ deviceOpen' = TRUE
             /\ transfer' = plugs /\ allocated' = plugs
             /\ client' = "announce" /\ UNCHANGED state
          \/ /\ state' = "noMidi"
             /\ UNCHANGED <<config, deviceOpen, transfer, allocated, client>>
    /\ UNCHANGED <<queueMade, connected, queue, senderVars, flight, unaccounted, plugs,
                   deviceRolls, told, clean>>

Announces ==
    /\ client = "announce" /\ client' = "idle"
    /\ connected' = TRUE /\ state' = "ready" /\ config' = <<>>
    /\ clean' = ~told
    /\ UNCHANGED <<queueMade, deviceOpen, transfer, allocated, queue, senderVars,
                   flight, unaccounted, port, told>>

\* on_device_disconnect(), which comes for an open device only.
Disconnects ==
    /\ client = "idle" /\ plugged = "none" /\ connected
    /\ connected' = FALSE /\ client' = "free"
    /\ UNCHANGED <<queueMade, deviceOpen, transfer, allocated, state, queue, config,
                   senderVars, flight, unaccounted, port, told, clean>>

\* Freed, or abandoned on its way.
FreesTransfer ==
    /\ client = "free" /\ client' = "close"
    /\ allocated' = 0
    /\ UNCHANGED <<queueMade, connected, deviceOpen, transfer, state, queue, config,
                   senderVars, flight, unaccounted, port, told, clean>>

Closes ==
    /\ client = "close" /\ client' = "idle"
    /\ transfer' = 0 /\ deviceOpen' = FALSE /\ state' = "waiting"
    /\ UNCHANGED <<queueMade, connected, allocated, queue, config, senderVars, flight,
                   unaccounted, port, told, clean>>

-----------------------------------------------------------------------------
\* The port.  A device takes far longer to enumerate than the sender to run dry.
Drained == queue = <<>> /\ sender = "idle" /\ flight = NoMsg

Plugs ==
    /\ plugged = "none" /\ plugs < MaxPlugs /\ client = "idle" /\ ~connected /\ Drained
    /\ plugged' = "new" /\ plugs' = plugs + 1 /\ deviceRolls' = FALSE
    /\ UNCHANGED <<queueMade, device, queue, client, config, senderVars, flight,
                   unaccounted, told, clean>>

Unplugs ==
    /\ plugged # "none" /\ plugged' = "none"
    /\ UNCHANGED <<queueMade, device, queue, client, config, senderVars, flight,
                   unaccounted, plugs, deviceRolls, told, clean>>

Sender == Takes \/ ChecksDevice \/ LoadsTransfer \/ Submits
Client == Connects \/ Announces \/ Disconnects \/ FreesTransfer \/ Closes

UsbNext == Begins \/ Sender \/ Completes \/ Client \/ Plugs \/ Unplugs

-----------------------------------------------------------------------------
\* Properties.

\* Where the latest interface before place i is.
InterfaceOf(c, i) ==
    LET before == {j \in 1..i - 1 : c[j] \in {"midi", "other"}} IN
    IF before = {} THEN 0 ELSE CHOOSE j \in before : \A k \in before : k <= j

\* "Finds an Audio/MIDIStreaming interface and its first bulk-OUT endpoint"
\* (midi_host_usb.hpp:86-87): whatever the order of descriptors, the endpoint used belongs
\* to the interface claimed, which is a MIDIStreaming one.
ClaimOwnsEndpoint ==
    client = "announce" =>
        /\ config[Walk(config).intf] = "midi" /\ config[Walk(config).ep] = "out"
        /\ InterfaceOf(config, Walk(config).ep) = Walk(config).intf

\* Every byte is counted as sent or dropped (midi_fanout.hpp:7: each sink "does its own
\* drop-counting"), but for one that a disconnection catches between the two looks at
\* the transfer: at most one for every device unplugged.
InTransit == Len(queue) + (IF sender = "idle" THEN 0 ELSE 1) + (IF flight = NoMsg THEN 0 ELSE 1)
BytesAreCounted == unaccounted - InTransit \in 0..plugs

\* A device that came up while the box was stopped, and since when no byte has been
\* counted as dropped, plays exactly when the box does, once nothing is on its way.
CleanDeviceInStep ==
    (clean /\ connected /\ plugged # "none" /\ Drained) => deviceRolls = told

=============================================================================
