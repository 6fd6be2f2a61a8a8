---------------------------- MODULE MidiOutProofs ----------------------------
(***************************************************************************)
(* Theorems about MidiOut, for any length of the queue, of a descriptor    *)
(* and of a beat, and any number of devices plugged in.                    *)
(***************************************************************************)
EXTENDS MidiOut, MidiClockProofs, WellFoundedInduction

\* The outputs do not hold the clock up: what MidiClockProofs shows holds of it here.
THEOREM OutputsKeepClock == Spec => ClockSpec
<1>1. Init => ClockInit
    BY DEF Init
<1>2. [Next]_vars => [ClockNext]_clockVars
    BY DEF Next, ClockSteps, UsbSteps, vars
<1> QED BY <1>1, <1>2, PTL DEF Spec, ClockSpec

-----------------------------------------------------------------------------
\* Bytes offered that are neither counted nor on their way.
Lost == unaccounted - InTransit

UsbTypes ==
    /\ queue \in Seq(Messages)
    /\ unaccounted \in Int /\ plugs \in Nat
    /\ sender \in {"idle", "got", "checked", "loaded"}
    /\ flight \in Messages \cup {NoMsg}
    /\ IF sender = "idle" THEN hand = NoMsg ELSE hand \in Messages

\* A device just plugged in finds nothing of the one before.
NewDevice == plugged = "new" => ~connected /\ client = "idle" /\ sender # "checked"

\* A byte can still be lost to the present device, and to no earlier one.
MayLose == transfer # 0 \/ sender = "checked" \/ plugged = "new"

CountInv ==
    /\ UsbTypes /\ NewDevice
    /\ Lost \in 0..plugs
    /\ MayLose => Lost < plugs

\* A byte offered is queued and awaited, or counted as dropped.
LEMMA SendKeepsCount ==
    ASSUME CountInv, NEW m \in Messages, SendByte(m)
    PROVE  CountInv'
<1> USE DEF SendByte, Dropped, DropsAtOnce, device, senderVars, port
<1>1. UsbTypes'
    BY DEF CountInv, UsbTypes
<1>2. Lost' = Lost
  <2>1. sender' = sender /\ flight' = flight
      OBVIOUS
  <2>2. CASE queue' = Append(queue, m) /\ unaccounted' = unaccounted + 1
    <3>1. Len(queue') = Len(queue) + 1
        BY <2>2 DEF CountInv, UsbTypes
    <3> QED BY <2>1, <2>2, <3>1 DEF CountInv, UsbTypes, Lost, InTransit
  <2>3. CASE queue' = queue /\ unaccounted' = unaccounted
      BY <2>1, <2>3 DEF Lost, InTransit
  <2> QED BY <2>2, <2>3
<1> QED BY <1>1, <1>2 DEF CountInv, NewDevice, MayLose

\* So do the two tasks, the transfer and the port.
LEMMA UsbKeepsCount ==
    ASSUME CountInv, UsbNext
    PROVE  CountInv'
<1> USE DEF CountInv, UsbTypes, NewDevice, MayLose, Lost, InTransit, Dropped,
            device, senderVars, port
<1>1. CASE Begins
    BY <1>1 DEF Begins
<1>2. CASE Takes
    BY <1>2 DEF Takes
<1>3. CASE ChecksDevice
  <2>1. CASE transfer # 0 /\ sender' = "checked" /\ connected
            /\ hand' = hand /\ unaccounted' = unaccounted
      BY <1>3, <2>1 DEF ChecksDevice
  <2>2. CASE sender' = "idle" /\ hand' = NoMsg /\ unaccounted' = unaccounted - 1
      BY <1>3, <2>2 DEF ChecksDevice
  <2> QED BY <1>3, <2>1, <2>2 DEF ChecksDevice
<1>4. CASE LoadsTransfer
    BY <1>4 DEF LoadsTransfer
<1>5. CASE Submits
    BY <1>5 DEF Submits, Refused, Messages, NoMsg
<1>6. CASE Completes
    BY <1>6 DEF Completes
<1>7. CASE Connects
    BY <1>7 DEF Connects
<1>8. CASE Announces
    BY <1>8 DEF Announces
<1>9. CASE Disconnects \/ FreesTransfer \/ Closes
    BY <1>9 DEF Disconnects, FreesTransfer, Closes
<1>10. CASE Plugs
    BY <1>10 DEF Plugs, Drained
<1>11. CASE Unplugs
    BY <1>11 DEF Unplugs
<1> QED BY <1>1, <1>2, <1>3, <1>4, <1>5, <1>6, <1>7, <1>8, <1>9, <1>10, <1>11
        DEF UsbNext, Sender, Client

\* Every step of the outputs is one of these or leaves the USB output alone.
LEMMA OutputSteps ==
    ASSUME [Next]_vars, ClockTypeOK'
    PROVE  \/ \E m \in Messages : SendByte(m)
           \/ UsbNext
           \/ UNCHANGED usbVars
BY DEF Next, ClockSteps, UsbSteps, FanOut, vars, ClockTypeOK, Messages, Quiet

\* The count is right to begin with, and every step keeps it.
LEMMA CountStarts == UsbInit => CountInv
<1> SUFFICES ASSUME UsbInit PROVE CountInv
    OBVIOUS
<1>1. UsbTypes
    BY DEF UsbInit, UsbTypes
<1>2. Lost = 0
  <2>1. queue = <<>> /\ sender = "idle" /\ flight = NoMsg /\ unaccounted = 0
      BY DEF UsbInit
  <2>2. Len(queue) = 0
      BY <2>1
  <2>3. (IF sender = "idle" THEN 0 ELSE 1) = 0 /\ (IF flight = NoMsg THEN 0 ELSE 1) = 0
      BY <2>1
  <2>4. InTransit = 0
      BY <2>2, <2>3 DEF InTransit
  <2> QED BY <2>1, <2>4 DEF Lost
<1> QED BY <1>1, <1>2 DEF UsbInit, CountInv, NewDevice, MayLose, UsbTypes

\* With every step of the clock and the outputs.
LEMMA CountKept ==
    ASSUME CountInv, ClockTypeOK', [Next]_vars
    PROVE  CountInv'
<1>1. CASE UNCHANGED usbVars
    BY <1>1 DEF usbVars, device, senderVars, port, CountInv, UsbTypes, NewDevice,
                MayLose, Lost, InTransit
<1> QED BY <1>1, OutputSteps, SendKeepsCount, UsbKeepsCount

\* Every byte is counted, but for one that each disconnection may catch.
THEOREM EveryByteCounted == Spec => []BytesAreCounted
<1>1. Init => CountInv
    BY CountStarts DEF Init
<1>2. CountInv /\ ClockTypeOK' /\ [Next]_vars => CountInv'
    BY CountKept
<1>3. CountInv => BytesAreCounted
    BY DEF CountInv, BytesAreCounted, Lost
<1> QED BY <1>1, <1>2, <1>3, OutputsKeepClock, ClockTypes, PTL DEF Spec

-----------------------------------------------------------------------------
\* What a slave does that hears m, and one that hears all of q.
Heard(m, rolls) == m = "start" \/ (m = "clock" /\ rolls)

HeardAll(q, rolls) ==
    \/ rolls /\ \A i \in 1..Len(q) : q[i] = "clock"
    \/ \E k \in 1..Len(q) : q[k] = "start" /\ \A i \in k + 1..Len(q) : q[i] = "clock"

\* Hearing one more at the end.
LEMMA HeardAtEnd ==
    ASSUME NEW q \in Seq(Messages), NEW m \in Messages, NEW rolls \in BOOLEAN
    PROVE  HeardAll(Append(q, m), rolls) <=> Heard(m, HeardAll(q, rolls))
<1> DEFINE p == Append(q, m)
           n == Len(q)
<1>1. n \in Nat /\ Len(p) = n + 1 /\ p[n + 1] = m /\ \A i \in 1..n : p[i] = q[i]
    OBVIOUS
<1> HIDE DEF p, n
<1>2. CASE m = "start"
  <2>1. p[n + 1] = "start" /\ \A i \in (n + 1) + 1..n + 1 : p[i] = "clock"
      BY <1>1, <1>2
  <2>2. n + 1 \in 1..Len(p)
      BY <1>1
  <2> QED BY <1>1, <1>2, <2>1, <2>2 DEF HeardAll, Heard, p
<1>3. CASE m = "clock"
  <2>1. (\A i \in 1..n + 1 : p[i] = "clock") <=> \A i \in 1..n : q[i] = "clock"
      BY <1>1, <1>3
  <2>2. \A k \in 1..n : (\A i \in k + 1..n + 1 : p[i] = "clock")
                            <=> \A i \in k + 1..n : q[i] = "clock"
      BY <1>1, <1>3
  <2>3. p[n + 1] # "start"
      BY <1>1, <1>3
  <2>4. (\E k \in 1..n + 1 : p[k] = "start" /\ \A i \in k + 1..n + 1 : p[i] = "clock")
        <=> \E k \in 1..n : q[k] = "start" /\ \A i \in k + 1..n : q[i] = "clock"
      BY <1>1, <2>2, <2>3
  <2> QED BY <1>1, <1>3, <2>1, <2>4 DEF HeardAll, Heard, p, n
<1>4. CASE m \notin {"start", "clock"}
  <2>1. p[n + 1] # "clock" /\ p[n + 1] # "start" /\ n + 1 \in 1..n + 1
      BY <1>1, <1>4
  <2>2. \A k \in 1..n + 1 : k = n + 1 \/ n + 1 \in k + 1..n + 1
      BY <1>1
  <2>3. ~HeardAll(p, rolls)
      BY <1>1, <2>1, <2>2 DEF HeardAll
  <2> QED BY <1>4, <2>3 DEF Heard, p
<1> QED BY <1>2, <1>3, <1>4

\* At the beginning.
LEMMA HeardFirst ==
    ASSUME NEW q \in Seq(Messages), q # <<>>, NEW rolls \in BOOLEAN
    PROVE  HeardAll(q, rolls) <=> HeardAll(Tail(q), Heard(Head(q), rolls))
<1> DEFINE p == Tail(q)
           n == Len(q)
           h == Head(q)
<1>1. /\ n \in Nat \ {0} /\ Len(p) = n - 1 /\ h = q[1]
      /\ \A i \in 1..n - 1 : p[i] = q[i + 1]
    OBVIOUS
<1> HIDE DEF p, n, h
<1>2. (\A i \in 1..n : q[i] = "clock") <=> h = "clock" /\ \A i \in 1..n - 1 : p[i] = "clock"
  <2>1. \A i \in 2..n : i - 1 \in 1..n - 1 /\ p[i - 1] = q[i]
      BY <1>1
  <2>2. \A i \in 1..n - 1 : i + 1 \in 1..n /\ p[i] = q[i + 1]
      BY <1>1
  <2>3. 1 \in 1..n /\ \A i \in 1..n : i = 1 \/ i \in 2..n
      BY <1>1
  <2> QED BY <1>1, <2>1, <2>2, <2>3
<1>3. \A k \in 1..n - 1 : (\A i \in k + 1..n - 1 : p[i] = "clock")
                              <=> \A i \in k + 2..n : q[i] = "clock"
  <2> TAKE k \in 1..n - 1
  <2>1. \A i \in k + 2..n : i - 1 \in k + 1..n - 1 /\ p[i - 1] = q[i]
      BY <1>1
  <2>2. \A i \in k + 1..n - 1 : i + 1 \in k + 2..n /\ p[i] = q[i + 1]
      BY <1>1
  <2> QED BY <2>1, <2>2
<1>4. (\A i \in 2..n : q[i] = "clock") <=> \A i \in 1..n - 1 : p[i] = "clock"
  <2>1. \A i \in 2..n : i - 1 \in 1..n - 1 /\ p[i - 1] = q[i]
      BY <1>1
  <2>2. \A i \in 1..n - 1 : i + 1 \in 2..n /\ p[i] = q[i + 1]
      BY <1>1
  <2> QED BY <2>1, <2>2
<1> DEFINE Last(k) == q[k] = "start" /\ \A i \in k + 1..n : q[i] = "clock"
           LastP(k) == p[k] = "start" /\ \A i \in k + 1..n - 1 : p[i] = "clock"
<1>5. Last(1) <=> h = "start" /\ \A i \in 1..n - 1 : p[i] = "clock"
    BY <1>1, <1>4
<1>6. \A k \in 1..n - 1 : LastP(k) <=> Last(k + 1)
  <2> TAKE k \in 1..n - 1
  <2>1. p[k] = q[k + 1] /\ (k + 1) + 1 = k + 2
      BY <1>1
  <2> QED BY <2>1, <1>3
<1> HIDE DEF Last, LastP
<1>7. (\E k \in 1..n : Last(k)) <=> Last(1) \/ \E k \in 1..n - 1 : LastP(k)
  <2>1. \A k \in 2..n : k - 1 \in 1..n - 1 /\ (k - 1) + 1 = k
      BY <1>1
  <2>2. \A k \in 1..n - 1 : k + 1 \in 1..n
      BY <1>1
  <2>3. 1 \in 1..n /\ \A k \in 1..n : k = 1 \/ k \in 2..n
      BY <1>1
  <2>4. \A k \in 2..n : Last(k) <=> LastP(k - 1)
      BY <1>6, <2>1
  <2> QED BY <1>6, <2>1, <2>2, <2>3, <2>4
<1>8. HeardAll(q, rolls) <=> (rolls /\ \A i \in 1..n : q[i] = "clock") \/ \E k \in 1..n : Last(k)
    BY DEF HeardAll, Last, n
<1>9. HeardAll(p, Heard(h, rolls)) <=>
          (Heard(h, rolls) /\ \A i \in 1..n - 1 : p[i] = "clock") \/ \E k \in 1..n - 1 : LastP(k)
    BY <1>1 DEF HeardAll, LastP
<1> QED BY <1>2, <1>5, <1>7, <1>8, <1>9 DEF Heard, p, h

\* Hearing nothing changes nothing.
LEMMA HeardNothing == ASSUME NEW rolls PROVE HeardAll(<<>>, rolls) <=> rolls
BY DEF HeardAll

-----------------------------------------------------------------------------
\* What the device will do when all that is on its way has been heard.
AfterFlight == IF flight = NoMsg THEN deviceRolls ELSE Heard(flight, deviceRolls)
AfterSender == IF sender = "idle" THEN AfterFlight ELSE Heard(hand, AfterFlight)
AfterQueue == HeardAll(queue, AfterSender)

\* The queue exists before a device is handled, and the transfer is there for as long
\* as the device is announced.
DeviceInv ==
    /\ connected \in BOOLEAN /\ queueMade \in BOOLEAN
    /\ connected \/ client # "idle" \/ state # "uninstalled" => queueMade
    /\ plugged = "new" => plugs > 0
    /\ client = "announce" => transfer # 0
    /\ connected => transfer # 0 /\ client = "idle"

\* Nothing is on its way to a device that is not announced yet, and it does not play.
FreshInv ==
    /\ plugged \in {"none", "new", "known"}
    /\ plugged = "new" \/ (client = "announce" /\ plugged # "none")
           => Drained /\ ~connected /\ ~deviceRolls

\* With nothing dropped, the device will have heard what the box has said.
CleanInv ==
    /\ told \in BOOLEAN /\ deviceRolls \in BOOLEAN /\ clean \in BOOLEAN
    /\ clean /\ connected /\ plugged # "none" => (told <=> AfterQueue)

StepInv == UsbTypes /\ NewDevice /\ DeviceInv /\ FreshInv /\ CleanInv

\* Where nothing is on its way the device has heard everything.
LEMMA DrainedHeard ==
    ASSUME Drained, deviceRolls \in BOOLEAN
    PROVE  AfterQueue <=> deviceRolls
BY HeardNothing DEF Drained, AfterQueue, AfterSender, AfterFlight

\* A byte offered to an announced device joins the end of what it will hear.
LEMMA SendKeepsClean ==
    ASSUME StepInv, NEW m \in Messages, SendByte(m)
    PROVE  DeviceInv' /\ FreshInv' /\ CleanInv'
<1> USE DEF SendByte, device, senderVars, port
<1>1. DeviceInv'
    BY DEF StepInv, DeviceInv
<1>2. FreshInv'
  <2>1. ~connected => queue' = queue
      BY DEF HasRoom
  <2> QED BY <2>1 DEF StepInv, FreshInv, Drained
<1>3. CleanInv'
  <2>1. told' \in BOOLEAN /\ deviceRolls' \in BOOLEAN /\ clean' \in BOOLEAN
      BY DEF DropsAtOnce, StepInv, CleanInv
  <2>2. ASSUME clean', connected', plugged' # "none" PROVE told' <=> AfterQueue'
    <3>1. queueMade /\ clean /\ connected /\ plugged # "none"
          /\ queue' = Append(queue, m)
        BY <2>2 DEF DropsAtOnce, StepInv, DeviceInv
    <3>2. AfterSender' = AfterSender /\ AfterSender \in BOOLEAN
        BY DEF AfterSender, AfterFlight, Heard, StepInv, CleanInv
    <3>3. AfterQueue' <=> Heard(m, AfterQueue)
        BY <3>1, <3>2, HeardAtEnd DEF AfterQueue, StepInv, UsbTypes
    <3>4. told <=> AfterQueue
        BY <3>1 DEF StepInv, CleanInv
    <3>5. told' <=> Heard(m, told)
        BY DEF Heard
    <3> QED BY <3>3, <3>4, <3>5 DEF Heard
  <2> QED BY <2>1, <2>2 DEF CleanInv
<1> QED BY <1>1, <1>2, <1>3

\* The tasks, the transfer and the port carry it on in order, or drop it and say so.
LEMMA UsbKeepsDevice ==
    ASSUME StepInv, UsbNext
    PROVE  DeviceInv' /\ FreshInv'
<1> USE DEF StepInv, UsbTypes, NewDevice, DeviceInv, FreshInv, Drained, device, senderVars, port
<1>1. CASE Begins
    BY <1>1 DEF Begins
<1>2. CASE Takes
    BY <1>2 DEF Takes
<1>3. CASE ChecksDevice
    BY <1>3 DEF ChecksDevice
<1>4. CASE LoadsTransfer
    BY <1>4 DEF LoadsTransfer
<1>5. CASE Submits
    BY <1>5 DEF Submits
<1>6. CASE Completes
    BY <1>6 DEF Completes
<1>7. CASE Connects
    BY <1>7 DEF Connects
<1>8. CASE Announces
    BY <1>8 DEF Announces
<1>9. CASE Disconnects \/ FreesTransfer \/ Closes
  <2>1. CASE Disconnects
      BY <2>1 DEF Disconnects
  <2>2. CASE FreesTransfer
      BY <2>2 DEF FreesTransfer
  <2>3. CASE Closes
      BY <2>3 DEF Closes
  <2> QED BY <1>9, <2>1, <2>2, <2>3
<1>10. CASE Plugs
    BY <1>10 DEF Plugs
<1>11. CASE Unplugs
    BY <1>11 DEF Unplugs
<1> QED BY <1>1, <1>2, <1>3, <1>4, <1>5, <1>6, <1>7, <1>8, <1>9, <1>10, <1>11
        DEF UsbNext, Sender, Client

\* A byte that is dropped is the end of a clean run.
LEMMA DropIsUnclean == Dropped(1) => clean' = FALSE
<1>1. 1 # 0
    OBVIOUS
<1> QED BY <1>1, Zenon DEF Dropped

\* So does what the device will have heard.
LEMMA UsbKeepsClean ==
    ASSUME StepInv, UsbNext
    PROVE  CleanInv'
<1> USE DEF device, senderVars, port
<1>0. /\ UsbTypes /\ DeviceInv /\ FreshInv
      /\ told \in BOOLEAN /\ deviceRolls \in BOOLEAN /\ clean \in BOOLEAN
      /\ AfterFlight \in BOOLEAN /\ AfterSender \in BOOLEAN
    BY DEF StepInv, CleanInv, AfterFlight, AfterSender, Heard
<1>1. CASE Takes
  <2>1. queue # <<>> /\ queue' = Tail(queue) /\ hand' = Head(queue)
        /\ sender = "idle" /\ sender' = "got"
      BY <1>1 DEF Takes
  <2>2. AfterSender' = Heard(Head(queue), AfterSender)
      BY <1>1, <2>1 DEF Takes, AfterSender, AfterFlight
  <2>3. AfterQueue' <=> AfterQueue
      BY <1>0, <2>1, <2>2, HeardFirst DEF AfterQueue, UsbTypes
  <2> QED BY <1>0, <1>1, <2>3 DEF Takes, StepInv, CleanInv
<1>2. CASE ChecksDevice
  <2>1. CASE sender' = "checked" /\ hand' = hand /\ clean' = clean
    <3>1. AfterQueue' = AfterQueue
        BY <1>2, <2>1 DEF ChecksDevice, AfterQueue, AfterSender, AfterFlight
    <3> QED BY <1>0, <1>2, <2>1, <3>1 DEF ChecksDevice, StepInv, CleanInv
  <2>2. CASE clean' = FALSE
      BY <1>0, <1>2, <2>2 DEF ChecksDevice, CleanInv
  <2> QED BY <1>2, <2>1, <2>2, DropIsUnclean DEF ChecksDevice
<1>3. CASE LoadsTransfer
  <2>1. CASE transfer # 0
    <3>1. AfterQueue' = AfterQueue
        BY <1>3, <2>1 DEF LoadsTransfer, AfterQueue, AfterSender, AfterFlight
    <3> QED BY <1>0, <1>3, <3>1 DEF LoadsTransfer, StepInv, CleanInv
  <2>2. CASE transfer = 0
    <3>1. ~connected'
        BY <1>0, <1>3, <2>2 DEF LoadsTransfer, DeviceInv
    <3> QED BY <1>0, <1>3, <3>1 DEF LoadsTransfer, CleanInv
  <2> QED BY <2>1, <2>2
<1>4. CASE Submits
  <2>1. CASE held = allocated /\ flight = NoMsg
    <3>1. flight' = hand /\ clean' = clean /\ sender' = "idle" /\ queue' = queue
          /\ deviceRolls' = deviceRolls /\ sender = "loaded" /\ hand \in Messages
        BY <1>0, <1>4, <2>1 DEF Submits, UsbTypes
    <3>2. AfterSender' = AfterSender
        BY <2>1, <3>1 DEF AfterSender, AfterFlight, Messages, NoMsg
    <3>3. AfterQueue' = AfterQueue
        BY <3>1, <3>2 DEF AfterQueue
    <3> QED BY <1>0, <1>4, <3>1, <3>3 DEF Submits, StepInv, CleanInv
  <2>2. CASE clean' = FALSE
      BY <1>0, <1>4, <2>2 DEF Submits, CleanInv
  <2> QED BY <1>4, <2>1, <2>2, DropIsUnclean DEF Submits, Refused
<1>5. CASE Completes
  <2>1. CASE deviceRolls' = (flight = "start" \/ (flight = "clock" /\ deviceRolls))
             /\ clean' = clean
    <3>1. AfterFlight' <=> AfterFlight
        BY <1>5, <2>1 DEF Completes, AfterFlight, Heard
    <3>2. deviceRolls' \in BOOLEAN /\ AfterFlight' \in BOOLEAN
        BY <1>5, <2>1 DEF Completes, AfterFlight
    <3>3. AfterFlight' = AfterFlight
        BY <1>0, <3>1, <3>2
    <3>4. AfterQueue' = AfterQueue
        BY <1>5, <3>3 DEF Completes, AfterQueue, AfterSender
    <3> QED BY <1>0, <1>5, <2>1, <3>2, <3>4 DEF Completes, StepInv, CleanInv
  <2>2. CASE clean' = FALSE /\ deviceRolls' = deviceRolls
      BY <1>0, <1>5, <2>2 DEF Completes, CleanInv
  <2> QED BY <1>5, <2>1, <2>2, DropIsUnclean DEF Completes
<1>6. CASE Announces
  <2>1. CASE plugged' # "none"
    <3>1. Drained /\ ~deviceRolls
        BY <1>0, <1>6, <2>1 DEF Announces, FreshInv
    <3>2. Drained' /\ ~deviceRolls' /\ deviceRolls' \in BOOLEAN /\ told' = told
          /\ clean' = ~told
        BY <1>0, <1>6, <3>1 DEF Announces, Drained
    <3>3. AfterQueue' <=> deviceRolls'
        BY <3>2, HeardNothing DEF Drained, AfterQueue, AfterSender, AfterFlight
    <3> QED BY <1>0, <3>2, <3>3 DEF CleanInv
  <2>2. CASE plugged' = "none"
      BY <1>0, <1>6, <2>2 DEF Announces, CleanInv
  <2> QED BY <2>1, <2>2
<1>7. CASE Begins \/ Connects \/ Disconnects \/ FreesTransfer \/ Closes \/ Unplugs \/ Plugs
  <2>1. told' = told /\ clean' = clean /\ deviceRolls' \in BOOLEAN
      BY <1>0, <1>7 DEF Begins, Connects, Disconnects, FreesTransfer, Closes, Unplugs, Plugs
  <2>2. CASE Plugs \/ Connects
    <3>1. ~connected'
        BY <2>2 DEF Plugs, Connects, StepInv, NewDevice
    <3> QED BY <1>0, <2>1, <3>1 DEF CleanInv
  <2>3. CASE Begins \/ Disconnects \/ FreesTransfer \/ Closes \/ Unplugs
    <3>1. /\ (connected' => connected) /\ (plugged' # "none" => plugged # "none")
          /\ queue' = queue /\ sender' = sender /\ hand' = hand /\ flight' = flight
          /\ deviceRolls' = deviceRolls
        BY <2>3 DEF Begins, Disconnects, FreesTransfer, Closes, Unplugs
    <3>2. AfterQueue' = AfterQueue
        BY <3>1 DEF AfterQueue, AfterSender, AfterFlight
    <3> QED BY <1>0, <2>1, <3>1, <3>2 DEF StepInv, CleanInv
  <2> QED BY <1>7, <2>2, <2>3
<1> QED BY <1>1, <1>2, <1>3, <1>4, <1>5, <1>6, <1>7 DEF UsbNext, Sender, Client

\* A device with nothing dropped since it came up to a stopped box plays exactly when
\* the box does, once it has heard everything.
THEOREM CleanDevices == Spec => []CleanDeviceInStep
<1>1. Init => CountInv /\ StepInv
  <2> SUFFICES ASSUME UsbInit PROVE CountInv /\ StepInv
      BY DEF Init
  <2>1. CountInv
      BY CountStarts
  <2>2. DeviceInv /\ FreshInv /\ CleanInv
      BY DEF UsbInit, DeviceInv, FreshInv, CleanInv
  <2> QED BY <2>1, <2>2 DEF CountInv, StepInv
<1>2. CountInv /\ StepInv /\ ClockTypeOK' /\ [Next]_vars => CountInv' /\ StepInv'
  <2> SUFFICES ASSUME CountInv, StepInv, ClockTypeOK', [Next]_vars
               PROVE  CountInv' /\ StepInv'
      OBVIOUS
  <2>1. CountInv'
      BY CountKept
  <2>2. DeviceInv' /\ FreshInv' /\ CleanInv'
    <3>1. CASE UNCHANGED usbVars
        BY <3>1 DEF usbVars, device, senderVars, port, StepInv, DeviceInv, FreshInv,
                    Drained, CleanInv, AfterQueue, AfterSender, AfterFlight
    <3> QED BY <3>1, OutputSteps, SendKeepsClean, UsbKeepsDevice, UsbKeepsClean
  <2> QED BY <2>1, <2>2 DEF CountInv, StepInv
<1>3. StepInv => CleanDeviceInStep
  <2> SUFFICES ASSUME StepInv, clean, connected, plugged # "none", Drained
               PROVE  deviceRolls = told
      BY DEF CleanDeviceInStep
  <2>1. told <=> AfterQueue
      BY DEF StepInv, CleanInv
  <2>2. told \in BOOLEAN /\ deviceRolls \in BOOLEAN
      BY DEF StepInv, CleanInv
  <2> QED BY <2>1, <2>2, DrainedHeard
<1> QED BY <1>1, <1>2, <1>3, OutputsKeepClock, ClockTypes, PTL DEF Spec

-----------------------------------------------------------------------------
\* A set of numbers that is not empty has a least one.
LEMMA LeastNumber ==
    ASSUME NEW T, T \subseteq Nat, T # {}
    PROVE  \E n \in T : \A m \in T : n <= m
<1>1. PICK n \in T : \A m \in T : ~(<<m, n>> \in OpToRel(<, Nat))
    BY NatLessThanWellFounded, WFMin
<1>2. \A m \in T : ~(m < n)
  <2> TAKE m \in T
  <2>1. <<m, n>> \in Nat \X Nat
      OBVIOUS
  <2>2. ~(<<m, n>>[1] < <<m, n>>[2])
      BY <1>1, <2>1 DEF OpToRel
  <2> QED BY <2>2
<1> QED BY <1>2

\* What the walk knows before the first descriptor, and a walk of the first n of them.
Unfound == [inside |-> FALSE, intf |-> 0, ep |-> 0]
IsWalk(f, c, n) ==
    f = [i \in 0..n |-> IF i = 0 THEN Unfound ELSE WalkStep(f[i - 1], c[i], i)]

\* There is a walk of any length: a shortest length without one would be a descriptor
\* more than a length with one.
LEMMA WalkExists ==
    ASSUME NEW c, NEW n \in Nat
    PROVE  \E f : IsWalk(f, c, n)
<1> DEFINE T == {m \in Nat : ~\E f : IsWalk(f, c, m)}
<1> SUFFICES ASSUME T # {} PROVE FALSE
    OBVIOUS
<1>1. PICK m \in T : \A k \in T : m <= k
    BY LeastNumber, T \subseteq Nat
<1>2. m \in Nat /\ ~\E f : IsWalk(f, c, m)
    BY <1>1
<1>3. CASE m = 0
  <2> DEFINE f0 == [i \in 0..0 |-> Unfound]
  <2>1. f0 = [i \in 0..0 |-> IF i = 0 THEN Unfound ELSE WalkStep(f0[i - 1], c[i], i)]
      OBVIOUS
  <2> QED BY <1>2, <1>3, <2>1 DEF IsWalk
<1>4. CASE m # 0
  <2>1. m - 1 \in Nat /\ m - 1 \notin T
      BY <1>1, <1>2, <1>4
  <2>2. PICK f : IsWalk(f, c, m - 1)
      BY <2>1
  <2> DEFINE g == [i \in 0..m |-> IF i = m THEN WalkStep(f[m - 1], c[m], m) ELSE f[i]]
  <2>3. \A i \in 0..(m - 1) : g[i] = f[i]
      BY <1>2
  <2>4. ASSUME NEW i \in 0..m
        PROVE  g[i] = IF i = 0 THEN Unfound ELSE WalkStep(g[i - 1], c[i], i)
    <3>1. CASE i = m
        BY <1>2, <1>4, <2>3, <3>1
    <3>2. CASE i \in 0..(m - 1)
      <4>1. f[i] = IF i = 0 THEN Unfound ELSE WalkStep(f[i - 1], c[i], i)
          BY <2>2, <3>2 DEF IsWalk
      <4>2. i # 0 => g[i - 1] = f[i - 1]
          BY <1>2, <2>3, <3>2
      <4>3. g[i] = f[i]
          BY <2>3, <3>2
      <4> HIDE DEF g
      <4> QED BY <4>1, <4>2, <4>3
    <3> QED BY <1>2, <3>1, <3>2
  <2>5. g = [i \in 0..m |-> g[i]]
      OBVIOUS
  <2> HIDE DEF g
  <2>6. IsWalk(g, c, m)
      BY <2>4, <2>5 DEF IsWalk
  <2> QED BY <1>2, <2>6
<1> QED BY <1>3, <1>4

\* What a walk has found, and where it looks next.
LEMMA WalkResult ==
    ASSUME NEW c, Len(c) \in Nat
    PROVE  \E f : /\ IsWalk(f, c, Len(c))
                  /\ Walk(c) = IF f[Len(c)].ep = 0 THEN NoClaim
                               ELSE [intf |-> f[Len(c)].intf, ep |-> f[Len(c)].ep]
<1> DEFINE h == CHOOSE f : IsWalk(f, c, Len(c))
<1>1. IsWalk(h, c, Len(c))
    BY WalkExists
<1>2. Walk(c) = IF h[Len(c)].ep = 0 THEN NoClaim
                ELSE [intf |-> h[Len(c)].intf, ep |-> h[Len(c)].ep]
    BY DEF Walk, IsWalk, Unfound
<1> QED BY <1>1, <1>2

\* The latest interface, one descriptor further on.
LEMMA NextInterface ==
    ASSUME NEW c, NEW n \in Nat
    PROVE  InterfaceOf(c, n + 2) =
               IF c[n + 1] \in {"midi", "other"} THEN n + 1 ELSE InterfaceOf(c, n + 1)
<1> DEFINE B(i) == {j \in 1..i - 1 : c[j] \in {"midi", "other"}}
<1>1. CASE c[n + 1] \in {"midi", "other"}
  <2>1. n + 1 \in B(n + 2) /\ \A k \in B(n + 2) : k <= n + 1
      BY <1>1
  <2>2. B(n + 2) \subseteq Nat
      OBVIOUS
  <2> HIDE DEF B
  <2>3. \A j \in B(n + 2) : (\A k \in B(n + 2) : k <= j) => j = n + 1
      BY <2>1, <2>2
  <2>4. (CHOOSE j \in B(n + 2) : \A k \in B(n + 2) : k <= j) = n + 1
      BY <2>1, <2>3
  <2>5. InterfaceOf(c, n + 2) = IF B(n + 2) = {} THEN 0
                                ELSE CHOOSE j \in B(n + 2) : \A k \in B(n + 2) : k <= j
      BY DEF InterfaceOf, B
  <2> QED BY <1>1, <2>1, <2>4, <2>5
<1>2. CASE c[n + 1] \notin {"midi", "other"}
  <2>1. B(n + 2) = B(n + 1)
    <3>1. ASSUME NEW j \in 1..(n + 1), c[j] \in {"midi", "other"} PROVE j \in 1..n
        BY <1>2, <3>1
    <3> QED BY <3>1
  <2>2. \A i : InterfaceOf(c, i) = IF B(i) = {} THEN 0
                                   ELSE CHOOSE j \in B(i) : \A k \in B(i) : k <= j
      BY DEF InterfaceOf
  <2> HIDE DEF B
  <2> QED BY <1>2, <2>1, <2>2
<1> QED BY <1>1, <1>2

\* What a walk knows after n descriptors: whether the latest interface is a
\* MIDIStreaming one, which it is then; and once an endpoint is found, that it is a bulk
\* OUT one and that the interface kept is the one before it.
Knows(c, n, w) ==
    /\ w \in [inside : BOOLEAN, intf : Nat, ep : Nat]
    /\ w.inside => c[InterfaceOf(c, n + 1)] = "midi"
    /\ w.inside /\ w.ep = 0 => w.intf = InterfaceOf(c, n + 1)
    /\ w.ep # 0 => /\ c[w.ep] = "out" /\ c[w.intf] = "midi"
                   /\ InterfaceOf(c, w.ep) = w.intf

\* A walk knows that at every length: the shortest length at which it did not would be one
\* descriptor after a length at which it did.
LEMMA WalkKnows ==
    ASSUME NEW c, NEW n \in Nat, \A i \in 1..n : c[i] \in Kinds, NEW f, IsWalk(f, c, n)
    PROVE  \A i \in 0..n : Knows(c, i, f[i])
<1>1. f[0] = Unfound /\ \A i \in 0..n : i # 0 => f[i] = WalkStep(f[i - 1], c[i], i)
    BY DEF IsWalk
<1>2. Knows(c, 0, f[0])
    BY <1>1 DEF Knows, Unfound
<1>3. ASSUME NEW i \in 0..n, i # 0, Knows(c, i - 1, f[i - 1])
      PROVE  Knows(c, i, f[i])
  <2> DEFINE w == f[i - 1]
             latest == InterfaceOf(c, i)
  <2>1. f[i] = WalkStep(w, c[i], i) /\ c[i] \in Kinds
      BY <1>1, <1>3
  <2>2. InterfaceOf(c, i + 1) = IF c[i] \in {"midi", "other"} THEN i ELSE latest
    <3>1. i - 1 \in Nat /\ (i - 1) + 1 = i /\ (i - 1) + 2 = i + 1
        BY <1>3
    <3> QED BY <3>1, NextInterface
  <2>3. /\ w \in [inside : BOOLEAN, intf : Nat, ep : Nat]
        /\ w.inside => c[latest] = "midi"
        /\ w.inside /\ w.ep = 0 => w.intf = latest
        /\ w.ep # 0 => /\ c[w.ep] = "out" /\ c[w.intf] = "midi"
                       /\ InterfaceOf(c, w.ep) = w.intf
    <3>1. (i - 1) + 1 = i
        BY <1>3
    <3> QED BY <1>3, <3>1 DEF Knows
  <2>4. i \in Nat /\ i # 0
      BY <1>3
  <2> HIDE DEF w, latest
  <2>5. CASE c[i] = "midi"
    <3>1. f[i] = [inside |-> TRUE, intf |-> IF w.ep = 0 THEN i ELSE w.intf, ep |-> w.ep]
        BY <2>1, <2>3, <2>5 DEF WalkStep
    <3> QED BY <2>2, <2>3, <2>4, <2>5, <3>1 DEF Knows
  <2>6. CASE c[i] = "other"
    <3>1. f[i] = [inside |-> FALSE, intf |-> w.intf, ep |-> w.ep]
        BY <2>1, <2>3, <2>6 DEF WalkStep
    <3> QED BY <2>3, <2>4, <3>1 DEF Knows
  <2>7. CASE c[i] = "out" /\ w.inside /\ w.ep = 0
    <3>1. f[i] = [inside |-> TRUE, intf |-> w.intf, ep |-> i]
        BY <2>1, <2>3, <2>7 DEF WalkStep
    <3>2. InterfaceOf(c, i + 1) = latest
        BY <2>2, <2>7
    <3>3. w.intf = latest /\ c[latest] = "midi"
        BY <2>3, <2>7
    <3> QED BY <2>3, <2>4, <2>7, <3>1, <3>2, <3>3 DEF Knows, latest
  <2>8. CASE c[i] \in {"out", "in"} /\ ~(c[i] = "out" /\ w.inside /\ w.ep = 0)
    <3>1. f[i] = w
        BY <2>1, <2>8 DEF WalkStep
    <3>2. InterfaceOf(c, i + 1) = latest
        BY <2>2, <2>8
    <3> QED BY <2>3, <3>1, <3>2 DEF Knows
  <2> QED BY <2>1, <2>5, <2>6, <2>7, <2>8 DEF Kinds
<1> DEFINE T == {i \in 0..n : ~Knows(c, i, f[i])}
<1>4. SUFFICES ASSUME T # {} PROVE FALSE
    OBVIOUS
<1>5. T \subseteq Nat
    OBVIOUS
<1> HIDE DEF T
<1>6. PICK i \in T : \A k \in T : i <= k
    BY <1>4, <1>5, LeastNumber
<1> USE DEF T
<1>7. i # 0 /\ i - 1 \in 0..n /\ i - 1 \notin T
    BY <1>2, <1>6
<1> QED BY <1>3, <1>6, <1>7

\* A walk that claims anything claims a bulk OUT endpoint of the interface it claims.
LEMMA WalkOwns ==
    ASSUME NEW c \in Configs, Walk(c) # NoClaim
    PROVE  /\ c[Walk(c).intf] = "midi" /\ c[Walk(c).ep] = "out"
           /\ InterfaceOf(c, Walk(c).ep) = Walk(c).intf
<1>1. PICK n \in 0..MaxDescriptors : c \in [1..n -> Kinds]
    BY DEF Configs
<1>2. n \in Nat /\ Len(c) = n
    BY <1>1
<1>3. PICK f : /\ IsWalk(f, c, n)
               /\ Walk(c) = IF f[n].ep = 0 THEN NoClaim
                            ELSE [intf |-> f[n].intf, ep |-> f[n].ep]
    BY <1>2, WalkResult
<1>4. Knows(c, n, f[n])
    BY <1>1, <1>2, <1>3, WalkKnows
<1> QED BY <1>3, <1>4 DEF Knows

\* A walk of no descriptors claims nothing.
LEMMA WalkOfNothing == Walk(<<>>) = NoClaim
<1>1. Len(<<>>) = 0
    OBVIOUS
<1>2. PICK f : /\ IsWalk(f, <<>>, 0)
               /\ Walk(<<>>) = IF f[0].ep = 0 THEN NoClaim
                               ELSE [intf |-> f[0].intf, ep |-> f[0].ep]
    BY <1>1, WalkResult
<1> QED BY <1>2 DEF IsWalk, Unfound

-----------------------------------------------------------------------------
\* The types of the output, but for the count; the device being announced has a
\* descriptor that has been walked and claimed.
Claimed == client = "announce" => config \in Configs /\ Walk(config) # NoClaim

UsbParts ==
    /\ queueMade \in BOOLEAN /\ connected \in BOOLEAN /\ deviceOpen \in BOOLEAN
    /\ told \in BOOLEAN /\ deviceRolls \in BOOLEAN /\ clean \in BOOLEAN
    /\ plugged \in {"none", "new", "known"}
    /\ state \in {"uninstalled", "waiting", "noMidi", "ready"}
    /\ client \in {"idle", "announce", "free", "close"}
    /\ client # "announce" => config = <<>>
    /\ transfer \in 0..MaxPlugs /\ allocated \in 0..MaxPlugs
    /\ held \in 0..MaxPlugs /\ plugs \in 0..MaxPlugs
    /\ Len(queue) <= QueueLen

UsbInv == UsbTypes /\ UsbParts /\ Claimed

\* The bounds are numbers.
LEMMA UsbBounds == QueueLen \in Nat /\ MaxDescriptors \in Nat /\ MaxPlugs \in Nat
BY UsbAssumption

\* A byte offered.
LEMMA SendKeepsParts ==
    ASSUME UsbInv, NEW m \in Messages, SendByte(m)
    PROVE  UsbParts' /\ Claimed'
<1> USE DEF SendByte, device, senderVars, port, UsbInv, UsbTypes, UsbParts
<1>1. told' \in BOOLEAN
    BY Zenon
<1>2. Len(queue') <= QueueLen
    BY UsbBounds DEF HasRoom
<1>3. clean' \in BOOLEAN
    BY DEF DropsAtOnce
<1> QED BY <1>1, <1>2, <1>3 DEF Claimed

\* The two tasks, the transfer and the port.
LEMMA UsbKeepsParts ==
    ASSUME UsbInv, UsbNext
    PROVE  UsbParts' /\ Claimed'
<1> USE UsbBounds DEF device, senderVars, port, UsbInv, UsbTypes, UsbParts, Claimed
<1>1. CASE Begins
    BY <1>1 DEF Begins
<1>2. CASE Takes
    BY <1>2 DEF Takes
<1>3. CASE ChecksDevice
  <2>1. clean' \in BOOLEAN
      BY <1>3, DropIsUnclean DEF ChecksDevice
  <2> QED BY <1>3, <2>1 DEF ChecksDevice
<1>4. CASE LoadsTransfer
    BY <1>4 DEF LoadsTransfer
<1>5. CASE Submits
  <2>1. clean' \in BOOLEAN
      BY <1>5, DropIsUnclean DEF Submits, Refused
  <2> QED BY <1>5, <2>1 DEF Submits
<1>6. CASE Completes
  <2>1. clean' \in BOOLEAN
      BY <1>6, DropIsUnclean DEF Completes
  <2>2. deviceRolls' \in BOOLEAN
      BY <1>6, Zenon DEF Completes
  <2> QED BY <1>6, <2>1, <2>2 DEF Completes
<1>7. CASE Connects
    BY <1>7 DEF Connects
<1>8. CASE Announces
    BY <1>8 DEF Announces
<1>9. CASE Disconnects
    BY <1>9 DEF Disconnects
<1>10. CASE FreesTransfer
    BY <1>10 DEF FreesTransfer
<1>11. CASE Closes
  <2>1. 0 \in 0..MaxPlugs /\ config' = <<>> /\ client' = "idle" /\ queue' = queue
      BY <1>11 DEF Closes
  <2>2. /\ transfer' = 0 /\ deviceOpen' = FALSE /\ state' = "waiting"
        /\ UNCHANGED <<queueMade, connected, told, deviceRolls, clean, plugged, allocated,
                        held, plugs>>
      BY <1>11 DEF Closes
  <2> QED BY <2>1, <2>2
<1>12. CASE Plugs
  <2>1. plugs' = plugs + 1 /\ plugs < MaxPlugs /\ deviceRolls' = FALSE
      BY <1>12 DEF Plugs
  <2>2. plugs \in 0..MaxPlugs /\ MaxPlugs \in Nat
      OBVIOUS
  <2>3. plugs' \in 0..MaxPlugs
      BY ONLY <2>1, <2>2
  <2>4. deviceRolls' \in BOOLEAN
      BY ONLY <2>1
  <2> QED BY <1>12, <2>3, <2>4 DEF Plugs
<1>13. CASE Unplugs
    BY <1>13 DEF Unplugs
<1> QED BY <1>1, <1>2, <1>3, <1>4, <1>5, <1>6, <1>7, <1>8, <1>9, <1>10, <1>11, <1>12, <1>13
        DEF UsbNext, Sender, Client

\* Every step of the clock and the outputs.
LEMMA UsbInvKept ==
    ASSUME CountInv, UsbInv, ClockTypeOK', [Next]_vars
    PROVE  UsbInv'
<1>1. UsbTypes'
    BY CountKept DEF CountInv
<1>2. CASE UNCHANGED usbVars
    BY <1>2 DEF usbVars, device, senderVars, port, UsbInv, UsbTypes, UsbParts, Claimed
<1> QED BY <1>1, <1>2, OutputSteps, SendKeepsParts, UsbKeepsParts DEF UsbInv

\* The invariant holds throughout.
LEMMA UsbInvHolds == Spec => [](CountInv /\ UsbInv)
<1>1. Init => CountInv /\ UsbInv
  <2> SUFFICES ASSUME UsbInit PROVE CountInv /\ UsbInv
      BY DEF Init
  <2>1. CountInv
      BY CountStarts
  <2>2. queue = <<>> /\ Len(<<>>) = 0 /\ 0 \in 0..MaxPlugs /\ 0 <= QueueLen
      BY UsbBounds DEF UsbInit
  <2>3. UsbParts /\ Claimed
      BY <2>2 DEF UsbInit, UsbParts, Claimed
  <2> QED BY <2>1, <2>3 DEF CountInv, UsbInv
<1>2. CountInv /\ UsbInv /\ ClockTypeOK' /\ [Next]_vars => CountInv' /\ UsbInv'
    BY CountKept, UsbInvKept
<1> QED BY <1>1, <1>2, OutputsKeepClock, ClockTypes, PTL DEF Spec

\* The types of the output; among them, that no more bytes are ever on their way or lost
\* than the queue holds, the sender and the transfer carry, and devices were unplugged.
THEOREM UsbOutputTypes == Spec => []UsbTypeOK
<1>1. CountInv /\ UsbInv => UsbTypeOK
  <2> SUFFICES ASSUME CountInv, UsbInv PROVE UsbTypeOK
      OBVIOUS
  <2> USE DEF UsbInv, UsbTypes, UsbParts
  <2>1. Len(config) <= MaxDescriptors /\ (config = <<>> <=> client # "announce")
    <3>1. CASE client = "announce"
      <4>1. config \in Configs /\ config # <<>>
          BY <3>1, WalkOfNothing DEF Claimed
      <4>2. PICK n \in 0..MaxDescriptors : config \in [1..n -> Kinds]
          BY <4>1 DEF Configs
      <4>3. Len(config) = n
          BY <4>2
      <4> QED BY <3>1, <4>1, <4>3, UsbBounds
    <3>2. CASE client # "announce"
        BY <3>2, UsbBounds
    <3> QED BY <3>1, <3>2
  <2>2. unaccounted \in 0..QueueLen + 2 + MaxPlugs
    <3>1. Len(queue) \in 0..QueueLen
        BY UsbBounds
    <3>2. InTransit \in 0..QueueLen + 2
      <4> DEFINE bySender == IF sender = "idle" THEN 0 ELSE 1
                 byTransfer == IF flight = NoMsg THEN 0 ELSE 1
      <4>1. bySender \in 0..1 /\ byTransfer \in 0..1
          OBVIOUS
      <4>2. InTransit = Len(queue) + bySender + byTransfer
          BY DEF InTransit
      <4> HIDE DEF bySender, byTransfer
      <4> QED BY <3>1, <4>1, <4>2, UsbBounds
    <3> QED BY <3>2, UsbBounds DEF CountInv, Lost
  <2>3. hand \in Messages \cup {NoMsg}
      OBVIOUS
  <2> QED BY <2>1, <2>2, <2>3 DEF UsbTypeOK
<1> QED BY <1>1, UsbInvHolds, PTL

\* Whatever the descriptor, the endpoint the box sends to belongs to the interface it
\* has claimed, and that is a MIDIStreaming one.
THEOREM ClaimsOwnEndpoint == Spec => []ClaimOwnsEndpoint
<1>1. UsbInv => ClaimOwnsEndpoint
    BY WalkOwns DEF UsbInv, Claimed, ClaimOwnsEndpoint
<1> QED BY <1>1, UsbInvHolds, PTL
=============================================================================
