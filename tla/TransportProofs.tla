-------------------------- MODULE TransportProofs ---------------------------
(***************************************************************************)
(* Proofs about Transport, for any debounce time, timeouts, grace and slip *)
(* threshold.                                                              *)
(***************************************************************************)
EXTENDS Transport, TLAPS

\* The types, the Boolean flags apart from the counters.
Flags ==
    /\ playing \in BOOLEAN /\ freeRun \in BOOLEAN /\ linkUp \in BOOLEAN
    /\ keep \in BOOLEAN /\ holding \in BOOLEAN /\ ignore \in BOOLEAN
    /\ manual \in BOOLEAN /\ lastPlaying \in BOOLEAN /\ pendingPlay \in BOOLEAN
    /\ slipPending \in BOOLEAN /\ lastLinkUp \in BOOLEAN
    /\ resync \in {"none", "deferred", "immediate"}
    /\ pc \in {"beat", "status", "statusHold", "silence", "timeout", "timeoutHold",
               "resync", "cold"}
    /\ out \in {"nothing", "start", "stopPaused", "stopSilent", "realign", "resync",
                "feed"}

Counters ==
    /\ pendingAge \in 0..Debounce
    /\ packetAge \in 0..MaxPacketAge
    /\ beatAge \in 0..Live
    /\ expected \in 0..4
    /\ slipCount \in 0..SlipThreshold

\* The type invariant is those two parts.
LEMMA TypeParts == TypeOK <=> Flags /\ Counters
BY DEF TypeOK, Flags, Counters

\* A capped count stays in its range.
LEMMA CapType ==
    ASSUME NEW max \in Nat, NEW n \in Nat
    PROVE  Cap(n, max) \in 0..max
BY DEF Cap

\* The bounds are numbers, and the initial ages are within them.
LEMMA BoundFacts ==
    /\ Debounce \in Nat /\ Live \in Nat /\ MaxPacketAge \in Nat /\ SlipThreshold \in Nat
    /\ 0 \in 0..Debounce /\ Debounce \in 0..Debounce
    /\ 0 \in 0..Live /\ Live \in 0..Live
    /\ 0 \in 0..MaxPacketAge /\ 0 \in 0..SlipThreshold
BY TransportAssumption DEF MaxPacketAge

\* The count of disagreements never passes the threshold, whatever the beat.
LEMMA SlipAfterType ==
    ASSUME Counters, NEW p \in BeatIn
    PROVE  SlipAfter(p) \in 0..SlipThreshold
<1>1. slipCount + 1 \in Nat /\ slipCount \in 0..SlipThreshold
    BY DEF Counters
<1>2. Cap(slipCount + 1, SlipThreshold) \in 0..SlipThreshold
    BY <1>1, CapType, BoundFacts
<1> QED
    BY <1>1, <1>2, BoundFacts DEF SlipAfter

\* A beat packet carries one of four beats.
LEMMA BeatFacts == \A p \in BeatIn : p.beat \in 1..4
BY DEF BeatIn

-----------------------------------------------------------------------------
\* No handler, timeout or setter takes a flag or the program counter out of its type.
LEMMA FlagsNext == Flags /\ [Next]_vars => Flags'
<1> SUFFICES ASSUME Flags, [Next]_vars PROVE Flags'
    OBVIOUS
<1> USE DEF Flags
<1>1. ASSUME NEW p \in BeatIn, RecvBeat(p) PROVE Flags'
    <2> USE DEF RecvBeat, HandleBeat, playFlags
    <2>1. CASE BeatStarts(p)
        BY <1>1, <2>1 DEF BeatStarts, ResetSlip, slipVars
    <2>2. CASE BeatSteers(p)
        BY <1>1, <2>2 DEF BeatSteers
    <2>3. CASE out' = "nothing" /\ UNCHANGED <<playing, slipVars, resync>>
        BY <1>1, <2>3 DEF slipVars
    <2> QED
        BY <1>1, <2>1, <2>2, <2>3
<1>2. CASE RecvBeatTimeout
    BY <1>2 DEF RecvBeatTimeout, uiFlags, playFlags, slipVars
<1>3. ASSUME NEW p \in StatusIn, RecvStatus(p) PROVE Flags'
    <2>1. p.play \in BOOLEAN
        BY DEF StatusIn
    <2>2. /\ playing' \in BOOLEAN /\ slipPending' \in BOOLEAN
          /\ pc' \in {"silence", "statusHold"} /\ out' \in {"nothing", "stopPaused"}
        BY <1>3 DEF RecvStatus, HandleStatus, StopClock, ResetSlip, slipVars
    <2>3. lastPlaying' \in BOOLEAN /\ pendingPlay' \in BOOLEAN /\ holding' \in BOOLEAN
        BY <1>3, <2>1 DEF RecvStatus, HandleStatus, playFlags
    <2> QED
        BY <1>3, <2>2, <2>3 DEF RecvStatus, HandleStatus, uiFlags
<1>4. CASE RecvStatusTimeout
    BY <1>4 DEF RecvStatusTimeout, uiFlags, playFlags, slipVars
<1>5. CASE Hold
    BY <1>5 DEF Hold, uiFlags, playFlags, slipVars
<1>6. CASE SilenceEdge
    BY <1>6 DEF SilenceEdge, uiFlags, playFlags, slipVars
<1>7. CASE SilenceTimeout
    <2>1. CASE SilenceExpired /\ ~keep
        BY <1>7, <2>1 DEF SilenceTimeout, StopClock, ResetSlip, uiFlags
    <2>2. CASE ~(SilenceExpired /\ ~keep)
        BY <1>7, <2>2 DEF SilenceTimeout, uiFlags, slipVars
    <2> QED
        BY <2>1, <2>2
<1>8. CASE MaybeResync
    BY <1>8 DEF MaybeResync, uiFlags, playFlags, slipVars
<1>9. ASSUME NEW dt \in 0..1, ColdStart(dt) PROVE Flags'
    BY <1>9 DEF ColdStart, uiFlags, slipVars
<1>10. CASE Setter /\ NotSetter
    <2>1. UNCHANGED <<playing, playFlags, slipVars, lastLinkUp, pc, out>>
        BY <1>10 DEF NotSetter
    <2>2. /\ freeRun' \in BOOLEAN /\ linkUp' \in BOOLEAN /\ keep' \in BOOLEAN
          /\ holding' \in BOOLEAN /\ ignore' \in BOOLEAN /\ manual' \in BOOLEAN
          /\ resync' \in {"none", "deferred", "immediate"}
        <3>1. ASSUME NEW on \in BOOLEAN,
                     SetFreeRun(on) \/ SetKeepPlaying(on) \/ SetIgnoreMaster(on)
                     \/ SetLinkUp(on)
              PROVE  <2>2!:
            BY <3>1 DEF SetFreeRun, SetKeepPlaying, SetIgnoreMaster, SetLinkUp
        <3>2. CASE SetManualBpm \/ EnterRole
            BY <3>2 DEF SetManualBpm, EnterRole
        <3>3. ASSUME NEW kind \in {"deferred", "immediate"}, RequestResync(kind)
              PROVE  <2>2!:
            BY <3>3 DEF RequestResync, uiFlags
        <3> QED
            BY <1>10, <3>1, <3>2, <3>3 DEF Setter
    <2> QED
        BY <2>1, <2>2 DEF playFlags, slipVars
<1>11. CASE UNCHANGED vars
    BY <1>11 DEF vars, uiFlags, playFlags, slipVars
<1> QED
    BY <1>1, <1>2, <1>3, <1>4, <1>5, <1>6, <1>7, <1>8, <1>9, <1>10, <1>11
    DEF Next, Loop, Housekeeping

\* Nor an age, a beat or the slip count.
LEMMA CountersNext == Counters /\ [Next]_vars => Counters'
<1> SUFFICES ASSUME Counters, [Next]_vars PROVE Counters'
    OBVIOUS
<1> USE BoundFacts DEF Counters
<1>1. ASSUME NEW p \in BeatIn, RecvBeat(p) PROVE Counters'
    <2> USE DEF RecvBeat, HandleBeat, playFlags
    <2>1. CASE BeatStarts(p)
        BY <1>1, <2>1 DEF BeatStarts, ResetSlip, slipVars
    <2>2. CASE BeatSteers(p)
        <3>1. expected' \in 0..4
            BY <2>2, BeatFacts DEF BeatSteers
        <3>2. slipCount' \in 0..SlipThreshold
            BY <2>2, SlipAfterType DEF BeatSteers
        <3> QED
            BY <1>1, <3>1, <3>2
    <2>3. CASE out' = "nothing" /\ UNCHANGED <<playing, slipVars, resync>>
        BY <1>1, <2>3 DEF slipVars
    <2> QED
        BY <1>1, <2>1, <2>2, <2>3
<1>2. CASE RecvBeatTimeout
    BY <1>2 DEF RecvBeatTimeout, playFlags, ages, slipVars
<1>3. ASSUME NEW p \in StatusIn, RecvStatus(p) PROVE Counters'
    <2>1. pendingAge' \in 0..Debounce
        BY <1>3 DEF RecvStatus, HandleStatus, playFlags
    <2>2. expected' \in 0..4 /\ slipCount' \in 0..SlipThreshold
        <3>1. CASE UNCHANGED slipVars
            BY <3>1 DEF slipVars
        <3>2. CASE expected' = 0 /\ slipCount' = 0
            BY <3>2
        <3> QED
            BY <1>3, <3>1, <3>2 DEF RecvStatus, HandleStatus, StopClock, ResetSlip
    <2> QED
        BY <1>3, <2>1, <2>2 DEF RecvStatus, HandleStatus
<1>4. CASE RecvStatusTimeout
    BY <1>4 DEF RecvStatusTimeout, playFlags, ages, slipVars
<1>5. CASE Hold
    BY <1>5 DEF Hold, playFlags, ages, slipVars
<1>6. CASE SilenceEdge
    BY <1>6 DEF SilenceEdge, playFlags, slipVars
<1>7. CASE SilenceTimeout
    <2>1. expected' \in 0..4 /\ slipCount' \in 0..SlipThreshold
        <3>1. CASE UNCHANGED slipVars
            BY <3>1 DEF slipVars
        <3>2. CASE expected' = 0 /\ slipCount' = 0
            BY <3>2
        <3> QED
            BY <1>7, <3>1, <3>2 DEF SilenceTimeout, StopClock, ResetSlip
    <2> QED
        BY <1>7, <2>1 DEF SilenceTimeout, ages
<1>8. CASE MaybeResync
    BY <1>8 DEF MaybeResync, playFlags, ages, slipVars
<1>9. ASSUME NEW dt \in 0..1, ColdStart(dt) PROVE Counters'
    <2>1. packetAge + dt \in Nat /\ beatAge + dt \in Nat /\ pendingAge + dt \in Nat
        OBVIOUS
    <2>2. /\ Cap(packetAge + dt, MaxPacketAge) \in 0..MaxPacketAge
          /\ Cap(beatAge + dt, Live) \in 0..Live
          /\ Cap(pendingAge + dt, Debounce) \in 0..Debounce
        BY <2>1, CapType
    <2> QED
        BY <1>9, <2>2 DEF ColdStart, slipVars
<1>10. CASE Setter /\ NotSetter
    BY <1>10 DEF NotSetter, playFlags, ages, slipVars
<1>11. CASE UNCHANGED vars
    BY <1>11 DEF vars, playFlags, ages, slipVars
<1> QED
    BY <1>1, <1>2, <1>3, <1>4, <1>5, <1>6, <1>7, <1>8, <1>9, <1>10, <1>11
    DEF Next, Loop, Housekeeping

\* The bridge starts in a state of the declared types.
LEMMA TypeInit == Init => TypeOK
<1>1. Init => Flags
    BY DEF Init, Flags
<1>2. Init => Counters
    BY BoundFacts DEF Init, Counters
<1> QED
    BY <1>1, <1>2, TypeParts

\* Every step of the loop and every setter keeps the declared types.
LEMMA TypeNext == TypeOK /\ [Next]_vars => TypeOK'
BY TypeParts, FlagsNext, CountersNext, PTL

\* Transport never leaves the declared types: the ages and the slip count stay
\* within their bounds, whatever arrives and whatever the UI thread sets.
THEOREM TypeCorrect == Spec => []TypeOK
BY TypeInit, TypeNext, PTL DEF Spec

-----------------------------------------------------------------------------
\* Every step keeps a stopped clock free of bar positions: a stop resets them, and
\* only a running clock observes new ones.
LEMMA CleanNext == Flags /\ StoppedIsClean /\ [Next]_vars => StoppedIsClean'
<1> SUFFICES ASSUME Flags, StoppedIsClean, [Next]_vars, ~playing'
             PROVE  expected' = 0 /\ slipCount' = 0 /\ ~slipPending'
    BY DEF StoppedIsClean
<1> USE DEF StoppedIsClean
<1>1. CASE UNCHANGED <<playing, slipVars>>
    BY <1>1 DEF slipVars
<1>2. ASSUME NEW why, StopClock(why) PROVE expected' = 0 /\ slipCount' = 0 /\ ~slipPending'
    BY <1>2 DEF StopClock, ResetSlip
<1>3. ASSUME NEW p \in BeatIn, RecvBeat(p) PROVE UNCHANGED <<playing, slipVars>>
    BY <1>3 DEF RecvBeat, HandleBeat, BeatStarts, BeatSteers
<1>4. ASSUME NEW p \in StatusIn, RecvStatus(p)
      PROVE  UNCHANGED <<playing, slipVars>> \/ StopClock("stopPaused")
    <2>1. CASE playing /\ UNCHANGED playing
        BY <2>1
    <2>2. CASE ~(playing /\ UNCHANGED playing)
        BY <1>4, <2>2 DEF RecvStatus, HandleStatus
    <2> QED
        BY <2>1, <2>2
<1>5. CASE SilenceTimeout
    BY <1>1, <1>2, <1>5 DEF SilenceTimeout, slipVars
<1>6. ASSUME NEW dt \in 0..1, ColdStart(dt) PROVE UNCHANGED <<playing, slipVars>>
    BY <1>6 DEF ColdStart
<1>7. CASE RecvBeatTimeout
    BY <1>1, <1>7 DEF RecvBeatTimeout
<1>8. CASE RecvStatusTimeout
    BY <1>1, <1>8 DEF RecvStatusTimeout
<1>9. CASE Hold
    BY <1>1, <1>9 DEF Hold
<1>10. CASE SilenceEdge
    BY <1>1, <1>10 DEF SilenceEdge
<1>11. CASE MaybeResync
    BY <1>1, <1>11 DEF MaybeResync
<1>12. CASE NotSetter \/ UNCHANGED vars
    BY <1>1, <1>12 DEF NotSetter, vars
<1> QED
    BY <1>1, <1>2, <1>3, <1>4, <1>5, <1>6, <1>7, <1>8, <1>9, <1>10, <1>11, <1>12
    DEF Next, Loop, Housekeeping

\* A clock that does not run remembers no bar position, no slip count and no planned
\* realignment: whatever stopped it, the next Start is aligned by its downbeat only.
THEOREM CleanAfterStop == Spec => []StoppedIsClean
<1>1. Init => StoppedIsClean
    BY DEF Init, StoppedIsClean
<1>2. TypeOK => Flags
    BY TypeParts
<1> QED
    BY <1>1, <1>2, CleanNext, TypeCorrect, PTL DEF Spec
=============================================================================
