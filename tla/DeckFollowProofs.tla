-------------------------- MODULE DeckFollowProofs --------------------------
(***************************************************************************)
(* Proofs about DeckFollow, for any debounce time, timeouts, grace, slip   *)
(* threshold and bound on the clean beats, and for any set of setters the  *)
(* operator uses.                                                          *)
(***************************************************************************)
EXTENDS DeckFollow, TransportProofs

\* Closing the transport with its decks adds no behaviour to it: every step of the
\* closed system is a step of Transport or leaves it alone.
LEMMA FollowStep == deckPlays \in BOOLEAN /\ [FollowNext]_followVars => [Next]_vars
<1> SUFFICES ASSUME deckPlays \in BOOLEAN, [FollowNext]_followVars PROVE [Next]_vars
    OBVIOUS
<1>1. ASSUME NEW b \in 1..4, BeatArrives(b) \/ BeatLost(b) \/ OtherBeats(b) PROVE Next
    <2>1. /\ [from |-> "master", beat |-> b] \in BeatIn
          /\ [from |-> "other", beat |-> b] \in BeatIn
        BY DEF BeatIn
    <2>2. RecvBeatTimeout \/ \E p \in BeatIn : RecvBeat(p)
        BY <1>1, <2>1 DEF BeatArrives, BeatLost, OtherBeats
    <2> QED
        BY <2>2 DEF Next, Loop
<1>2. CASE NoBeat \/ NoStatus
    BY <1>2 DEF NoBeat, NoStatus, Next, Loop
<1>3. CASE StatusArrives \/ OtherStatus
    <2>1. \A play \in BOOLEAN : /\ [from |-> "master", play |-> play] \in StatusIn
                                /\ [from |-> "other", play |-> play] \in StatusIn
        BY DEF StatusIn
    <2>2. \E p \in StatusIn : RecvStatus(p)
        BY <1>3, <2>1 DEF StatusArrives, OtherStatus
    <2> QED
        BY <2>2 DEF Next, Loop
<1>4. CASE TurnGoesOn \/ \E dt \in 0..1 : TurnEnds(dt)
    BY <1>4 DEF TurnGoesOn, TurnEnds, Next, Loop, Housekeeping
<1>5. CASE PressPlay
    BY <1>5 DEF PressPlay
<1>6. CASE UiSets
    BY <1>6 DEF UiSets, LinkChanges, Setter, Next
<1>7. CASE UNCHANGED followVars
    BY <1>7 DEF followVars
<1> QED
    BY <1>1, <1>2, <1>3, <1>4, <1>5, <1>6, <1>7 DEF FollowNext

-----------------------------------------------------------------------------
\* The part of the type invariant that the proofs below use of the environment.
DeckTypeOK ==
    /\ deckPlays \in BOOLEAN
    /\ deckBeat \in 1..4 /\ slaveBeat \in 0..4
    /\ saidAge \in 0..Debounce

\* The deck and the slave stay on one of four beats, whatever each step does.
LEMMA DeckTypeNext == DeckTypeOK /\ [FollowNext]_followVars => DeckTypeOK'
<1> SUFFICES ASSUME DeckTypeOK, [FollowNext]_followVars PROVE DeckTypeOK'
    OBVIOUS
<1> USE BoundFacts DEF DeckTypeOK
<1>1. ASSUME NEW b \in 1..4, DeckBeats(b) PROVE DeckTypeOK'
    BY <1>1 DEF DeckBeats, SlaveHears, saidVars
<1>2. ASSUME UNCHANGED deckVars, UNCHANGED saidVars PROVE DeckTypeOK'
    BY <1>2 DEF deckVars, saidVars
<1>3. CASE StatusArrives
    BY <1>3 DEF StatusArrives, SlaveFollows
<1>4. CASE TurnGoesOn
    BY <1>4 DEF TurnGoesOn, SlaveFollows, histVars, saidVars
<1>5. ASSUME NEW dt \in 0..1, TurnEnds(dt) PROVE DeckTypeOK'
    <2>1. saidAge + dt \in Nat
        OBVIOUS
    <2>2. Cap(saidAge + dt, Debounce) \in 0..Debounce
        BY <2>1, CapType
    <2> QED
        BY <1>5, <2>2 DEF TurnEnds, SlaveFollows
<1>6. CASE PressPlay
    BY <1>6 DEF PressPlay, saidVars
<1>7. CASE UiSets
    BY <1>2, <1>7 DEF UiSets
<1> QED
    BY <1>1, <1>2, <1>3, <1>4, <1>5, <1>6, <1>7
    DEF FollowNext, BeatArrives, BeatLost, OtherBeats, NoBeat, OtherStatus, NoStatus,
        histVars, followVars

\* What the closed system keeps at all times: Transport's types and the deck's.
FollowTyped == TypeOK /\ DeckTypeOK

\* The closed system stays within those types.
LEMMA FollowTypeCorrect == FollowSpec => []FollowTyped
<1>1. FollowInit => FollowTyped
    <2>1. FollowInit => DeckTypeOK
        <3>1. FollowInit => deckPlays \in BOOLEAN
            BY DEF FollowInit
        <3>2. FollowInit => deckBeat = 4 /\ slaveBeat = 0 /\ saidAge = 0
            BY DEF FollowInit
        <3> QED
            BY <3>1, <3>2, BoundFacts DEF DeckTypeOK
    <2> QED
        BY <2>1, TypeInit DEF FollowInit, FollowTyped
<1>2. FollowTyped /\ [FollowNext]_followVars => FollowTyped'
    <2> SUFFICES ASSUME FollowTyped, [FollowNext]_followVars PROVE TypeOK' /\ DeckTypeOK'
        BY DEF FollowTyped
    <2>1. [Next]_vars
        BY FollowStep DEF FollowTyped, DeckTypeOK
    <2> QED
        BY <2>1, TypeNext, DeckTypeNext DEF FollowTyped
<1> QED
    BY <1>1, <1>2, PTL DEF FollowSpec

\* The closed system is a refinement of Transport: what is proved of the transport
\* under any input holds under these decks.
THEOREM FollowImplementsTransport == FollowSpec => Spec
<1>1. FollowInit => Init
    BY DEF FollowInit
<1>2. FollowTyped /\ [FollowNext]_followVars => [Next]_vars
    BY FollowStep DEF FollowTyped, DeckTypeOK
<1> QED
    BY <1>1, <1>2, FollowTypeCorrect, PTL DEF FollowSpec, Spec

-----------------------------------------------------------------------------
\* The clock is started and realigned on a downbeat, and nowhere else.
LEMMA StartsOnDownbeat ==
    ASSUME NEW p \in BeatIn, RecvBeat(p), out' \in {"start", "realign"}
    PROVE  p.beat = 1
BY DEF RecvBeat, HandleBeat, BeatStarts, BeatSteers

\* A slave in step stays in step when the deck reaches its next beat, heard or lost.
LEMMA BeatKeepsStep ==
    ASSUME DeckTypeOK, SlaveInStep, ~Jumps, NEW b \in 1..4, DeckBeats(b),
           out' \in {"start", "realign"} => b = 1
    PROVE  SlaveInStep'
<1>1. b = (deckBeat % 4) + 1 /\ deckBeat' = b
    BY DEF DeckBeats, NextBeat
<1>2. \/ slaveBeat' = 0
      \/ slaveBeat # 0 /\ slaveBeat' = (slaveBeat % 4) + 1
      \/ out' \in {"start", "realign"} /\ slaveBeat' = 1
    BY DEF DeckBeats, SlaveHears
<1> QED
    BY <1>1, <1>2 DEF SlaveInStep, DeckTypeOK

\* No step of the closed system brings the slave out of step.
LEMMA StepNext ==
    FollowTyped /\ SlaveInStep /\ ~Jumps /\ [FollowNext]_followVars => SlaveInStep'
<1> SUFFICES ASSUME FollowTyped, SlaveInStep, ~Jumps, [FollowNext]_followVars
             PROVE  SlaveInStep'
    OBVIOUS
<1>1. DeckTypeOK
    BY DEF FollowTyped
<1>2. ASSUME NEW b \in 1..4, BeatArrives(b) PROVE SlaveInStep'
    <2>1. [from |-> "master", beat |-> b] \in BeatIn
        BY DEF BeatIn
    <2>2. out' \in {"start", "realign"} => b = 1
        BY <1>2, <2>1, StartsOnDownbeat DEF BeatArrives
    <2> QED
        BY <1>1, <1>2, <2>2, BeatKeepsStep DEF BeatArrives
<1>3. ASSUME NEW b \in 1..4, BeatLost(b) PROVE SlaveInStep'
    <2>1. out' = "nothing"
        BY <1>3 DEF BeatLost, RecvBeatTimeout
    <2> QED
        BY <1>1, <1>3, <2>1, BeatKeepsStep DEF BeatLost
<1>4. ASSUME UNCHANGED deckBeat, slaveBeat' \in {0, slaveBeat} PROVE SlaveInStep'
    BY <1>4 DEF SlaveInStep
<1>5. CASE StatusArrives \/ TurnGoesOn \/ \E dt \in 0..1 : TurnEnds(dt)
    BY <1>4, <1>5 DEF StatusArrives, TurnGoesOn, TurnEnds, SlaveFollows
<1>6. CASE PressPlay
    BY <1>4, <1>6 DEF PressPlay
<1>7. CASE UNCHANGED deckVars
    BY <1>4, <1>7 DEF deckVars
<1> QED
    BY <1>2, <1>3, <1>5, <1>6, <1>7
    DEF FollowNext, OtherBeats, NoBeat, OtherStatus, NoStatus, UiSets, followVars

\* From a Start on the downbeat, the bar of a MIDI slave is the deck's bar, however
\* many beat and status packets are lost and whatever the UI sets, provided that the
\* DJ neither pauses the deck (the slave's bar is then unknown) nor makes it jump.
THEOREM SlaveStaysInStep ==
    ASSUME ~Jumps
    PROVE  FollowSpec => []SlaveInStep
<1>1. FollowInit => SlaveInStep
    BY DEF FollowInit, SlaveInStep
<1>2. FollowTyped /\ SlaveInStep /\ [FollowNext]_followVars => SlaveInStep'
    BY StepNext
<1> QED
    BY <1>1, <1>2, FollowTypeCorrect, PTL DEF FollowSpec

-----------------------------------------------------------------------------
\* The invariant behind the debounce: while a pause is pending (the bridge still
\* believes the deck plays), the last status did say "paused", and has been saying so
\* for at least the age the bridge measures.
PauseIsTimed ==
    lastPlaying /\ ~pendingPlay => said = "paused" /\ saidAge >= pendingAge

DebounceInv == PauseIsTimed /\ StopIsDebounced

\* A status keeps the measured age below the true one, and a stop it causes comes from
\* a pause that has lasted.
LEMMA DebounceStatus ==
    ASSUME FollowTyped, DebounceInv, StatusArrives
    PROVE  DebounceInv'
<1> DEFINE p == [from |-> "master", play |-> deckPlays]
<1>1. /\ pendingPlay' = deckPlays
      /\ pendingAge' = IF deckPlays # pendingPlay THEN 0 ELSE pendingAge
      /\ lastPlaying' = IF Commits(p) THEN deckPlays ELSE lastPlaying
      /\ out' = "stopPaused" => Commits(p) /\ ~deckPlays
    BY DEF StatusArrives, RecvStatus, HandleStatus, StopClock
<1>2. /\ said' = IF deckPlays THEN "plays" ELSE "paused"
      /\ saidAge' = IF said' = said THEN saidAge ELSE 0
      /\ settled' = (saidAge' >= Debounce)
    BY DEF StatusArrives
<1>3. deckPlays \in BOOLEAN /\ lastPlaying \in BOOLEAN /\ pendingPlay \in BOOLEAN
      /\ saidAge \in 0..Debounce /\ pendingAge \in 0..Debounce
    BY DEF FollowTyped, DeckTypeOK, TypeOK
<1>4. CASE deckPlays
    BY <1>1, <1>3, <1>4 DEF DebounceInv, PauseIsTimed, StopIsDebounced
<1>5. CASE ~deckPlays
    <2>1. said' = "paused"
        BY <1>2, <1>5
    <2>2. saidAge' \in 0..Debounce /\ pendingAge' \in 0..Debounce /\ Debounce \in Nat
        BY <1>1, <1>2, <1>3, BoundFacts
    <2>3. lastPlaying => saidAge' >= pendingAge'
        <3>1. CASE pendingPlay
            <4>1. pendingAge' = 0
                BY <1>1, <1>5, <3>1
            <4> QED
                BY <2>2, <4>1
        <3>2. CASE ~pendingPlay
            BY <1>1, <1>2, <1>3, <1>5, <2>1, <3>2 DEF DebounceInv, PauseIsTimed
        <3> QED
            BY <3>1, <3>2
    <2>4. lastPlaying' => lastPlaying
        BY <1>1, <1>3, <1>5
    <2>5. Commits(p) => lastPlaying /\ pendingAge' >= Debounce
        BY <1>3, <1>5 DEF Commits
    <2>6. out' = "stopPaused" => saidAge' >= Debounce
        BY <1>1, <2>2, <2>3, <2>5
    <2>7. out' = "stopPaused" => settled'
        BY <1>2, <2>6
    <2> QED
        BY <2>1, <2>3, <2>4, <2>7 DEF DebounceInv, PauseIsTimed, StopIsDebounced
<1> QED
    BY <1>3, <1>4, <1>5

\* Time passes for both ages alike, and a master that falls silent while it plays was
\* not pausing.
LEMMA DebounceTime ==
    ASSUME FollowTyped, DebounceInv, NEW dt \in 0..1, TurnEnds(dt)
    PROVE  DebounceInv'
<1>1. UNCHANGED <<lastPlaying, pendingPlay>> /\ out' # "stopPaused"
      /\ pendingAge' = Cap(pendingAge + dt, Debounce)
    BY DEF TurnEnds, ColdStart
<1>2. said = "paused" => said' = "paused" /\ saidAge' = Cap(saidAge + dt, Debounce)
    BY DEF TurnEnds
<1>3. saidAge \in 0..Debounce /\ pendingAge \in 0..Debounce /\ Debounce \in Nat
    BY BoundFacts DEF FollowTyped, DeckTypeOK, TypeOK
<1>4. saidAge >= pendingAge => Cap(saidAge + dt, Debounce) >= Cap(pendingAge + dt, Debounce)
    BY <1>3 DEF Cap
<1>5. PauseIsTimed'
    BY <1>1, <1>2, <1>4 DEF DebounceInv, PauseIsTimed
<1> QED
    BY <1>1, <1>5 DEF DebounceInv, StopIsDebounced

\* Every step of the closed system keeps the debounce invariant.
LEMMA DebounceNext ==
    FollowTyped /\ DebounceInv /\ [FollowNext]_followVars => DebounceInv'
<1> SUFFICES ASSUME FollowTyped, DebounceInv, [FollowNext]_followVars
             PROVE  DebounceInv'
    OBVIOUS
<1>1. ASSUME UNCHANGED playFlags, UNCHANGED saidVars, out' \in {out, "nothing"} \/
             out' \in {"start", "realign", "resync", "feed"}
      PROVE  DebounceInv'
    BY <1>1 DEF DebounceInv, PauseIsTimed, StopIsDebounced, playFlags, saidVars
<1>2. ASSUME NEW p \in BeatIn, RecvBeat(p), UNCHANGED saidVars PROVE DebounceInv'
    <2>1. UNCHANGED playFlags
        BY <1>2 DEF RecvBeat, HandleBeat
    <2>2. out' \in {"nothing", "start", "realign", "feed"}
        BY <1>2 DEF RecvBeat, HandleBeat, BeatStarts, BeatSteers
    <2> QED
        BY <1>1, <1>2, <2>1, <2>2
<1>3. ASSUME NEW b \in 1..4, BeatArrives(b) \/ OtherBeats(b) PROVE DebounceInv'
    <2>1. /\ [from |-> "master", beat |-> b] \in BeatIn
          /\ [from |-> "other", beat |-> b] \in BeatIn
        BY DEF BeatIn
    <2> QED
        BY <1>2, <1>3, <2>1 DEF BeatArrives, OtherBeats, DeckBeats, histVars, saidVars
<1>4. CASE RecvBeatTimeout /\ UNCHANGED saidVars
    BY <1>1, <1>4 DEF RecvBeatTimeout
<1>5. CASE NoStatus
    BY <1>1, <1>5 DEF NoStatus, RecvStatusTimeout, histVars
<1>6. CASE OtherStatus
    <2>1. PICK play \in BOOLEAN : RecvStatus([from |-> "other", play |-> play])
        BY <1>6 DEF OtherStatus
    <2> QED
        BY <1>1, <1>6, <2>1 DEF OtherStatus, RecvStatus, HandleStatus, histVars
<1>7. CASE TurnGoesOn
    <2>1. UNCHANGED saidVars
        BY <1>7 DEF TurnGoesOn, histVars
    <2>2. CASE SilenceTimeout
        <3>1. CASE SilenceExpired /\ ~keep
            BY <2>1, <2>2, <3>1
            DEF SilenceTimeout, StopClock, DebounceInv, PauseIsTimed, StopIsDebounced
        <3>2. CASE ~(SilenceExpired /\ ~keep)
            BY <1>1, <2>1, <2>2, <3>2 DEF SilenceTimeout, playFlags
        <3> QED
            BY <3>1, <3>2
    <2>3. CASE SilenceEdge
        BY <1>1, <2>1, <2>3 DEF SilenceEdge
    <2>4. CASE Hold
        BY <1>1, <2>1, <2>4 DEF Hold
    <2>5. CASE MaybeResync
        BY <1>1, <2>1, <2>5 DEF MaybeResync
    <2> QED
        BY <1>7, <2>2, <2>3, <2>4, <2>5 DEF TurnGoesOn
<1>8. CASE PressPlay
    BY <1>1, <1>8 DEF PressPlay, vars
<1>9. CASE UiSets
    BY <1>1, <1>9 DEF UiSets, NotSetter
<1>10. CASE UNCHANGED followVars
    BY <1>1, <1>10 DEF followVars, vars, histVars
<1> QED
    BY <1>3, <1>4, <1>5, <1>6, <1>7, <1>8, <1>9, <1>10, DebounceStatus, DebounceTime
    DEF FollowNext, BeatLost, NoBeat, DeckBeats, histVars, saidVars

\* A pause stops the clock only when the deck's statuses have said "paused" for the
\* whole debounce time: no flicker of the play flag, no loss and no setter of the UI
\* thread can make the bridge send a MIDI Stop earlier.
THEOREM StopsDebounced == FollowSpec => []StopIsDebounced
<1>1. FollowInit => DebounceInv
    BY DEF FollowInit, Init, DebounceInv, PauseIsTimed, StopIsDebounced
<1>2. DebounceInv => StopIsDebounced
    BY DEF DebounceInv
<1> QED
    BY <1>1, <1>2, DebounceNext, FollowTypeCorrect, PTL DEF FollowSpec

-----------------------------------------------------------------------------
\* The types of the histories, and the ages that the proofs below compare.
HistTypeOK ==
    /\ clean \in 0..Steady /\ misses \in 0..SlipThreshold
    /\ said \in {"plays", "paused", "nothing"} /\ settled \in BOOLEAN
    /\ masterAge \in 0..MaxPacketAge /\ upAge \in 0..Silence

\* The bounds of the histories are numbers, and they start within them.
LEMMA HistBounds ==
    /\ Steady \in Nat /\ SlipThreshold \in Nat /\ MaxPacketAge \in Nat /\ Silence \in Nat
    /\ 0 \in 0..Steady /\ 0 \in 0..SlipThreshold /\ 0 \in 0..MaxPacketAge
    /\ 0 \in 0..Silence /\ Silence \in 0..Silence
BY DeckAssumption, TransportAssumption, BoundFacts

\* One more, capped, stays in its range.
LEMMA CapNext ==
    ASSUME NEW max \in Nat, NEW n \in 0..max, NEW dt \in 0..1
    PROVE  Cap(n + dt, max) \in 0..max
<1>1. n + dt \in Nat
    OBVIOUS
<1> QED BY <1>1, CapType

\* The histories stay in their ranges, whatever each step does.
LEMMA HistTypeNext ==
    FollowTyped /\ HistTypeOK /\ [FollowNext]_followVars => HistTypeOK'
<1> SUFFICES ASSUME FollowTyped, HistTypeOK, [FollowNext]_followVars PROVE HistTypeOK'
    OBVIOUS
<1> USE HistBounds DEF HistTypeOK
<1>0. /\ Cap(clean + 1, Steady) \in 0..Steady
      /\ Cap(misses + 1, SlipThreshold) \in 0..SlipThreshold
  <2>1. clean + 1 \in Nat /\ misses + 1 \in Nat
      OBVIOUS
  <2> QED BY <2>1, CapType
<1>1. ASSUME NEW b \in 1..4, BeatArrives(b) PROVE HistTypeOK'
  <2>1. /\ UNCHANGED <<said, saidAge, settled, upAge>> /\ masterAge' = 0
        /\ clean' \in {Cap(clean + 1, Steady), 0}
        /\ misses' \in {0, Cap(misses + 1, SlipThreshold), misses}
      BY <1>1 DEF BeatArrives, DeckBeats, saidVars
  <2>2. clean' \in 0..Steady /\ misses' \in 0..SlipThreshold
      BY <1>0, <2>1
  <2> QED BY <2>1, <2>2
<1>2. ASSUME NEW b \in 1..4, BeatLost(b) PROVE HistTypeOK'
  <2>1. /\ UNCHANGED <<said, saidAge, settled, upAge, masterAge>>
        /\ clean' = 0 /\ misses' = Cap(misses + 1, SlipThreshold)
      BY <1>2 DEF BeatLost, DeckBeats, saidVars
  <2> QED BY <1>0, <2>1
<1>3. CASE UNCHANGED histVars
    BY <1>3 DEF histVars, saidVars
<1>4. CASE StatusArrives
  <2>1. /\ UNCHANGED <<clean, misses, upAge>> /\ masterAge' = 0
        /\ said' = IF deckPlays THEN "plays" ELSE "paused"
        /\ saidAge' = IF said' = said THEN saidAge ELSE 0
        /\ settled' = (saidAge' >= Debounce)
      BY <1>4 DEF StatusArrives
  <2>2. said' \in {"plays", "paused", "nothing"}
      BY <2>1
  <2>3. settled' \in BOOLEAN
    <3>1. (saidAge' >= Debounce) \in BOOLEAN
        OBVIOUS
    <3> QED BY <2>1, <3>1, Zenon
  <2> QED BY <2>1, <2>2, <2>3
<1>5. ASSUME NEW dt \in 0..1, TurnEnds(dt) PROVE HistTypeOK'
  <2>1. /\ Cap(masterAge + dt, MaxPacketAge) \in 0..MaxPacketAge
        /\ Cap(upAge + dt, Silence) \in 0..Silence
      BY CapNext
  <2> QED BY <1>5, <2>1 DEF TurnEnds
<1>6. CASE PressPlay
    BY <1>6 DEF PressPlay, saidVars
<1>7. CASE UiSets
    BY <1>7 DEF UiSets, saidVars
<1> QED
    BY <1>1, <1>2, <1>3, <1>4, <1>5, <1>6, <1>7
    DEF FollowNext, OtherBeats, NoBeat, OtherStatus, NoStatus, TurnGoesOn, followVars

\* The transport, its decks, the slave and the histories keep their types: no count of
\* clean or missed beats and no age leaves its bound.
THEOREM FollowTypes == FollowSpec => []FollowTypeOK
<1>1. FollowInit => HistTypeOK
    BY HistBounds DEF FollowInit, HistTypeOK
<1>2. FollowTyped /\ HistTypeOK => FollowTypeOK
    BY DEF FollowTyped, DeckTypeOK, HistTypeOK, FollowTypeOK
<1> QED
    BY <1>1, <1>2, HistTypeNext, FollowTypeCorrect, PTL DEF FollowSpec

-----------------------------------------------------------------------------
\* The invariant behind the slip detector.  It counts a disagreement only when beats
\* have been missed since it last heard one, and so never more than have been missed:
\* after beats heard in a row it is on the deck's beat, and off it, one more has been
\* missed than it has counted.
SlipInv ==
    /\ expected = 0 => slipCount = 0
    /\ clean > 0 => expected \in {0, deckBeat}
    /\ slipCount <= misses
    /\ expected \notin {0, deckBeat} => slipCount < misses \/ misses = SlipThreshold
    /\ SlipNeedsLosses

\* What the detector may rely on.
SlipTyped == FollowTypeOK /\ StoppedIsClean

\* The types the slip proofs compare, and what a capped count is.
LEMMA SlipTypes ==
    ASSUME SlipTyped
    PROVE  /\ expected \in 0..4 /\ deckBeat \in 1..4 /\ slipPending \in BOOLEAN
           /\ slipCount \in 0..SlipThreshold /\ misses \in 0..SlipThreshold
           /\ clean \in 0..Steady /\ playing \in BOOLEAN /\ ignore \in BOOLEAN
           /\ SlipThreshold \in Nat /\ SlipThreshold > 0 /\ Steady \in Nat
           /\ Cap(misses + 1, SlipThreshold) \in 0..SlipThreshold
           /\ Cap(misses + 1, SlipThreshold) =
                  IF misses = SlipThreshold THEN misses ELSE misses + 1
           /\ Cap(slipCount + 1, SlipThreshold) =
                  IF slipCount = SlipThreshold THEN slipCount ELSE slipCount + 1
BY TransportAssumption, DeckAssumption DEF SlipTyped, FollowTypeOK, TypeOK, Cap

\* A running clock hears a beat of the deck.
LEMMA SlipSteers ==
    ASSUME SlipTyped, SlipInv, NEW b \in 1..4, BeatArrives(b), playing, ~ignore
    PROVE  SlipInv'
<1> DEFINE p == [from |-> "master", beat |-> b]
<1>1. BeatSteers(p) /\ deckBeat' = b
    BY DEF BeatArrives, RecvBeat, HandleBeat, BeatStarts, DeckBeats
<1>2. expected' = b
    BY <1>1 DEF BeatSteers
<1>3. /\ slipPending' => slipPending \/ SlipAfter(p) >= SlipThreshold
      /\ \/ out' = "realign" /\ slipCount' = 0 /\ ~slipPending'
         \/ out' = "feed" /\ slipCount' = SlipAfter(p)
            /\ slipPending' = (slipPending \/ SlipAfter(p) >= SlipThreshold)
    BY <1>1, SlipTypes DEF BeatSteers
<1>4. misses' = IF out' = "realign" THEN 0
                ELSE IF b # NextBeat THEN Cap(misses + 1, SlipThreshold)
                ELSE IF clean > 0 /\ ~slipPending THEN 0
                ELSE misses
    BY DEF BeatArrives
<1>5. NextBeat = (deckBeat % 4) + 1
    BY DEF NextBeat
<1>6. CASE out' = "realign"
    BY <1>1, <1>2, <1>3, <1>4, <1>6, SlipTypes DEF SlipInv, SlipNeedsLosses
<1>7. CASE out' = "feed"
  <2>1. slipCount' = SlipAfter(p)
        /\ slipPending' = (slipPending \/ SlipAfter(p) >= SlipThreshold)
      BY <1>3, <1>7
  <2>2. SlipAfter(p) = IF expected = 0 THEN slipCount
                       ELSE IF b = (expected % 4) + 1 THEN 0
                       ELSE Cap(slipCount + 1, SlipThreshold)
      BY DEF SlipAfter
  <2>3. SlipAfter(p) <= misses' /\ (SlipAfter(p) >= SlipThreshold => misses' = SlipThreshold)
    <3>1. CASE b # NextBeat
        BY <1>4, <1>7, <2>2, <3>1, SlipTypes DEF SlipInv
    <3>2. CASE b = NextBeat /\ expected \in {0, deckBeat}
      <4>1. SlipAfter(p) = 0
          BY <1>5, <2>2, <3>2, SlipTypes DEF SlipInv
      <4>2. misses' \in 0..SlipThreshold
          BY <1>4, <1>7, SlipTypes
      <4> QED BY <4>1, <4>2, SlipTypes
    <3>3. CASE b = NextBeat /\ expected \notin {0, deckBeat}
      <4>1. clean = 0
          BY <3>3, SlipTypes DEF SlipInv
      <4>2. misses' = misses
          BY <1>4, <1>7, <3>3, <4>1
      <4>3. slipCount < misses \/ misses = SlipThreshold
          BY <3>3 DEF SlipInv
      <4> QED BY <2>2, <4>2, <4>3, SlipTypes
    <3> QED BY <3>1, <3>2, <3>3
  <2>4. slipPending => misses' = SlipThreshold
      BY <1>4, <1>7, SlipTypes DEF SlipInv, SlipNeedsLosses
  <2> QED BY <1>1, <1>2, <2>1, <2>3, <2>4, SlipTypes DEF SlipInv, SlipNeedsLosses
<1> QED BY <1>3, <1>6, <1>7

\* A clock that stands, or a box that ignores the decks, hears it.
LEMMA SlipHears ==
    ASSUME SlipTyped, SlipInv, NEW b \in 1..4, BeatArrives(b), ~playing \/ ignore
    PROVE  SlipInv'
<1> DEFINE p == [from |-> "master", beat |-> b]
<1>1. deckBeat' = b
    BY DEF BeatArrives, DeckBeats
<1>2. CASE ignore
  <2>1. UNCHANGED slipVars /\ out' = "nothing"
      BY <1>2 DEF BeatArrives, RecvBeat, HandleBeat
  <2>2. clean' = 0 /\ misses' = Cap(misses + 1, SlipThreshold)
      BY <1>2, <2>1 DEF BeatArrives
  <2> QED BY <2>1, <2>2, SlipTypes DEF SlipInv, SlipNeedsLosses, slipVars
<1>3. CASE ~playing /\ ~ignore
  <2>1. expected = 0 /\ slipCount = 0 /\ ~slipPending
      BY <1>3 DEF SlipTyped, StoppedIsClean
  <2>2. BeatStarts(p)
      BY <1>3 DEF BeatArrives, RecvBeat, HandleBeat, BeatSteers
  <2>3. expected' \in {0, b} /\ slipCount' = 0 /\ ~slipPending'
      BY <2>1, <2>2 DEF BeatStarts, ResetSlip, slipVars
  <2>4. misses' \in 0..SlipThreshold
      BY SlipTypes DEF BeatArrives
  <2> QED BY <1>1, <2>3, <2>4, SlipTypes DEF SlipInv, SlipNeedsLosses
<1> QED BY <1>2, <1>3

\* Away from the beats the detector is left alone, or reset with the clock, or by a hold.
LEMMA SlipElsewhere ==
    ASSUME SlipTyped, SlipInv, UNCHANGED <<deckBeat, misses>>, clean' \in {clean, 0},
           \/ UNCHANGED slipVars
           \/ expected' = 0 /\ slipCount' = 0 /\ (slipPending' => slipPending)
    PROVE  SlipInv'
BY SlipTypes DEF SlipInv, SlipNeedsLosses, slipVars

\* No step schedules a realignment before the threshold has been missed.
LEMMA SlipNext == SlipTyped /\ SlipInv /\ [FollowNext]_followVars => SlipInv'
<1> SUFFICES ASSUME SlipTyped, SlipInv, [FollowNext]_followVars PROVE SlipInv'
    OBVIOUS
<1>1. ASSUME NEW b \in 1..4, BeatArrives(b) PROVE SlipInv'
    BY <1>1, SlipSteers, SlipHears
<1>2. ASSUME NEW b \in 1..4, BeatLost(b) PROVE SlipInv'
  <2>1. UNCHANGED slipVars /\ clean' = 0 /\ misses' = Cap(misses + 1, SlipThreshold)
      BY <1>2 DEF BeatLost, RecvBeatTimeout
  <2> QED BY <2>1, SlipTypes DEF SlipInv, SlipNeedsLosses, slipVars
<1>3. CASE UNCHANGED <<deckBeat, misses, clean>> /\ UNCHANGED slipVars
    BY <1>3, SlipElsewhere
<1>4. ASSUME NEW b \in 1..4, OtherBeats(b) PROVE SlipInv'
  <2>1. UNCHANGED slipVars
      BY <1>4 DEF OtherBeats, RecvBeat, HandleBeat
  <2> QED BY <1>3, <1>4, <2>1 DEF OtherBeats, deckVars, histVars
<1>5. ASSUME NEW p \in StatusIn, RecvStatus(p)
      PROVE  \/ UNCHANGED slipVars
             \/ expected' = 0 /\ slipCount' = 0 /\ (slipPending' => slipPending)
    BY <1>5 DEF RecvStatus, HandleStatus, StopClock, ResetSlip, slipVars
<1>6. CASE StatusArrives
  <2>1. [from |-> "master", play |-> deckPlays] \in StatusIn
      BY DEF StatusIn, SlipTyped, FollowTypeOK
  <2> QED BY <1>5, <1>6, <2>1, SlipElsewhere DEF StatusArrives
<1>7. CASE OtherStatus
  <2>1. PICK play \in BOOLEAN : RecvStatus([from |-> "other", play |-> play])
      BY <1>7 DEF OtherStatus
  <2>2. UNCHANGED slipVars
      BY <2>1 DEF RecvStatus, HandleStatus
  <2> QED BY <1>3, <1>7, <2>2 DEF OtherStatus, deckVars, histVars
<1>8. CASE TurnGoesOn
  <2>1. \/ UNCHANGED slipVars
        \/ expected' = 0 /\ slipCount' = 0 /\ (slipPending' => slipPending)
      BY <1>8 DEF TurnGoesOn, SilenceEdge, SilenceTimeout, StopClock, ResetSlip, Hold,
                  MaybeResync, slipVars
  <2> QED BY <1>8, <2>1, SlipElsewhere DEF TurnGoesOn, histVars
<1>9. ASSUME NEW dt \in 0..1, TurnEnds(dt) PROVE SlipInv'
    BY <1>3, <1>9 DEF TurnEnds, ColdStart
<1>10. CASE PressPlay
    BY <1>10, SlipElsewhere DEF PressPlay, vars
<1>11. CASE UiSets
    BY <1>3, <1>11 DEF UiSets, NotSetter, deckVars
<1>12. CASE NoBeat \/ NoStatus \/ UNCHANGED followVars
    BY <1>3, <1>12
    DEF NoBeat, NoStatus, RecvBeatTimeout, RecvStatusTimeout, followVars, vars, deckVars,
        histVars
<1> QED
    BY <1>1, <1>2, <1>4, <1>6, <1>7, <1>8, <1>9, <1>10, <1>11, <1>12 DEF FollowNext

\* Whatever the deck, the link and the setters do, also when the DJ makes the deck jump,
\* a realignment is scheduled only once the whole threshold of beats has been missed
\* since two were heard in a row.
THEOREM RealignNeedsLosses == FollowSpec => []SlipNeedsLosses
<1>1. FollowInit => SlipInv
    BY BoundFacts DEF FollowInit, Init, SlipInv, SlipNeedsLosses
<1>2. Spec => []StoppedIsClean
    BY CleanAfterStop
<1>3. FollowTypeOK /\ StoppedIsClean => SlipTyped
    BY DEF SlipTyped
<1>4. SlipInv => SlipNeedsLosses
    BY DEF SlipInv
<1> QED
    BY <1>1, <1>2, <1>3, <1>4, SlipNext, FollowTypes, FollowImplementsTransport, PTL
    DEF FollowSpec

-----------------------------------------------------------------------------
\* The invariant behind the two windows of a silence stop.  What the bridge measures
\* is never more than the master's silence, because every packet resets it.  While the
\* link is up, and has been noticed to be, it is no more than the time since it came
\* up, because noticing resets it.  And a link that went down after such a stop comes
\* up only once the loss has been noticed.
WindowInv ==
    /\ packetAge <= masterAge
    /\ linkUp /\ lastLinkUp => upAge >= packetAge \/ upAge = Silence
    /\ pc = "timeout" => linkUp = lastLinkUp
    /\ out = "stopSilent" => \/ masterAge >= Grace
                             \/ masterAge >= Silence /\ upAge >= Silence /\ lastLinkUp

\* The ages the window proofs compare, and how their bounds compare.
LEMMA WindowTypes ==
    ASSUME FollowTypeOK
    PROVE  /\ packetAge \in 0..MaxPacketAge /\ masterAge \in 0..MaxPacketAge
           /\ upAge \in 0..Silence /\ linkUp \in BOOLEAN /\ lastLinkUp \in BOOLEAN
           /\ Silence \in Nat /\ Grace \in Nat /\ MaxPacketAge \in Nat
           /\ Silence <= MaxPacketAge /\ Grace <= MaxPacketAge
BY TransportAssumption DEF FollowTypeOK, TypeOK, MaxPacketAge

\* A packet of any deck.
LEMMA WindowPacket ==
    ASSUME FollowTypeOK, WindowInv, packetAge' = 0, masterAge' \in {masterAge, 0},
           UNCHANGED <<linkUp, lastLinkUp, upAge>>, pc' # "timeout", out' # "stopSilent"
    PROVE  WindowInv'
BY WindowTypes DEF WindowInv

\* A phase that hears nothing.
LEMMA WindowQuiet ==
    ASSUME FollowTypeOK, WindowInv, UNCHANGED <<packetAge, masterAge, linkUp, lastLinkUp, upAge>>,
           pc' # "timeout" \/ pc' = pc, out' # "stopSilent" \/ out' = out
    PROVE  WindowInv'
BY WindowTypes DEF WindowInv

\* The silence check.
LEMMA WindowSilence ==
    ASSUME FollowTypeOK, WindowInv, SilenceTimeout, UNCHANGED <<masterAge, upAge>>
    PROVE  WindowInv'
<1>1. UNCHANGED <<packetAge, linkUp, lastLinkUp>> /\ pc' # "timeout"
    BY DEF SilenceTimeout, ages, uiFlags
<1>2. linkUp = lastLinkUp
    BY DEF SilenceTimeout, WindowInv
<1>3. out' = "stopSilent" => packetAge >= (IF linkUp THEN Silence ELSE Grace)
    BY DEF SilenceTimeout, SilenceExpired
<1>4. CASE linkUp
    BY <1>1, <1>2, <1>3, <1>4, WindowTypes DEF WindowInv
<1>5. CASE ~linkUp
    BY <1>1, <1>2, <1>3, <1>5, WindowTypes DEF WindowInv
<1> QED BY <1>4, <1>5

\* The notice of the link.
LEMMA WindowEdge ==
    ASSUME FollowTypeOK, WindowInv, SilenceEdge, UNCHANGED <<masterAge, upAge>>
    PROVE  WindowInv'
<1>1. /\ packetAge' = IF linkUp /\ ~lastLinkUp THEN 0 ELSE packetAge
      /\ linkUp' = linkUp /\ lastLinkUp' = linkUp /\ out' = "nothing"
    BY DEF SilenceEdge, uiFlags
<1> QED BY <1>1, WindowTypes DEF WindowInv

\* Time passes for all three alike.
LEMMA WindowTime ==
    ASSUME FollowTypeOK, WindowInv, NEW dt \in 0..1, TurnEnds(dt)
    PROVE  WindowInv'
<1>1. /\ packetAge' = Cap(packetAge + dt, MaxPacketAge)
      /\ masterAge' = Cap(masterAge + dt, MaxPacketAge)
      /\ upAge' = Cap(upAge + dt, Silence)
      /\ UNCHANGED <<linkUp, lastLinkUp>> /\ pc' = "beat" /\ out' # "stopSilent"
    BY DEF TurnEnds, ColdStart, uiFlags
<1> QED BY <1>1, WindowTypes DEF WindowInv, Cap

\* The setters, of which one moves the link.
LEMMA WindowUi ==
    ASSUME FollowTypeOK, WindowInv, "linkRace" \notin UiOps, UiSets
    PROVE  WindowInv'
<1>1. UNCHANGED <<packetAge, masterAge, lastLinkUp, pc, out>>
    BY DEF UiSets, NotSetter, ages
<1>2. upAge' = IF linkUp' /\ ~linkUp THEN 0 ELSE upAge
    BY DEF UiSets
<1>3. linkUp' = linkUp \/ (linkUp = lastLinkUp /\ pc # "timeout" /\ linkUp' \in BOOLEAN)
    BY DEF UiSets, LinkChanges, SetLinkUp, SetKeepPlaying, SetIgnoreMaster, RequestResync,
           SetManualBpm, SetFreeRun, EnterRole, uiFlags
<1> QED BY <1>1, <1>2, <1>3, WindowTypes DEF WindowInv

\* No step stops the clock for silence too early.
LEMMA WindowNext ==
    ASSUME "linkRace" \notin UiOps
    PROVE  FollowTypeOK /\ WindowInv /\ [FollowNext]_followVars => WindowInv'
<1> SUFFICES ASSUME FollowTypeOK, WindowInv, [FollowNext]_followVars PROVE WindowInv'
    OBVIOUS
<1>1. ASSUME NEW b \in 1..4, BeatArrives(b) \/ OtherBeats(b) PROVE WindowInv'
  <2>1. PICK p \in BeatIn : RecvBeat(p)
      BY <1>1 DEF BeatArrives, OtherBeats, BeatIn
  <2>2. packetAge' = 0 /\ UNCHANGED <<linkUp, lastLinkUp>> /\ pc' = "status"
        /\ out' # "stopSilent"
      BY <2>1 DEF RecvBeat, HandleBeat, BeatStarts, BeatSteers
  <2>3. masterAge' \in {masterAge, 0} /\ UNCHANGED upAge
      BY <1>1 DEF BeatArrives, OtherBeats, DeckBeats, histVars
  <2> QED BY <2>2, <2>3, WindowPacket
<1>2. CASE StatusArrives \/ OtherStatus
  <2>1. PICK p \in StatusIn : RecvStatus(p)
      BY <1>2 DEF StatusArrives, OtherStatus, StatusIn, FollowTypeOK
  <2>2. packetAge' = 0 /\ UNCHANGED <<linkUp, lastLinkUp>> /\ pc' # "timeout"
        /\ out' # "stopSilent"
      BY <2>1 DEF RecvStatus, HandleStatus, StopClock, uiFlags
  <2>3. masterAge' \in {masterAge, 0} /\ UNCHANGED upAge
      BY <1>2 DEF StatusArrives, OtherStatus, histVars
  <2> QED BY <2>2, <2>3, WindowPacket
<1>3. CASE RecvBeatTimeout /\ UNCHANGED <<masterAge, upAge>>
    BY <1>3, WindowQuiet DEF RecvBeatTimeout, ages, uiFlags
<1>4. CASE NoStatus
    BY <1>4, WindowQuiet DEF NoStatus, RecvStatusTimeout, ages, uiFlags, histVars
<1>5. CASE TurnGoesOn
  <2>1. UNCHANGED <<masterAge, upAge>>
      BY <1>5 DEF TurnGoesOn, histVars
  <2>2. CASE Hold \/ MaybeResync
      BY <2>1, <2>2, WindowQuiet DEF Hold, MaybeResync, ages, uiFlags
  <2> QED BY <1>5, <2>1, <2>2, WindowSilence, WindowEdge DEF TurnGoesOn
<1>6. CASE PressPlay \/ UNCHANGED followVars
    BY <1>6, WindowQuiet DEF PressPlay, followVars, histVars, vars, ages, uiFlags
<1> QED
    BY <1>1, <1>2, <1>3, <1>4, <1>5, <1>6, WindowTime, WindowUi
    DEF FollowNext, BeatLost, NoBeat, DeckBeats, histVars

\* For any packets lost, of any deck, and any changes of the link but one between the
\* two reads of it, a silence stops the clock only after a whole grace without the
\* master, or a whole window of it since the link came back.
THEOREM SilenceStopsLate ==
    ASSUME "linkRace" \notin UiOps
    PROVE  FollowSpec => []RecoveryWindow
<1>1. FollowInit => WindowInv
    BY TransportAssumption DEF FollowInit, Init, WindowInv
<1>2. WindowInv => RecoveryWindow
    BY DEF WindowInv, RecoveryWindow
<1>3. FollowTypeOK /\ WindowInv /\ [FollowNext]_followVars => WindowInv'
    BY WindowNext
<1> QED
    BY <1>1, <1>2, <1>3, FollowTypes, PTL DEF FollowSpec
=============================================================================
