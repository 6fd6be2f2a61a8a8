----------------------------- MODULE DeckFollow -----------------------------
(***************************************************************************)
(* The transport closed with what it follows: the tracked master deck, the *)
(* packets it sends while it plays or is paused, the losses of the link,   *)
(* another deck on the same link, and a MIDI slave that counts beats from  *)
(* the last MIDI Start.                                                    *)
(*                                                                         *)
(* The decks are external: a deck sends a beat packet on each beat while   *)
(* it plays, and status packets with its play flag at all times (the       *)
(* packets bridge.cpp parses).  While the link is down nothing arrives.    *)
(***************************************************************************)
EXTENDS Transport

CONSTANTS UiOps,       \* the setters used: "keep", "link", "linkRace", "ignore",
                       \* "manual", "free", "role", "deferred" and "immediate" (taps)
          OtherDeck,   \* another deck sends packets
          Jumps,       \* the DJ makes the deck jump within the bar
          Steady       \* clean beats after which the bar is settled (bound of the model)

ASSUME DeckAssumption ==
    /\ UiOps \subseteq {"keep", "link", "linkRace", "ignore", "manual", "free",
                   "role", "deferred", "immediate"}
    /\ OtherDeck \in BOOLEAN /\ Jumps \in BOOLEAN
    /\ Steady \in Nat

VARIABLES
    deckPlays,   \* the master deck plays
    deckBeat,    \* the beat of the bar it reached last
    slaveBeat,   \* the beat of the bar the slave reached last, 0 if nobody can say
    clean,       \* beats in a row that followed one another and arrived, up to Steady
    misses,      \* beats lost, jumped or ignored since two were heard in a row, up to
                 \* SlipThreshold
    said,        \* what the last status of the master said: "plays", "paused", or
                 \* "nothing" if it said so before a silence
    saidAge,     \* time since the first status that said so, up to Debounce
    settled,     \* a status that said so came Debounce or more after the first
    masterAge,   \* time since the master sent anything, up to MaxPacketAge
    upAge        \* time since the link came up, up to Silence

deckVars == <<deckPlays, deckBeat, slaveBeat>>
saidVars == <<said, saidAge, settled>>
histVars == <<clean, misses, saidVars, masterAge, upAge>>
followVars == <<vars, deckVars, histVars>>

FollowInit ==
    /\ Init
    /\ deckPlays = FALSE /\ deckBeat = 4 /\ slaveBeat = 0
    /\ clean = 0 /\ misses = 0
    /\ said = "nothing" /\ saidAge = 0 /\ settled = FALSE
    /\ masterAge = 0 /\ upAge = Silence

-----------------------------------------------------------------------------
\* The deck reaches beat b, and so does a slave whose clock runs at its tempo; a
\* start or a realignment puts the slave on beat 1.
NextBeat == (deckBeat % 4) + 1

SlaveHears ==
    slaveBeat' = IF ~playing' THEN 0
                 ELSE IF out' \in {"start", "realign"} THEN 1
                 ELSE IF slaveBeat = 0 \/ ignore \/ manual THEN 0
                 ELSE (slaveBeat % 4) + 1

DeckBeats(b) ==
    /\ deckPlays
    /\ b = NextBeat \/ Jumps
    /\ deckBeat' = b
    /\ SlaveHears
    /\ UNCHANGED <<deckPlays, saidVars, upAge>>

BeatArrives(b) ==
    /\ linkUp
    /\ RecvBeat([from |-> "master", beat |-> b])
    /\ DeckBeats(b)
    /\ clean' = IF b = NextBeat /\ ~ignore THEN Cap(clean + 1, Steady) ELSE 0
    /\ misses' = IF out' = "realign" THEN 0
                 ELSE IF b # NextBeat \/ ignore THEN Cap(misses + 1, SlipThreshold)
                 ELSE IF clean > 0 /\ ~slipPending THEN 0
                 ELSE misses
    /\ masterAge' = 0

BeatLost(b) ==
    /\ RecvBeatTimeout
    /\ DeckBeats(b)
    /\ clean' = 0
    /\ misses' = Cap(misses + 1, SlipThreshold)
    /\ UNCHANGED masterAge

NoBeat == RecvBeatTimeout /\ UNCHANGED <<deckVars, histVars>>

OtherBeats(b) ==
    /\ OtherDeck /\ linkUp
    /\ RecvBeat([from |-> "other", beat |-> b])
    /\ UNCHANGED <<deckVars, histVars>>

\* After a step that may stop or restart the clock away from a beat.
SlaveFollows ==
    slaveBeat' = IF ~playing' \/ out' \in {"start", "resync"} THEN 0 ELSE slaveBeat

StatusArrives ==
    /\ linkUp
    /\ RecvStatus([from |-> "master", play |-> deckPlays])
    /\ SlaveFollows
    /\ said' = IF deckPlays THEN "plays" ELSE "paused"
    /\ saidAge' = IF said' = said THEN saidAge ELSE 0
    /\ settled' = (saidAge' >= Debounce)
    /\ masterAge' = 0
    /\ UNCHANGED <<deckPlays, deckBeat, clean, misses, upAge>>

OtherStatus ==
    /\ OtherDeck /\ linkUp
    /\ \E play \in BOOLEAN : RecvStatus([from |-> "other", play |-> play])
    /\ UNCHANGED <<deckVars, histVars>>

NoStatus == RecvStatusTimeout /\ UNCHANGED <<deckVars, histVars>>

\* The rest of the loop's turn; time passes at its end.
TurnGoesOn ==
    /\ SilenceEdge \/ SilenceTimeout \/ Hold \/ MaybeResync
    /\ SlaveFollows
    /\ UNCHANGED <<deckPlays, deckBeat, histVars>>

TurnEnds(dt) ==
    /\ ColdStart(dt)
    /\ SlaveFollows
    /\ masterAge' = Cap(masterAge + dt, MaxPacketAge)
    /\ upAge' = Cap(upAge + dt, Silence)
    /\ IF said = "plays" /\ masterAge' >= Silence
       THEN said' = "nothing" /\ saidAge' = 0 /\ settled' = FALSE
       ELSE saidAge' = Cap(saidAge + dt, Debounce) /\ UNCHANGED <<said, settled>>
    /\ UNCHANGED <<deckPlays, deckBeat, clean, misses>>

-----------------------------------------------------------------------------
\* The DJ starts or pauses the deck.  The slave runs on while it is paused, and
\* nobody can say where it stands when the deck plays again.
PressPlay ==
    /\ pc = "beat"
    /\ deckPlays' = ~deckPlays
    /\ slaveBeat' = 0 /\ clean' = 0
    /\ UNCHANGED <<vars, deckBeat, misses, saidVars, masterAge, upAge>>

\* A UI frame pushes the link state every 40 ms: a change is noticed by the loop
\* before the next one.  "linkRace" adds changes between the two reads of it.
LinkChanges(up) ==
    /\ linkUp = lastLinkUp
    /\ "linkRace" \in UiOps \/ pc # "timeout"
    /\ SetLinkUp(up)

UiSets ==
    /\ \/ "keep" \in UiOps /\ \E on \in BOOLEAN : SetKeepPlaying(on)
       \/ "link" \in UiOps /\ \E up \in BOOLEAN : LinkChanges(up)
       \/ "ignore" \in UiOps /\ \E on \in BOOLEAN : SetIgnoreMaster(on)
       \/ \E kind \in {"deferred", "immediate"} \cap UiOps : RequestResync(kind)
       \/ "manual" \in UiOps /\ SetManualBpm
       \/ "free" \in UiOps /\ \E on \in BOOLEAN : SetFreeRun(on)
       \/ "role" \in UiOps /\ EnterRole
    /\ NotSetter
    /\ upAge' = IF linkUp' /\ ~linkUp THEN 0 ELSE upAge
    /\ UNCHANGED <<deckVars, clean, misses, saidVars, masterAge>>

FollowNext ==
    \/ \E b \in 1..4 : BeatArrives(b) \/ BeatLost(b) \/ OtherBeats(b)
    \/ NoBeat
    \/ StatusArrives \/ OtherStatus \/ NoStatus
    \/ TurnGoesOn \/ \E dt \in 0..1 : TurnEnds(dt)
    \/ PressPlay
    \/ UiSets

FollowSpec == FollowInit /\ [][FollowNext]_followVars

-----------------------------------------------------------------------------
FollowTypeOK ==
    /\ TypeOK
    /\ deckPlays \in BOOLEAN
    /\ deckBeat \in 1..4 /\ slaveBeat \in 0..4
    /\ clean \in 0..Steady /\ misses \in 0..SlipThreshold
    /\ said \in {"plays", "paused", "nothing"}
    /\ saidAge \in 0..Debounce /\ settled \in BOOLEAN
    /\ masterAge \in 0..MaxPacketAge /\ upAge \in 0..Silence

\* A play flag that flickers for less than the debounce time never stops the clock:
\* when a pause stops it, the statuses have said "paused" for that long.
StopIsDebounced == out = "stopPaused" => said = "paused" /\ settled

\* Fewer lost beats than the threshold, with no two consecutive beats heard in
\* between, never schedule the audible Stop+Start of a realignment.
SlipNeedsLosses == slipPending => misses = SlipThreshold

\* The slave's bar is the deck's bar from the Start on, however many packets are
\* lost, as long as the DJ neither pauses the deck nor makes it jump.
SlaveInStep == slaveBeat # 0 => slaveBeat = deckBeat

\* The clock stops for silence only when the master has been silent through a
\* whole grace, or through a whole window since the link came back.
RecoveryWindow ==
    out = "stopSilent" => masterAge >= Grace \/ (masterAge >= Silence /\ upAge >= Silence)

-----------------------------------------------------------------------------
\* The loop keeps turning and time passes; a deck that plays goes on from beat to
\* beat, and the link does not lose every downbeat.
Turn ==
    \/ \E b \in 1..4 : BeatArrives(b) \/ BeatLost(b) \/ OtherBeats(b)
    \/ NoBeat \/ StatusArrives \/ OtherStatus \/ NoStatus
    \/ TurnGoesOn \/ \E dt \in 0..1 : TurnEnds(dt)

Fairness ==
    /\ WF_followVars(Turn)
    /\ SF_followVars(TurnEnds(1))
    /\ SF_followVars(\E b \in 1..4 : BeatArrives(b) \/ BeatLost(b))
    /\ SF_followVars(BeatArrives(1))

FairFollowSpec == FollowSpec /\ Fairness

\* A deck that keeps playing drives the clock: nothing left over from a pause, a
\* silence or a slip blocks the next Start for good.
DeckDrives == <>[](deckPlays /\ linkUp) => []<>playing

\* A re-sync request does not stand for ever: it is served, dropped because nothing
\* runs, or replaced by a later tap.
ResyncServed == \A kind \in {"deferred", "immediate"} : resync = kind ~> resync # kind

-----------------------------------------------------------------------------
\* Properties the repository states and the code does not keep.

\* The clock stops when the master goes from playing to stopped
\* (docs/architecture.md, "Start / Stop semantics").
ClockStopsWithDeck ==
    said = "paused" /\ settled /\ pc = "silence" /\ FollowsDecks /\ ~keep => ~playing

\* It stops when the master sends no status or beat packets for the timeout (same).
ClockStopsWithMasterSilence ==
    masterAge >= MaxPacketAge /\ pc = "resync" /\ FollowsDecks /\ ~keep => ~playing

\* A hold clears as soon as a deck plays again (bridge.hpp, keep playing).
HoldEndsWithPlay == said = "plays" /\ settled /\ pc = "silence" => ~holding

\* A hold only describes following decks that have stopped: taking the master role
\* ends it (bridge.cpp, set_ignore_master).
HoldMeansFollowing == holding => ~ignore

\* A slave's bar out of step with the deck's is found and realigned (bridge.hpp,
\* bar-alignment tracking).
BarRegained == clean = Steady /\ slaveBeat # 0 => slaveBeat = deckBeat
=============================================================================
