----------------------------- MODULE Transport ------------------------------
(***************************************************************************)
(* The MIDI transport of the bridge (lib/prolink/bridge.cpp): when the     *)
(* clock is started, stopped, restarted, held, or left running, from what  *)
(* the decks send, from what the link does and from the UI thread.         *)
(*                                                                         *)
(* The bridge thread runs Bridge::run(), one phase after the other:        *)
(*                                                                         *)
(*   beat -> status (-> hold) -> silence -> timeout (-> hold) -> resync    *)
(*        -> cold -> beat                                                  *)
(*                                                                         *)
(* A phase is atomic except where the code reads a flag and acts on it     *)
(* later: maybe_stop_on_silence() reads the link state twice, and a hold   *)
(* is decided in one step and recorded in the next.  The UI thread's       *)
(* setters and the tempo-master role (module MasterRole) change the flags  *)
(* between any two phases.                                                 *)
(*                                                                         *)
(* Time is counted in ticks, at most one per turn of the loop: the ages    *)
(* stand for now_ms() minus a recorded time.  Datagrams are classed by     *)
(* whether they come from the tracked master (current_master_) or from     *)
(* another deck; the box's own are dropped before anything is done.        *)
(* Tempo is not part of this module.                                       *)
(***************************************************************************)
EXTENDS Integers

CONSTANTS Debounce,       \* play_debounce_ms, in ticks
          Live,           \* 750 ms: beats older than that are stale
          Silence,        \* silence_timeout_ms
          Grace,          \* link_down_grace_ms
          SlipThreshold   \* BAR_SLIP_REALIGN_THRESHOLD

ASSUME TransportAssumption ==
    /\ Debounce \in Nat /\ Live \in Nat /\ Silence \in Nat /\ Grace \in Nat
    /\ SlipThreshold \in Nat \ {0}

VARIABLES
    playing,        \* playing_: the clock runs
    freeRun,        \* free_run_
    linkUp,         \* link_up_
    keep,           \* keep_playing_
    holding,        \* holding_
    ignore,         \* ignore_master_
    manual,         \* manual_active_
    resync,         \* resync_request_: "none", "deferred" or "immediate"
    lastPlaying,    \* last_master_playing_, and its mirror master_deck_playing_
    pendingPlay,    \* pending_play_state_
    pendingAge,     \* time since pending_play_change_ms_
    packetAge,      \* time since last_packet_ms_
    beatAge,        \* time since last_beat_ms_, Live if never
    expected,       \* expected_beat_in_bar_
    slipPending,    \* bar_slip_pending_realign_
    slipCount,      \* bar_slip_count_, which no longer matters past the threshold
    lastLinkUp,     \* last_link_up_
    pc,             \* the phase of the run loop
    out             \* what the last bridge step told the clock to do

uiFlags == <<freeRun, linkUp, keep, ignore, manual>>
playFlags == <<lastPlaying, pendingPlay, pendingAge>>
slipVars == <<expected, slipPending, slipCount>>
ages == <<packetAge, beatAge>>
vars == <<playing, uiFlags, holding, resync, playFlags, ages, slipVars, lastLinkUp,
          pc, out>>

Cap(n, max) == IF n < max THEN n ELSE max
MaxPacketAge == IF Silence > Grace THEN Silence ELSE Grace

TypeOK ==
    /\ {playing, freeRun, linkUp, keep, holding, ignore, manual} \subseteq BOOLEAN
    /\ {lastPlaying, pendingPlay, slipPending, lastLinkUp} \subseteq BOOLEAN
    /\ resync \in {"none", "deferred", "immediate"}
    /\ pendingAge \in 0..Debounce
    /\ packetAge \in 0..MaxPacketAge
    /\ beatAge \in 0..Live
    /\ expected \in 0..4
    /\ slipCount \in 0..SlipThreshold
    /\ pc \in {"beat", "status", "statusHold", "silence", "timeout", "timeoutHold",
               "resync", "cold"}
    /\ out \in {"nothing", "start", "stopPaused", "stopSilent", "realign", "resync",
                "feed"}

Init ==
    /\ playing = FALSE /\ freeRun = FALSE /\ linkUp = TRUE /\ keep = FALSE
    /\ holding = FALSE /\ ignore = FALSE /\ manual = FALSE /\ resync = "none"
    /\ lastPlaying = FALSE /\ pendingPlay = FALSE /\ pendingAge = Debounce
    /\ packetAge = 0 /\ beatAge = Live
    /\ expected = 0 /\ slipPending = FALSE /\ slipCount = 0
    /\ lastLinkUp = TRUE
    /\ pc = "beat" /\ out = "nothing"

-----------------------------------------------------------------------------
\* The setters, called by the UI thread at any time.  A setter of several flags is
\* one step here.

SetFreeRun(on) ==
    /\ freeRun' = on
    /\ manual' = (manual /\ on)
    /\ UNCHANGED <<linkUp, keep, ignore, holding, resync>>

SetLinkUp(up) ==
    /\ linkUp' = up
    /\ UNCHANGED <<freeRun, keep, ignore, manual, holding, resync>>

SetKeepPlaying(on) ==
    /\ keep' = on
    /\ holding' = (holding /\ on)
    /\ UNCHANGED <<freeRun, linkUp, ignore, manual, resync>>

SetIgnoreMaster(on) ==
    /\ ignore' = on
    /\ manual' = on
    /\ holding' = (holding /\ ~on)
    /\ UNCHANGED <<freeRun, linkUp, keep, resync>>

\* set_manual_bpm() clamps what it is given; nudge_manual_bpm() ends in it.
SetManualBpm ==
    /\ manual' = TRUE
    /\ UNCHANGED <<freeRun, linkUp, keep, ignore, holding, resync>>

RequestResync(kind) ==
    /\ resync' = kind
    /\ UNCHANGED <<uiFlags, holding>>

\* apply_master_mode_request() makes the box standalone; leave_master_mode_()
\* restores the user's choice through set_ignore_master().
EnterRole ==
    /\ pc = "silence"
    /\ ignore' = TRUE
    /\ manual' = TRUE
    /\ UNCHANGED <<freeRun, linkUp, keep, holding, resync>>

Setter ==
    \/ \E on \in BOOLEAN : SetFreeRun(on) \/ SetKeepPlaying(on) \/ SetIgnoreMaster(on)
    \/ \E up \in BOOLEAN : SetLinkUp(up)
    \/ SetManualBpm
    \/ \E kind \in {"deferred", "immediate"} : RequestResync(kind)
    \/ EnterRole

NotSetter == UNCHANGED <<playing, playFlags, ages, slipVars, lastLinkUp, pc, out>>

-----------------------------------------------------------------------------
\* Pieces shared by the phases.

\* A reset of the bar-slip detector, the clock being on the given beat (0: unknown).
ResetSlip_Mut(beat) == expected' = beat - 1 /\ slipPending' = FALSE /\ slipCount' = 0
ResetSlip(beat) == expected' = beat /\ slipPending' = FALSE /\ slipCount' = 0

\* The clock stops: the next start is a fresh one.
StopClock_Mut(why) ==
    /\ playing' = FALSE
    /\ expected' = 0 /\ slipPending' = FALSE /\ UNCHANGED slipCount
    /\ out' = why

StopClock(why) ==
    /\ playing' = FALSE
    /\ ResetSlip(0)
    /\ out' = why

-----------------------------------------------------------------------------
\* handle_beat_packet(), from the master's filter on.

BeatStarts_Mut(p) ==
    /\ ~playing
    /\ playing' = TRUE /\ ResetSlip(p.beat) /\ out' = "start"
    /\ UNCHANGED resync

BeatStarts_MutEdge(p) ==
    /\ ~playing
    /\ IF p.beat = 1 /\ ~lastPlaying
       THEN playing' = TRUE /\ ResetSlip(1) /\ out' = "start"
       ELSE out' = "nothing" /\ UNCHANGED <<playing, slipVars>>
    /\ UNCHANGED resync

\* The clock is not running: only beat 1 starts it.
BeatStarts(p) ==
    /\ ~playing
    /\ IF p.beat = 1
       THEN playing' = TRUE /\ ResetSlip(1) /\ out' = "start"
       ELSE out' = "nothing" /\ UNCHANGED <<playing, slipVars>>
    /\ UNCHANGED resync

SlipAfter_Mut(p) ==
    IF expected # 0 /\ p.beat # (expected % 4) + 1
    THEN Cap(slipCount + 1, SlipThreshold) ELSE slipCount

\* The count of disagreements in a row, after this beat.
SlipAfter(p) ==
    IF expected = 0 THEN slipCount
    ELSE IF p.beat = (expected % 4) + 1 THEN 0
    ELSE Cap(slipCount + 1, SlipThreshold)

\* The clock runs: it is realigned on a downbeat that somebody waits for, and
\* steered by the beat otherwise.
BeatSteers(p) ==
    LET slipped == slipPending \/ SlipAfter(p) >= SlipThreshold
        realign == p.beat = 1 /\ (slipped \/ resync = "deferred")
    IN  /\ playing
        /\ expected' = p.beat
        /\ slipPending' = (slipped /\ ~realign)
        /\ slipCount' = IF realign THEN 0 ELSE SlipAfter(p)
        /\ resync' = IF realign THEN "none" ELSE resync
        /\ out' = IF realign THEN "realign" ELSE "feed"
        /\ UNCHANGED playing

\* A beat refreshes the ages whichever deck sent it.
HandleBeat(p) ==
    /\ packetAge' = 0 /\ beatAge' = 0
    /\ manual' = (manual /\ (ignore \/ p.from # "master"))
    /\ \/ /\ p.from = "master" /\ ~ignore
          /\ BeatStarts(p) \/ BeatSteers(p)
       \/ /\ p.from # "master" \/ ignore
          /\ out' = "nothing"
          /\ UNCHANGED <<playing, slipVars, resync>>
    /\ UNCHANGED <<freeRun, linkUp, keep, ignore, holding, playFlags, lastLinkUp>>

-----------------------------------------------------------------------------
\* handle_status_packet(), from the own-broadcast filter on.

\* The play flag has been stable for long enough, and is news.
Commits_Mut(p) == lastPlaying # p.play
Commits(p) == lastPlaying # p.play /\ pendingAge' >= Debounce

\* The decks drive the clock: it stops when they do.
FollowsDecks == ~freeRun /\ ~ignore

HandleStatus(p) ==
    /\ packetAge' = 0
    /\ \/ /\ p.from # "master"
          /\ pc' = "silence" /\ out' = "nothing"
          /\ UNCHANGED <<playing, holding, playFlags, slipVars>>
       \/ /\ p.from = "master"
          /\ pendingPlay' = p.play
          /\ pendingAge' = IF p.play # pendingPlay THEN 0 ELSE pendingAge
          /\ lastPlaying' = IF Commits(p) THEN p.play ELSE lastPlaying
          /\ holding' = (holding /\ ~(Commits(p) /\ p.play))
          /\ IF Commits(p) /\ ~p.play /\ playing /\ FollowsDecks
             THEN IF keep
                  THEN /\ pc' = "statusHold" /\ out' = "nothing"
                       /\ expected' = 0 /\ slipCount' = 0
                       /\ UNCHANGED <<playing, slipPending>>
                  ELSE StopClock("stopPaused") /\ pc' = "silence"
             ELSE /\ pc' = "silence" /\ out' = "nothing"
                  /\ UNCHANGED <<playing, slipVars>>
    /\ UNCHANGED <<uiFlags, resync, beatAge, lastLinkUp>>

-----------------------------------------------------------------------------
\* The phases of the run loop.

RecvBeat(p) == pc = "beat" /\ pc' = "status" /\ HandleBeat(p)

RecvBeatTimeout ==
    /\ pc = "beat" /\ pc' = "status" /\ out' = "nothing"
    /\ UNCHANGED <<playing, uiFlags, holding, resync, playFlags, ages, slipVars,
                   lastLinkUp>>

RecvStatus(p) == pc = "status" /\ HandleStatus(p)

RecvStatusTimeout ==
    /\ pc = "status" /\ pc' = "silence" /\ out' = "nothing"
    /\ UNCHANGED <<playing, uiFlags, holding, resync, playFlags, ages, slipVars,
                   lastLinkUp>>

\* The hold decided in the previous step is recorded.
Hold ==
    /\ \/ pc = "statusHold" /\ pc' = "silence"
       \/ pc = "timeoutHold" /\ pc' = "resync"
    /\ holding' = TRUE
    /\ out' = "nothing"
    /\ UNCHANGED <<playing, uiFlags, resync, playFlags, ages, slipVars, lastLinkUp>>

SilenceEdge_Mut ==
    /\ pc = "silence" /\ pc' = "timeout" /\ out' = "nothing"
    /\ lastLinkUp' = linkUp
    /\ UNCHANGED <<playing, uiFlags, holding, resync, playFlags, ages, slipVars>>

\* maybe_stop_on_silence(): coming back from an outage opens a fresh window.
SilenceEdge ==
    /\ pc = "silence" /\ pc' = "timeout" /\ out' = "nothing"
    /\ packetAge' = IF linkUp /\ ~lastLinkUp THEN 0 ELSE packetAge
    /\ lastLinkUp' = linkUp
    /\ UNCHANGED <<playing, uiFlags, holding, resync, playFlags, beatAge, slipVars>>

\* The rest of it: the link state is read again for the timeout.
SilenceExpired == playing /\ FollowsDecks /\ packetAge >= (IF linkUp THEN Silence ELSE Grace)

SilenceTimeout ==
    /\ pc = "timeout"
    /\ IF SilenceExpired /\ ~keep
       THEN /\ pc' = "resync"
            /\ StopClock("stopSilent")
            /\ lastPlaying' = FALSE /\ pendingPlay' = FALSE
       ELSE /\ pc' = IF SilenceExpired THEN "timeoutHold" ELSE "resync"
            /\ out' = "nothing"
            /\ UNCHANGED <<playing, lastPlaying, pendingPlay, slipVars>>
    /\ UNCHANGED <<uiFlags, holding, resync, pendingAge, ages, lastLinkUp>>

\* maybe_resync(): a deferred request waits only for beats that do arrive.
WaitsForDownbeat_Mut == resync = "deferred" /\ ~ignore
WaitsForDownbeat == resync = "deferred" /\ beatAge < Live /\ ~ignore

MaybeResync ==
    /\ pc = "resync" /\ pc' = "cold"
    /\ resync' = IF playing /\ WaitsForDownbeat THEN resync ELSE "none"
    /\ out' = IF playing /\ resync # "none" /\ ~WaitsForDownbeat
              THEN "resync" ELSE "nothing"
    /\ UNCHANGED <<playing, uiFlags, holding, playFlags, ages, slipVars, lastLinkUp>>

\* The end of the loop's turn: a standalone box starts by itself, and dt ticks
\* pass before the next turn.
ColdStart(dt) ==
    /\ pc = "cold" /\ pc' = "beat"
    /\ IF (freeRun \/ ignore) /\ manual /\ ~playing
       THEN playing' = TRUE /\ out' = "start"
       ELSE out' = "nothing" /\ UNCHANGED playing
    /\ packetAge' = Cap(packetAge + dt, MaxPacketAge)
    /\ beatAge' = Cap(beatAge + dt, Live)
    /\ pendingAge' = Cap(pendingAge + dt, Debounce)
    /\ UNCHANGED <<uiFlags, holding, resync, lastPlaying, pendingPlay, slipVars,
                   lastLinkUp>>

BeatIn == [from : {"master", "other"}, beat : 1..4]
StatusIn == [from : {"master", "other"}, play : BOOLEAN]

Housekeeping == SilenceEdge \/ SilenceTimeout \/ Hold \/ MaybeResync
                \/ \E dt \in 0..1 : ColdStart(dt)
Loop ==
    \/ \E p \in BeatIn : RecvBeat(p)
    \/ RecvBeatTimeout
    \/ \E p \in StatusIn : RecvStatus(p)
    \/ RecvStatusTimeout
    \/ Housekeeping

Next == Loop \/ (Setter /\ NotSetter)

Spec == Init /\ [][Next]_vars

-----------------------------------------------------------------------------
\* No bar position observed during one run of the clock survives into the next: a
\* slip counted or scheduled before a stop, by pause or by silence, cannot realign
\* (an audible Stop+Start) a clock that has just been started on the downbeat.
StoppedIsClean == ~playing => expected = 0 /\ slipCount = 0 /\ ~slipPending
=============================================================================
