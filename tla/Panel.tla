-------------------------------- MODULE Panel --------------------------------
(***************************************************************************)
(* The front panel (ui_task in firmware/src/main.cpp) over the part of the *)
(* bridge it reads and writes.                                             *)
(*                                                                         *)
(* A frame, every 40 ms, is three steps                                    *)
(*                                                                         *)
(*     frame -> fallback -> late -> frame -> ...                           *)
(*                                                                         *)
(* and the bridge thread acts between any two of them; what a frame does   *)
(* before its fallback is one step, because the bridge thread writes       *)
(* nothing that it reads twice.  A step that changes the source is         *)
(* followed by the stores of ui_apply_source(), one by one, and the bridge *)
(* thread acts between these too, as the panel does between the loads and  *)
(* stores by which that thread moves the source flags when it enters or    *)
(* leaves the role.  The timers of the panel are flags that                *)
(* the passage of time sets: the sub-mode has been idle, the tap has been  *)
(* held too long, the offset has settled.  Power may fail at any time;     *)
(* what has been written to NVS is then all there is.                      *)
(*                                                                         *)
(* Variants named ..._Mut are wrong on purpose; MasterRole says why.       *)
(***************************************************************************)
EXTENDS Integers, FiniteSets

CONSTANTS Pins,      \* device numbers offered as "player N"
          MaxOffset, \* clock offsets are 0..MaxOffset steps of a nudge
          Together,  \* inputs that may fall in one frame
          Events     \* what may happen in a run, a subset of AllEvents

AllEvents == {"tap", "nudge", "menu", "deck", "role", "powerFail"}

kSourceMaster == 5
kSourceOff == 6
NoSource == 255        \* 0xFF of src_before_auto_master
Followers == {0} \cup Pins
Sources == Followers \cup {kSourceMaster, kSourceOff}
Toggles == {"actAsPlayer", "keepPlaying"}
Items == Toggles \cup {"stepSize"}   \* the two step sizes are one item here
BoxOwnsTempo(s) == s \in {kSourceMaster, kSourceOff}

ASSUME PanelAssumption ==
    /\ Pins \subseteq 1..4
    /\ MaxOffset \in Nat
    /\ Together \in Nat
    /\ Events \subseteq AllEvents

VARIABLES
    \* The panel's own state.
    pc,             \* the step of the frame
    push,           \* the store of ui_apply_source(selected) that is next, "none" outside it
    b,              \* the frame found g_bridge set
    mode,           \* ui_mode
    selected,       \* g_selected_src
    proposed,       \* proposed_src, 0 outside source-select (nothing reads it there)
    menuItem,       \* menu_index, its first item outside the menu
    editValue,      \* edit_value, with two values for every item; FALSE outside menu-edit
    lastApplied,    \* last_applied_src
    armed,          \* auto_master_armed
    srcBefore,      \* src_before_auto_master
    tap,            \* the tap gesture: "up", "clean" (a release re-syncs), "spoilt", or
                    \* "unread" (held is set, and the press still to be collected)
    idle,           \* mode_activity_ms lies kSourceSelectIdleMs or kMenuIdleMs back
    saveInit, saveSeen, saveCommitted, settled,   \* the settings of the offset
    \* What survives a power failure.
    setting,        \* act_as_player and keep_playing, written through to NVS
    nvsOffset,      \* the stored clock offset
    \* The bridge.
    bridge,         \* g_bridge is set
    masterMode, request, applied, ignore, preIgnore, force,
    access,         \* the access to ignore_master_ and pre_master_ignore_ that the bridge
                    \* thread makes next, "none" unless it enters or leaves the role
    held,           \* the value it has loaded and will store
    deckPlaying, holding, bridgeKeep, offset,
    \* History.
    chosen,         \* the source the operator confirmed last
    unheard,        \* it was confirmed while no bridge could hear of it
    pressUsed,      \* the press of tap that is held has tapped the tempo or backed out of
                    \* a sub-mode
    event,          \* what the frame did: "claim", "resync" or "none"
    seedTrim,       \* the offset was trimmed in the very frame that met the bridge
    overlapped      \* the source was pushed while the bridge thread was moving another

menus == <<mode, proposed, menuItem, editValue, idle>>
choice == <<selected, lastApplied, srcBefore, chosen, unheard>>
saving == <<saveInit, saveSeen, saveCommitted, settled, nvsOffset, seedTrim>>
flags == <<ignore, preIgnore, access, held, overlapped>>
role == <<masterMode, request, applied, force, flags>>
decks == <<deckPlaying, holding, bridgeKeep>>
frameVars == <<pc, push, b, armed, event>>
vars == <<frameVars, menus, choice, tap, pressUsed, saving, setting, offset,
          bridge, role, decks>>

\* What the input task may have collected for one frame.
Inputs ==
    {i \in [spin: {0, 1}, push: BOOLEAN, press: BOOLEAN, held: BOOLEAN,
            nudge: {-1, 0, 1}, menu: BOOLEAN] :
        /\ i.nudge # 0 => "nudge" \in Events
        /\ i.menu => "menu" \in Events
        /\ (i.press \/ i.held) => "tap" \in Events
        /\ Cardinality({k \in 1..5 : <<i.spin # 0, i.push, i.press, i.nudge # 0,
                                       i.menu>>[k]}) <= Together}

PanelTypeOK ==
    /\ pc \in {"frame", "fallback", "late"}
    /\ push \in {"none", "mode", "enter", "release", "preIgnore", "ignore", "force"}
    /\ {b, editValue, armed, idle, saveInit, settled} \subseteq BOOLEAN
    /\ {unheard, seedTrim} \subseteq BOOLEAN
    /\ mode \in {"normal", "select", "menu", "edit"}
    /\ {selected, proposed, lastApplied, chosen} \subseteq Sources
    /\ srcBefore \in Sources \cup {NoSource}
    /\ menuItem \in Items
    /\ tap \in {"up", "clean", "spoilt", "unread"}
    /\ pressUsed \in BOOLEAN
    /\ {saveSeen, saveCommitted, nvsOffset, offset} \subseteq 0..MaxOffset
    /\ setting \in [Toggles -> BOOLEAN]
    /\ {bridge, masterMode, applied, ignore, preIgnore} \subseteq BOOLEAN
    /\ {deckPlaying, holding, bridgeKeep, held, overlapped} \subseteq BOOLEAN
    /\ access \in {"none", "loadPre", "restorePre", "restoreIgnore",
                   "loadIgnore", "capturePre", "forceIgnore"}
    /\ request \in {"none", "enter", "release"}
    /\ force \in Followers
    /\ event \in {"none", "claim", "resync"}

\* A boot, whatever NVS holds.
Init ==
    /\ pc = "frame" /\ push = "none" /\ b = FALSE /\ event = "none" /\ armed = TRUE
    /\ mode = "normal" /\ proposed = 0 /\ menuItem = "actAsPlayer"
    /\ editValue = FALSE /\ idle = FALSE
    /\ selected = 0 /\ lastApplied = 0 /\ srcBefore = NoSource
    /\ chosen = 0 /\ unheard = FALSE
    /\ tap = "up" /\ pressUsed = FALSE
    /\ saveInit = FALSE /\ saveSeen = 0 /\ saveCommitted = 0 /\ settled = FALSE
    /\ nvsOffset = 0 /\ offset = 0 /\ seedTrim = FALSE
    /\ setting \in [Toggles -> BOOLEAN]
    /\ bridge = FALSE
    /\ masterMode = FALSE /\ request = "none" /\ applied = FALSE
    /\ ignore = FALSE /\ preIgnore = FALSE /\ force = 0
    /\ access = "none" /\ held = FALSE /\ overlapped = FALSE
    /\ deckPlaying = FALSE /\ holding = FALSE /\ bridgeKeep = FALSE

-----------------------------------------------------------------------------
\* Nothing is pushed.  h is what the step leaves of a hold.
NoCall(h) == holding' = h /\ UNCHANGED <<push, role>>

\* The panel changes its source, and pushes it to the bridge if it found one: the first
\* store of ui_apply_source() is chosen here, where master_mode() is read.
Switch_Mut(s, found, h) ==
    selected' = s /\ lastApplied' = s /\ unheard' = ~found /\ NoCall(h)

Switch(s, found, h) ==
    /\ selected' = s /\ lastApplied' = s
    /\ unheard' = ~found
    /\ push' = CASE ~found -> "none"
                 [] found /\ s = kSourceMaster -> "mode"
                 [] found /\ s # kSourceMaster -> IF masterMode THEN "release" ELSE "preIgnore"
    /\ holding' = h /\ UNCHANGED role

\* The bridge thread has loaded a value and not yet stored it everywhere.
Moving == access \in {"restorePre", "restoreIgnore", "capturePre"}

Stores(now, next) ==
    /\ push = now /\ push' = next
    /\ UNCHANGED <<pc, b, armed, event, menus, choice, tap, pressUsed, saving, setting,
                   offset, bridge, applied, access, held, deckPlaying, bridgeKeep>>

\* set_master_mode().
StoreMasterMode ==
    /\ Stores("mode", "enter")
    /\ masterMode' = TRUE
    /\ UNCHANGED <<request, ignore, preIgnore, overlapped, force, holding>>

StoreRequest ==
    /\ Stores("enter", "none") \/ Stores("release", "preIgnore")
    /\ request' = push
    /\ UNCHANGED <<masterMode, ignore, preIgnore, overlapped, force, holding>>

\* set_ignore_master().
StorePreIgnore ==
    /\ Stores("preIgnore", "ignore")
    /\ preIgnore' = (selected = kSourceOff)
    /\ overlapped' = (Moving /\ held # preIgnore')
    /\ UNCHANGED <<masterMode, request, ignore, force, holding>>

StoreIgnore ==
    /\ Stores("ignore", "force")
    /\ ignore' = (selected = kSourceOff)
    /\ holding' = (holding /\ selected # kSourceOff)
    /\ UNCHANGED <<masterMode, request, preIgnore, overlapped, force>>

\* set_force_master_device().
StoreForce ==
    /\ Stores("force", "none")
    /\ force' = IF selected = kSourceOff THEN 0 ELSE selected
    /\ UNCHANGED <<masterMode, request, ignore, preIgnore, overlapped, holding>>

Push == StoreMasterMode \/ StoreRequest \/ StorePreIgnore \/ StoreIgnore \/ StoreForce

\* The panel is at step phase of its frame, the source pushed.
At(phase) == pc = phase /\ push = "none"

-----------------------------------------------------------------------------
\* frame: keep-playing is pushed, the auto-master latch runs, then the handler of the
\* mode on the inputs i, then the offset is saved.

\* The presses are drained before tap_held() is read, and the button may settle
\* in between: the press is then in the next frame's inputs.
Possible(i) == (tap = "unread" => i.press) /\ i.nudge + offset \in 0..MaxOffset

Held == holding /\ (bridge => setting["keepPlaying"])

Latches ==
    /\ bridge /\ setting["keepPlaying"] /\ setting["actAsPlayer"]
    /\ armed \/ deckPlaying
    /\ Held
    /\ selected # kSourceMaster

\* The source the handlers see, and the one the role would be borrowed from.
Src == IF Latches THEN kSourceMaster ELSE selected
Borrowed == IF Latches THEN selected ELSE srcBefore

\* What a press means is latched with it, and spinning while it is held spoils it.  A
\* press that is over within one frame has no release.
Gesture(i) ==
    CASE i.press /\ ~i.held /\ tap = "up" -> "up"
      [] i.held /\ ~i.press /\ tap = "up" -> "unread"
      [] i.held /\ i.spin # 0 -> "spoilt"
      [] i.press -> IF BoxOwnsTempo(Src) THEN "spoilt" ELSE "clean"
      [] OTHER -> tap

\* The tap at the end of a frame, whose handler may have used it.
TapAfter_Mut(i, consumed) == tap' = IF ~i.held THEN "up" ELSE Gesture(i)

TapAfter(i, consumed) ==
    tap' = IF ~i.held THEN "up" ELSE IF consumed THEN "spoilt" ELSE Gesture(i)

KeepSource ==
    /\ selected' = Src /\ srcBefore' = Borrowed
    /\ NoCall(Held)
    /\ UNCHANGED <<lastApplied, chosen, unheard>>

\* A source that is hidden is never proposed.
Offered == IF setting["actAsPlayer"] THEN Sources ELSE Sources \ {kSourceMaster}
Visible(s) == IF s \in Offered THEN s ELSE 0
NextSource(s) ==
    LET after == {o \in Offered : o > Visible(s)} IN
    IF after = {} THEN 0 ELSE CHOOSE o \in after : \A p \in after : o <= p

NextItem == [actAsPlayer |-> "stepSize", stepSize |-> "keepPlaying",
             keepPlaying |-> "actAsPlayer"]

Claimed == IF Latches THEN "claim" ELSE "none"

\* Whether the press has been used, until it is released.
Pressed(i, used) ==
    pressUsed' = CASE ~i.held /\ event' # "resync" -> FALSE
                   [] i.press -> used
                   [] OTHER -> pressUsed

\* Tap is tap-tempo where the box owns the tempo, and a re-sync on its release where
\* it follows.  Nudges trim the offset; the encoder's push wins over the menu hold.
Normal(i) ==
    /\ mode = "normal"
    /\ mode' = IF i.push THEN "select" ELSE IF i.menu THEN "menu" ELSE "normal"
    /\ proposed' = IF i.push THEN Visible(Src) ELSE 0
    /\ offset' = IF bridge THEN offset + i.nudge ELSE offset
    /\ event' = IF ~BoxOwnsTempo(Src) /\ Gesture(i) = "clean" /\ ~i.held /\ bridge
                THEN "resync" ELSE Claimed
    /\ Pressed(i, BoxOwnsTempo(Src))
    /\ TapAfter(i, FALSE)
    /\ KeepSource
    /\ UNCHANGED <<menuItem, editValue, idle, setting>>

\* Source-select: spin walks the sources offered.
Cursor(i) == IF i.spin # 0 THEN NextSource(proposed) ELSE proposed

\* A deliberate choice supersedes any auto-claim.
Supersede_Mut == srcBefore' = Borrowed

Supersede == srcBefore' = NoSource

\* A push confirms; confirming the selected source again calls nothing.
Confirm(i) ==
    LET s == Visible(Cursor(i)) IN
    /\ mode = "select" /\ i.push
    /\ chosen' = s /\ Supersede
    /\ \/ s # Src /\ Switch(s, bridge, Held)
       \/ s = Src /\ selected' = s /\ NoCall(Held) /\ UNCHANGED <<lastApplied, unheard>>
    /\ mode' = "normal" /\ proposed' = 0 /\ idle' = FALSE
    /\ event' = "none"
    /\ Pressed(i, FALSE)
    /\ TapAfter(i, FALSE)
    /\ UNCHANGED <<menuItem, editValue, setting, offset>>

LeaveSubMode(to) ==
    /\ mode' = to /\ idle' = FALSE /\ proposed' = 0 /\ editValue' = FALSE
    /\ menuItem' = IF to = "normal" THEN "actAsPlayer" ELSE menuItem
    /\ event' = Claimed
    /\ KeepSource
    /\ UNCHANGED <<setting, offset>>

\* A tap backs out of a sub-mode, and is used up by that.
Cancel(i) ==
    /\ mode # "normal" /\ ~i.push /\ i.press
    /\ LeaveSubMode(IF mode = "edit" THEN "menu" ELSE "normal")
    /\ Pressed(i, TRUE)
    /\ TapAfter(i, TRUE)

TimesOut_Mut(i) == idle /\ i.spin = 0 /\ mode # "edit"

TimesOut(i) == idle /\ i.spin = 0

IdleOut(i) ==
    /\ mode # "normal" /\ ~i.push /\ ~i.press
    /\ TimesOut(i)
    /\ LeaveSubMode("normal")
    /\ Pressed(i, FALSE)
    /\ TapAfter(i, FALSE)

\* Spinning in a sub-mode, or nothing.
Item(i) == IF i.spin # 0 /\ mode = "menu" THEN NextItem[menuItem] ELSE menuItem
Edited(i) == IF i.spin # 0 THEN ~editValue ELSE editValue

Stay(i) ==
    /\ mode # "normal" /\ ~i.push /\ ~i.press
    /\ ~TimesOut(i)
    /\ proposed' = IF mode = "select" THEN Cursor(i) ELSE 0
    /\ menuItem' = Item(i)
    /\ editValue' = IF mode = "edit" THEN Edited(i) ELSE FALSE
    /\ idle' = FALSE
    /\ event' = Claimed
    /\ Pressed(i, FALSE)
    /\ TapAfter(i, FALSE)
    /\ KeepSource
    /\ UNCHANGED <<mode, setting, offset>>

\* A push in the menu opens the item for editing.
OpenItem(i) ==
    /\ mode = "menu" /\ i.push
    /\ mode' = "edit" /\ menuItem' = Item(i) /\ idle' = FALSE
    /\ editValue' = IF Item(i) \in Toggles THEN setting[Item(i)] ELSE FALSE
    /\ event' = Claimed
    /\ Pressed(i, FALSE)
    /\ TapAfter(i, FALSE)
    /\ KeepSource
    /\ UNCHANGED <<proposed, setting, offset>>

\* A push in menu-edit commits and saves.  Withdrawing the permission to act as a
\* player deselects the master source.
Withdraws_Mut(i) ==
    menuItem = "actAsPlayer" /\ ~Edited(i) /\ Src = kSourceMaster /\ ~Latches

Withdraws(i) == menuItem = "actAsPlayer" /\ ~Edited(i) /\ Src = kSourceMaster

Commit(i) ==
    /\ mode = "edit" /\ i.push
    /\ setting' = IF menuItem \in Toggles
                  THEN [setting EXCEPT ![menuItem] = Edited(i)] ELSE setting
    /\ \/ /\ Withdraws(i)
          /\ Supersede /\ Switch(0, bridge, Held) /\ UNCHANGED chosen
          /\ event' = "none"
       \/ ~Withdraws(i) /\ KeepSource /\ event' = Claimed
    /\ mode' = "menu" /\ editValue' = FALSE /\ idle' = FALSE
    /\ Pressed(i, FALSE)
    /\ TapAfter(i, FALSE)
    /\ UNCHANGED <<menuItem, proposed, offset>>

\* The offset is written once it has settled and differs from what was written last.
Writes_Mut == bridge /\ saveInit /\ offset' = saveSeen /\ settled /\ saveSeen > saveCommitted

Writes == bridge /\ saveInit /\ offset' = saveSeen /\ settled /\ offset' # saveCommitted

\* The first frame with a bridge takes the offset it finds for the stored one.
SaveOffset ==
    LET seed == bridge /\ ~saveInit
        moved == bridge /\ saveInit /\ offset' # saveSeen
    IN
    /\ saveInit' = (saveInit \/ seed)
    /\ saveSeen' = IF seed \/ moved THEN offset' ELSE saveSeen
    /\ saveCommitted' = IF seed \/ Writes THEN offset' ELSE saveCommitted
    /\ nvsOffset' = IF Writes THEN offset' ELSE nvsOffset
    /\ settled' = (settled /\ ~moved /\ ~Writes)
    /\ seedTrim' = (seedTrim \/ (seed /\ offset' # offset))

RunFrame(i) ==
    /\ At("frame") /\ pc' = "fallback"
    /\ Possible(i)
    /\ b' = bridge
    /\ bridgeKeep' = IF bridge THEN setting["keepPlaying"] ELSE bridgeKeep
    /\ armed' = ((armed \/ (bridge /\ deckPlaying)) /\ ~Latches)
    /\ \/ Normal(i) \/ Confirm(i) \/ Cancel(i) \/ IdleOut(i) \/ Stay(i)
       \/ OpenItem(i) \/ Commit(i)
    /\ SaveOffset
    /\ UNCHANGED <<bridge, deckPlaying>>

-----------------------------------------------------------------------------
\* fallback, late: the end of the frame.

\* What the panel returns to: the source the role was borrowed from, or following.
Restored_Mut == srcBefore

Restored == IF srcBefore = NoSource THEN 0 ELSE srcBefore

\* The bridge has dropped the role.
Fallback ==
    /\ At("fallback") /\ pc' = "late"
    /\ \/ /\ b /\ selected = kSourceMaster /\ ~masterMode
          /\ srcBefore' = NoSource
          /\ Switch(Restored, TRUE, holding)
       \/ /\ ~(b /\ selected = kSourceMaster /\ ~masterMode)
          /\ NoCall(holding)
          /\ UNCHANGED <<selected, lastApplied, srcBefore, unheard>>
    /\ UNCHANGED <<b, armed, event, menus, chosen, tap, pressUsed, saving, setting,
                   offset, bridge, deckPlaying, bridgeKeep>>

\* A selection that could not be pushed is pushed once the bridge exists.
LateApply ==
    /\ At("late") /\ pc' = "frame"
    /\ b' = FALSE
    /\ \/ b /\ lastApplied # selected /\ Switch(selected, TRUE, holding)
       \/ /\ ~b \/ lastApplied = selected
          /\ NoCall(holding)
          /\ UNCHANGED <<selected, lastApplied, unheard>>
    /\ UNCHANGED <<armed, event, menus, srcBefore, chosen, tap, pressUsed, saving,
                   setting, offset, bridge, deckPlaying, bridgeKeep>>

Frame == (\E i \in Inputs : RunFrame(i)) \/ Fallback \/ LateApply \/ Push

-----------------------------------------------------------------------------
\* The bridge thread, as far as the panel can see it.

panelVars == <<frameVars, menus, choice, tap, pressUsed, saving, setting, offset>>

BridgeUp ==
    /\ ~bridge /\ bridge' = TRUE
    /\ UNCHANGED <<panelVars, role, decks>>

\* apply_master_mode_request(): entering the role.
EntersRole ==
    /\ "role" \in Events /\ access = "none"
    /\ access' = IF applied THEN "forceIgnore" ELSE "loadIgnore"
    /\ request = "enter" /\ request' = "none"
    /\ applied' = TRUE
    /\ UNCHANGED <<panelVars, masterMode, force, ignore, preIgnore, held, overlapped,
                   decks, bridge>>

\* A release appoints a deck first; the role is left later.
AppointsDeck ==
    /\ "role" \in Events /\ access = "none"
    /\ request = "release" /\ request' = "none"
    /\ masterMode /\ applied
    /\ UNCHANGED <<panelVars, masterMode, applied, force, flags, decks, bridge>>

\* leave_master_mode_(): at once on a release, or because a deck has taken the role
\* or has never claimed it.
LeavesRole ==
    /\ "role" \in Events /\ access = "none" /\ access' = "loadPre"
    /\ \/ request = "release" /\ request' = "none"
       \/ masterMode /\ applied /\ UNCHANGED request
    /\ masterMode' = FALSE /\ applied' = FALSE
    /\ UNCHANGED <<panelVars, force, ignore, preIgnore, held, overlapped, decks, bridge>>

\* The accesses that follow, as in MasterRole: set_ignore_master() with the value loaded
\* when the role has been left, and the capture of the source when it has been entered.
Accesses(now, next) ==
    /\ access = now /\ access' = next
    /\ UNCHANGED <<panelVars, masterMode, request, applied, force, deckPlaying, bridgeKeep,
                   bridge>>

LoadPre ==
    /\ Accesses("loadPre", "restorePre")
    /\ held' = preIgnore
    /\ UNCHANGED <<ignore, preIgnore, overlapped, holding>>

RestorePre ==
    /\ Accesses("restorePre", "restoreIgnore")
    /\ preIgnore' = held
    /\ UNCHANGED <<ignore, held, overlapped, holding>>

RestoreIgnore ==
    /\ Accesses("restoreIgnore", "none")
    /\ ignore' = held /\ held' = FALSE
    /\ holding' = (holding /\ ~held)
    /\ UNCHANGED <<preIgnore, overlapped>>

LoadIgnore ==
    /\ Accesses("loadIgnore", "capturePre")
    /\ held' = ignore
    /\ overlapped' = (overlapped \/ (push = "ignore" /\ ignore # (selected = kSourceOff)))
    /\ UNCHANGED <<ignore, preIgnore, holding>>

CapturePre ==
    /\ Accesses("capturePre", "forceIgnore")
    /\ preIgnore' = held /\ held' = FALSE
    /\ UNCHANGED <<ignore, overlapped, holding>>

ForceIgnore ==
    /\ Accesses("forceIgnore", "none")
    /\ ignore' = TRUE
    /\ UNCHANGED <<preIgnore, held, overlapped, holding>>

MoveFlags ==
    \/ LoadPre \/ RestorePre \/ RestoreIgnore
    \/ LoadIgnore \/ CapturePre \/ ForceIgnore

\* The play flag of the deck followed; its end begins a hold under keep-playing.
DeckPlays ==
    /\ "deck" \in Events
    /\ bridge /\ access = "none" /\ ~deckPlaying
    /\ deckPlaying' = TRUE /\ holding' = FALSE
    /\ UNCHANGED <<panelVars, role, bridgeKeep, bridge>>

DeckStops ==
    /\ bridge /\ access = "none" /\ deckPlaying
    /\ deckPlaying' = FALSE
    /\ holding' = (bridgeKeep /\ ~ignore)
    /\ UNCHANGED <<panelVars, role, bridgeKeep, bridge>>

\* A hold that silence begins leaves the play flag as it was.
SilenceHolds ==
    /\ "deck" \in Events
    /\ bridge /\ access = "none" /\ bridgeKeep /\ ~ignore /\ ~holding
    /\ holding' = TRUE
    /\ UNCHANGED <<panelVars, role, deckPlaying, bridgeKeep, bridge>>

Bridge ==
    \/ BridgeUp \/ EntersRole \/ AppointsDeck \/ LeavesRole \/ MoveFlags
    \/ DeckPlays \/ DeckStops \/ SilenceHolds

-----------------------------------------------------------------------------
\* Time, and the power supply.

\* 10 or 12 seconds without a turn of the encoder in a sub-mode.
SubModeIdles ==
    /\ At("frame") /\ mode # "normal" /\ ~idle
    /\ idle' = TRUE
    /\ UNCHANGED <<frameVars, mode, proposed, menuItem, editValue, choice, tap,
                   pressUsed, saving, setting, offset, bridge, role, decks>>

\* Two seconds without a change of the offset.
OffsetSettles ==
    /\ At("frame") /\ saveSeen # saveCommitted /\ ~settled
    /\ settled' = TRUE
    /\ UNCHANGED <<frameVars, menus, choice, tap, pressUsed, saveInit, saveSeen,
                   saveCommitted, nvsOffset, seedTrim, setting, offset, bridge, role,
                   decks>>

\* 400 ms of holding the tap button.
TapAges ==
    /\ At("frame") /\ tap = "clean"
    /\ tap' = "spoilt"
    /\ UNCHANGED <<frameVars, menus, choice, pressUsed, saving, setting, offset,
                   bridge, role, decks>>

\* What has been written to NVS is all there is at the next boot.
PowerFails ==
    /\ "powerFail" \in Events
    /\ UNCHANGED <<setting, nvsOffset>> /\ offset' = nvsOffset
    /\ pc' = "frame" /\ push' = "none" /\ b' = FALSE /\ event' = "none" /\ armed' = TRUE
    /\ mode' = "normal" /\ proposed' = 0 /\ menuItem' = "actAsPlayer"
    /\ editValue' = FALSE /\ idle' = FALSE
    /\ selected' = 0 /\ lastApplied' = 0 /\ srcBefore' = NoSource
    /\ chosen' = 0 /\ unheard' = FALSE
    /\ tap' = "up" /\ pressUsed' = FALSE
    /\ saveInit' = FALSE /\ saveSeen' = 0 /\ saveCommitted' = 0 /\ settled' = FALSE
    /\ seedTrim' = FALSE
    /\ bridge' = FALSE
    /\ masterMode' = FALSE /\ request' = "none" /\ applied' = FALSE
    /\ ignore' = FALSE /\ preIgnore' = FALSE /\ force' = 0
    /\ access' = "none" /\ held' = FALSE /\ overlapped' = FALSE
    /\ deckPlaying' = FALSE /\ holding' = FALSE /\ bridgeKeep' = FALSE

Next == Frame \/ Bridge \/ SubModeIdles \/ OffsetSettles \/ TapAges \/ PowerFails

Spec == Init /\ [][Next]_vars

\* The UI task runs on, one step of its frame after another (which is what weak fairness
\* of Frame comes to, since a frame is always possible), and time passes for it.
Fairness == []<><<pc' # pc>>_vars /\ SF_vars(SubModeIdles) /\ SF_vars(OffsetSettles)
FairSpec == Spec /\ Fairness

-----------------------------------------------------------------------------
\* Properties.

\* The bridge follows the player that source s names, and
Pinned(s) == force = IF s = kSourceOff THEN 0 ELSE s

\* runs by source s, or will when it has left the role.
RunsBy(s) ==
    IF s = kSourceOff
    THEN preIgnore /\ ignore
    ELSE ~preIgnore /\ (ignore => applied \/ access # "none")

InForce(s) == s = kSourceMaster \/ (Pinned(s) /\ RunsBy(s))

\* The selected source is the single source of truth (docs/ui.md:172): between frames
\* the source shown is the one in force, or the one that will be when the role is
\* left.  There are two exceptions: it was confirmed before there was a bridge to hear
\* of it; or its push met the bridge thread between a load of the old choice and the
\* stores that go with it (bridge.cpp:136, and 192 with 310-311), which may then undo
\* it, all but the pin.
ShownIsInForce ==
    (At("frame") /\ ~unheard) =>
        \/ selected = kSourceMaster
        \/ Pinned(selected) /\ (overlapped \/ RunsBy(selected))

\* Without permission to act as a player the master source is neither shown nor about
\* to be announced, whichever way the permission went: by the menu, with the source
\* selected, borrowed in this very frame, or given up by the bridge meanwhile.
MasterIsPermitted ==
    (At("frame") /\ ~setting["actAsPlayer"]) =>
        selected # kSourceMaster /\ ~(masterMode /\ request = "enter")

\* A choice of the operator supersedes what an earlier auto-claim would restore
\* (docs/ui.md:130-131): the panel never returns to a source given up before.
NothingStaleRestored ==
    pc = "frame" => selected \in {chosen, 0, kSourceMaster}

\* A press that backed out of a sub-mode, or counted as tap-tempo, sends no re-sync
\* when it is released, in whatever mode and source that happens (docs/ui.md:149-151).
UsedPressNeverResyncs == event = "resync" => ~pressUsed

\* A sub-mode nobody uses is left (docs/ui.md:91): it does not stand for ever.
SubModesTimeOut ==
    <>[][FALSE]_<<mode, proposed, menuItem, editValue>> => <>[](mode = "normal")

\* An offset that stays as it is will be found again after a power failure
\* (main.cpp:266-269), unless it was trimmed in the very frame that met the bridge.
OffsetReachesNvs == <>[][FALSE]_offset => <>[](seedTrim \/ nvsOffset = offset)

\* What the repository says and the code does not do; see the README.

\* "Holds the tempo and claims sync master" (docs/ui.md:126): an auto-claim lasts
\* beyond the frame that makes it.
ClaimTakesRole == (pc = "frame" /\ event = "claim") => selected = kSourceMaster

\* "Fire once per stop episode" (main.cpp:676): a claim follows a stop.  One made with
\* the play flag up, in a hold that silence began, is made again in the next frame,
\* since the flag arms the latch.
OneClaimPerStop ==
    [][(pc = "frame" /\ pc' = "fallback" /\ event' = "claim") => ~deckPlaying]_vars

\* "including a selection made before Ethernet is up" (docs/ui.md:174).
EarlyChoiceInForce == (At("frame") /\ saveInit /\ ~overlapped) => InForce(selected)

\* "a deliberate player 3 pin survives the box covering a track change"
\* (docs/ui.md:129-130): only the operator gives up a pin.
PinSurvives == (pc = "frame" /\ chosen \in Pins) => selected \in {chosen, kSourceMaster}

\* "Otherwise ... the box stays standalone, while the screen claims it is following"
\* (docs/ui.md:175-177).
NotLeftStandalone ==
    (At("frame") /\ access = "none" /\ ~unheard /\ ~overlapped
        /\ selected \in Followers /\ ignore) => masterMode \/ request # "none"

\* The same, and "A source picked *during* a pending release must win over the value
\* captured when master mode began" (bridge.hpp:296-298), whenever it is picked:
\* ShownIsInForce without its second exception.
EveryChoiceInForce == (At("frame") /\ ~unheard) => InForce(selected)

\* "The nudged offset survives reboots" (main.cpp:266), whenever it was trimmed.
EveryTrimReachesNvs == <>[][FALSE]_offset => <>[](nvsOffset = offset)

=============================================================================
