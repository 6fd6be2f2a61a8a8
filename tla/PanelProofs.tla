---------------------------- MODULE PanelProofs -----------------------------
(***************************************************************************)
(* Theorems about Panel, for any pins, any range of offsets and any inputs *)
(* in a frame.                                                             *)
(***************************************************************************)
EXTENDS Panel, TLAPS

USE DEF kSourceMaster, kSourceOff, NoSource

\* The inputs of a frame have their types.
LEMMA InputTypes ==
    ASSUME NEW i \in Inputs
    PROVE  /\ i.spin \in {0, 1} /\ i.nudge \in {-1, 0, 1}
           /\ i.push \in BOOLEAN /\ i.press \in BOOLEAN /\ i.held \in BOOLEAN
           /\ i.menu \in BOOLEAN
BY DEF Inputs

\* Sources are the numbers of the code.
LEMMA SourceNumbers ==
    /\ Sources \subseteq 0..6
    /\ 0 \in Sources /\ kSourceMaster \in Sources /\ kSourceOff \in Sources
    /\ Followers \subseteq Sources \ {kSourceMaster, kSourceOff}
    /\ NoSource \notin Sources
BY PanelAssumption DEF Sources, Followers

-----------------------------------------------------------------------------
\* What the operator chose, what the box may do, and what the bridge was told.

\* The sources the panel may return to are the operator's last choice and following.
ChoiceInv ==
    /\ selected \in Sources /\ chosen \in Sources
    /\ selected \in {chosen, 0, kSourceMaster}
    /\ srcBefore \in {NoSource, 0, chosen}
    /\ srcBefore # kSourceMaster

\* Only with permission is the master source selected, and only with the source
\* selected is the role about to be entered, if it is not about to be released.
PermitInv ==
    /\ setting \in [Toggles -> BOOLEAN] /\ editValue \in BOOLEAN
    /\ masterMode \in BOOLEAN /\ bridge \in BOOLEAN
    /\ setting["actAsPlayer"] \/ selected # kSourceMaster
    /\ ~bridge => ~masterMode
    /\ b => bridge
    /\ push # "none" => bridge
    /\ push \in {"mode", "enter"} => selected = kSourceMaster
    /\ masterMode /\ request = "enter" => selected = kSourceMaster \/ push = "release"

\* A source that has been pushed is the one the bridge is pinned to.
PinInv ==
    /\ push \in {"release", "preIgnore", "ignore", "force"} =>
          selected # kSourceMaster /\ ~unheard
    /\ (~unheard /\ selected # kSourceMaster /\ push = "none") => Pinned(selected)

\* The operator wants the box standalone.
Off == selected = kSourceOff

\* The store that keeps this choice for the time after the role has been made.
Kept == ~unheard /\ selected # kSourceMaster /\ push \notin {"release", "preIgnore"}

\* Unless the push of a source has met the bridge thread with another one in its hands:
\* what that thread holds is the choice that is kept, outside the role the choice in
\* force is the one that is kept, but between the two stores of a push, and the choice
\* kept is the operator's.
FlagInv ==
    /\ ignore \in BOOLEAN /\ preIgnore \in BOOLEAN /\ applied \in BOOLEAN
    /\ held \in BOOLEAN
    /\ access \in {"loadIgnore", "capturePre", "forceIgnore"} => applied
    /\ ~overlapped =>
        /\ Moving => (held <=> preIgnore)
        /\ ((~applied /\ access = "none") \/ access = "loadIgnore") /\ push # "ignore"
              => (ignore <=> preIgnore)
        /\ Kept => (preIgnore <=> Off)
        /\ Kept /\ Off /\ push # "ignore" => ignore

\* A press that has been used does not become a re-sync.
PressInv ==
    /\ tap = "clean" => ~pressUsed
    /\ event = "resync" => ~pressUsed

PanelInv == ChoiceInv /\ PermitInv /\ PinInv /\ FlagInv /\ PressInv

\* A source that is offered.
LEMMA VisibleSource ==
    ASSUME NEW s
    PROVE  /\ Visible(s) \in Sources
           /\ Visible(s) = kSourceMaster => setting["actAsPlayer"]
BY SourceNumbers DEF Visible, Offered, kSourceMaster

\* What a frame does about the source: it keeps it, but for the latch, or the operator
\* confirms one, or withdraws the permission.
Keeps(i) ==
    /\ KeepSource
    /\ \/ setting' = setting
       \/ /\ ~(menuItem = "actAsPlayer" /\ ~Edited(i) /\ Src = kSourceMaster)
          /\ menuItem \in Toggles /\ setting' = [setting EXCEPT ![menuItem] = Edited(i)]

Confirms(i) ==
    /\ chosen' = Visible(Cursor(i)) /\ selected' = chosen' /\ srcBefore' = NoSource
    /\ setting' = setting
    /\ \/ chosen' # Src /\ Switch(chosen', bridge, Held)
       \/ chosen' = Src /\ NoCall(Held) /\ UNCHANGED <<lastApplied, unheard>>

Deselects(i) ==
    /\ chosen' = chosen /\ srcBefore' = NoSource /\ Switch(0, bridge, Held)
    /\ Src = kSourceMaster
    /\ setting' = [setting EXCEPT !["actAsPlayer"] = FALSE]

\* A frame keeps the source, or the operator chooses one, or withdraws the permission.
LEMMA FrameCases ==
    ASSUME PermitInv, NEW i \in Inputs, RunFrame(i)
    PROVE  Keeps(i) \/ Confirms(i) \/ Deselects(i)
<1>1. CASE Normal(i) \/ Stay(i) \/ OpenItem(i)
    BY <1>1 DEF Normal, Stay, OpenItem, Keeps
<1>2. CASE Cancel(i) \/ IdleOut(i)
    BY <1>2 DEF Cancel, IdleOut, LeaveSubMode, Keeps
<1>3. CASE Confirm(i)
    BY <1>3 DEF Confirm, Confirms, Supersede, Switch
<1>4. CASE Commit(i)
  <2>1. CASE Withdraws(i)
    <3>1. ~Edited(i) /\ menuItem = "actAsPlayer" /\ Edited(i) \in BOOLEAN
        BY <2>1 DEF Withdraws, Edited, PermitInv
    <3>2. Edited(i) = FALSE
        BY <3>1
    <3> QED BY <1>4, <2>1, <3>1, <3>2 DEF Commit, Withdraws, Supersede, Deselects, Toggles
  <2>2. CASE ~Withdraws(i)
      BY <1>4, <2>2 DEF Commit, Withdraws, Keeps
  <2> QED BY <2>1, <2>2
<1> QED BY <1>1, <1>2, <1>3, <1>4 DEF RunFrame

-----------------------------------------------------------------------------
\* The latch borrows the role with permission, and from another source.
LEMMA LatchPermitted ==
    ASSUME ChoiceInv, PermitInv
    PROVE  /\ Src \in Sources
           /\ Src = kSourceMaster => setting["actAsPlayer"]
           /\ Src \in {chosen, 0, kSourceMaster}
           /\ Borrowed \in {NoSource, 0, chosen} /\ Borrowed # kSourceMaster
           /\ selected = kSourceMaster => Src = kSourceMaster
BY SourceNumbers DEF ChoiceInv, PermitInv, Src, Borrowed, Latches

\* After a frame the source given up is still the one to return to.
LEMMA FrameKeepsChoice ==
    ASSUME PanelInv, NEW i \in Inputs, RunFrame(i)
    PROVE  ChoiceInv'
<1>0. ChoiceInv /\ PermitInv
    BY DEF PanelInv
<1>1. CASE Keeps(i)
    BY <1>0, <1>1, LatchPermitted DEF Keeps, KeepSource, ChoiceInv
<1>2. CASE Confirms(i)
    BY <1>2, VisibleSource, SourceNumbers DEF Confirms, ChoiceInv
<1>3. CASE Deselects(i)
    BY <1>0, <1>3, SourceNumbers DEF Deselects, Switch, ChoiceInv
<1> QED BY <1>0, <1>1, <1>2, <1>3, FrameCases

\* A switch to a source that is permitted, pushed to a bridge that is there.
LEMMA SwitchPermits ==
    ASSUME PermitInv, push = "none", NEW s, NEW found \in BOOLEAN, NEW h,
           Switch(s, found, h),
           bridge' = bridge, found => bridge, ~found => ~bridge, b' => bridge,
           setting' \in [Toggles -> BOOLEAN], editValue' \in BOOLEAN,
           setting'["actAsPlayer"] \/ s # kSourceMaster
    PROVE  PermitInv'
<1>1. selected' = s /\ masterMode' = masterMode /\ request' = request
    BY DEF Switch, role
<1>2. CASE ~found
  <2>1. push' = "none" /\ ~masterMode
      BY <1>2 DEF Switch, PermitInv
  <2> QED BY <1>1, <2>1 DEF PermitInv
<1>3. CASE found /\ s = kSourceMaster
  <2>1. push' = "mode"
      BY <1>3 DEF Switch
  <2> QED BY <1>1, <1>3, <2>1 DEF PermitInv
<1>4. CASE found /\ s # kSourceMaster
  <2>1. push' = IF masterMode THEN "release" ELSE "preIgnore"
      BY <1>4 DEF Switch
  <2> QED BY <1>1, <1>4, <2>1 DEF PermitInv
<1> QED BY <1>2, <1>3, <1>4

\* After a frame the role is borrowed or chosen only with permission.
LEMMA FrameKeepsPermit ==
    ASSUME PanelInv, NEW i \in Inputs, RunFrame(i)
    PROVE  PermitInv'
<1>0. ChoiceInv /\ PermitInv
    BY DEF PanelInv
<1>1. bridge' = bridge /\ b' = bridge
    BY DEF RunFrame
<1>2. Edited(i) \in BOOLEAN
    BY <1>0 DEF Edited, PermitInv
<1>3. editValue' \in BOOLEAN
  <2>1. CASE Normal(i)
      BY <2>1, <1>0 DEF Normal, PermitInv
  <2>2. CASE Confirm(i)
      BY <2>2, <1>0 DEF Confirm, PermitInv
  <2>3. CASE Cancel(i) \/ IdleOut(i)
      BY <2>3 DEF Cancel, IdleOut, LeaveSubMode
  <2>4. CASE Stay(i)
      BY <2>4, <1>2 DEF Stay
  <2>5. CASE OpenItem(i)
      BY <2>5, <1>0 DEF OpenItem, PermitInv
  <2>6. CASE Commit(i)
      BY <2>6 DEF Commit
  <2> QED BY <2>1, <2>2, <2>3, <2>4, <2>5, <2>6 DEF RunFrame
<1>4. setting' \in [Toggles -> BOOLEAN]
  <2>1. CASE Keeps(i)
      BY <1>0, <1>2, <2>1 DEF Keeps, PermitInv, Toggles
  <2>2. CASE Confirms(i)
      BY <1>0, <2>2 DEF Confirms, PermitInv
  <2>3. CASE Deselects(i)
      BY <1>0, <2>3 DEF Deselects, PermitInv, Toggles
  <2> QED BY <1>0, <2>1, <2>2, <2>3, FrameCases
<1>5. CASE Keeps(i)
  <2>1. masterMode' = masterMode /\ request' = request /\ selected' = Src
        /\ push' = push
      BY <1>5 DEF Keeps, KeepSource, NoCall, role
  <2>2. setting'["actAsPlayer"] \/ Src # kSourceMaster
    <3>1. CASE setting' = setting
        BY <1>0, <3>1, LatchPermitted
    <3>2. CASE menuItem \in Toggles /\ setting' = [setting EXCEPT ![menuItem] = Edited(i)]
               /\ ~(menuItem = "actAsPlayer" /\ ~Edited(i) /\ Src = kSourceMaster)
        BY <1>0, <1>2, <3>2, LatchPermitted DEF PermitInv, Toggles
    <3> QED BY <1>5, <3>1, <3>2 DEF Keeps
  <2> QED BY <1>0, <1>1, <1>3, <1>4, <2>1, <2>2, LatchPermitted DEF PermitInv
<1>6. CASE Confirms(i)
  <2>1. setting'["actAsPlayer"] \/ selected' # kSourceMaster
      BY <1>6, VisibleSource DEF Confirms
  <2>2. CASE chosen' = Src /\ NoCall(Held)
    <3>1. masterMode' = masterMode /\ request' = request /\ selected' = Src
          /\ push' = push
        BY <1>6, <2>2 DEF Confirms, NoCall, role
    <3> QED BY <1>0, <1>1, <1>3, <1>4, <2>1, <3>1, LatchPermitted DEF PermitInv
  <2>3. CASE Switch(chosen', bridge, Held)
    <3>1. selected' = chosen' /\ push = "none"
        BY <1>6 DEF Confirms, RunFrame, At
    <3> QED BY <1>0, <1>1, <1>3, <1>4, <2>1, <2>3, <3>1, SwitchPermits DEF PermitInv
  <2> QED BY <1>6, <2>2, <2>3 DEF Confirms
<1>7. CASE Deselects(i)
  <2>1. push = "none" /\ Switch(0, bridge, Held)
      BY <1>7 DEF Deselects, RunFrame, At
  <2> QED BY <1>0, <1>1, <1>3, <1>4, <2>1, SwitchPermits DEF PermitInv
<1> QED BY <1>0, <1>5, <1>6, <1>7, FrameCases

\* A switch begins the stores of a push, or is not heard of.
LEMMA SwitchForces ==
    ASSUME PinInv, FlagInv, push = "none", NEW s \in Sources, NEW found \in BOOLEAN,
           NEW h, Switch(s, found, h)
    PROVE  PinInv' /\ FlagInv'
<1>1. selected' = s /\ unheard' = (~found) /\ UNCHANGED role
    BY DEF Switch
<1>2. CASE ~found
  <2>1. push' = "none" /\ unheard'
      BY <1>1, <1>2 DEF Switch
  <2> QED BY <1>1, <2>1 DEF role, flags, PinInv, FlagInv, Kept, Moving
<1>3. CASE found /\ s = kSourceMaster
  <2>1. push' = "mode"
      BY <1>3 DEF Switch
  <2> QED BY <1>1, <1>3, <2>1 DEF role, flags, PinInv, FlagInv, Kept, Moving
<1>4. CASE found /\ s # kSourceMaster
  <2>1. push' \in {"release", "preIgnore"} /\ ~unheard'
      BY <1>1, <1>4 DEF Switch
  <2> QED BY <1>1, <1>4, <2>1 DEF role, flags, PinInv, FlagInv, Kept, Moving
<1> QED BY <1>2, <1>3, <1>4

\* A source that is kept, or borrowed for the role, stays in force.
LEMMA KeptForces ==
    ASSUME PinInv, FlagInv, push' = push, UNCHANGED <<role, unheard>>, push = "none",
           selected' = selected \/ selected' = kSourceMaster
    PROVE  PinInv' /\ FlagInv'
<1>1. CASE selected' = selected
    BY <1>1 DEF role, flags, PinInv, FlagInv, Pinned, Kept, Off, Moving
<1>2. CASE selected' = kSourceMaster
    BY <1>2 DEF role, flags, PinInv, FlagInv, Kept, Moving
<1> QED BY <1>1, <1>2

\* After a frame the source shown and the bridge's own choice still agree.
LEMMA FrameKeepsForce ==
    ASSUME PanelInv, NEW i \in Inputs, RunFrame(i)
    PROVE  PinInv' /\ FlagInv'
<1>0. ChoiceInv /\ PermitInv /\ PinInv /\ FlagInv /\ push = "none"
    BY DEF PanelInv, RunFrame, At
<1>1. Src = selected \/ Src = kSourceMaster
    BY DEF Src
<1>2. CASE Keeps(i)
  <2>1. selected' = Src /\ push' = push /\ UNCHANGED <<role, unheard>>
      BY <1>2 DEF Keeps, KeepSource, NoCall
  <2> QED BY <1>0, <1>1, <2>1, KeptForces
<1>3. CASE Confirms(i)
  <2>1. CASE chosen' = Src /\ NoCall(Held) /\ UNCHANGED <<lastApplied, unheard>>
    <3>1. selected' = Src /\ push' = push /\ UNCHANGED <<role, unheard>>
        BY <1>3, <2>1 DEF Confirms, NoCall
    <3> QED BY <1>0, <1>1, <3>1, KeptForces
  <2>2. CASE Switch(chosen', bridge, Held)
    <3>1. chosen' \in Sources
        BY <1>3, VisibleSource DEF Confirms
    <3> QED BY <1>0, <2>2, <3>1, SwitchForces DEF PermitInv
  <2> QED BY <1>3, <2>1, <2>2 DEF Confirms
<1>4. CASE Deselects(i)
    BY <1>0, <1>4, SwitchForces, SourceNumbers DEF Deselects, PermitInv
<1> QED BY <1>0, <1>2, <1>3, <1>4, FrameCases

\* After a frame a press that was used sends no re-sync.
LEMMA FrameKeepsPress ==
    ASSUME PanelInv, NEW i \in Inputs, RunFrame(i)
    PROVE  PressInv'
<1> USE InputTypes DEF PanelInv, PressInv, Pressed, TapAfter, Gesture, Claimed
<1>1. CASE Normal(i)
    BY <1>1 DEF Normal
<1>2. CASE Confirm(i)
    BY <1>2 DEF Confirm
<1>3. CASE Cancel(i) \/ IdleOut(i)
    BY <1>3 DEF Cancel, IdleOut, LeaveSubMode
<1>4. CASE Stay(i)
    BY <1>4 DEF Stay
<1>5. CASE OpenItem(i)
    BY <1>5 DEF OpenItem
<1>6. CASE Commit(i)
    BY <1>6 DEF Commit
<1> QED BY <1>1, <1>2, <1>3, <1>4, <1>5, <1>6 DEF RunFrame

-----------------------------------------------------------------------------
\* The fallback restores what the role was borrowed from; the end of the frame pushes
\* what the bridge has not heard.
LEMMA EndOfFrameKeeps ==
    ASSUME PanelInv, Fallback \/ LateApply
    PROVE  PanelInv'
<1>0. ChoiceInv /\ PermitInv /\ PinInv /\ FlagInv /\ PressInv
    BY DEF PanelInv
<1>1. CASE Fallback
  <2>1. Restored \in {0, chosen} /\ Restored # kSourceMaster /\ Restored \in Sources
      BY <1>0, SourceNumbers DEF Restored, ChoiceInv
  <2>2. PressInv'
      BY <1>0, <1>1 DEF Fallback, PressInv
  <2>3. CASE b /\ selected = kSourceMaster /\ ~masterMode
    <3>1. Switch(Restored, TRUE, holding) /\ srcBefore' = NoSource
          /\ chosen' = chosen /\ setting' = setting /\ bridge' = bridge /\ b' = b
          /\ editValue' = editValue /\ push = "none"
        BY <1>1, <2>3 DEF Fallback, menus, At
    <3>2. selected' = Restored
        BY <3>1 DEF Switch
    <3>3. ChoiceInv'
        BY <1>0, <2>1, <3>1, <3>2 DEF ChoiceInv
    <3>4. PermitInv'
        BY <1>0, <2>1, <2>3, <3>1, SwitchPermits DEF PermitInv
    <3>5. PinInv' /\ FlagInv'
        BY <1>0, <2>1, <3>1, SwitchForces
    <3> QED BY <2>2, <3>3, <3>4, <3>5 DEF PanelInv
  <2>4. CASE ~(b /\ selected = kSourceMaster /\ ~masterMode)
    <3>1. UNCHANGED <<selected, srcBefore, unheard, push, role, chosen, setting,
                      editValue, bridge, b>> /\ push = "none"
        BY <1>1, <2>4 DEF Fallback, menus, NoCall, At
    <3>2. ChoiceInv'
        BY <1>0, <3>1 DEF ChoiceInv
    <3>3. PermitInv'
        BY <1>0, <3>1 DEF PermitInv, role
    <3>4. PinInv' /\ FlagInv'
        BY <1>0, <3>1, KeptForces
    <3> QED BY <2>2, <3>2, <3>3, <3>4 DEF PanelInv
  <2> QED BY <2>3, <2>4
<1>2. CASE LateApply
  <2>1. PressInv'
      BY <1>0, <1>2 DEF LateApply, PressInv
  <2>2. CASE b /\ lastApplied # selected
    <3>1. Switch(selected, TRUE, holding) /\ srcBefore' = srcBefore
          /\ chosen' = chosen /\ setting' = setting /\ bridge' = bridge /\ b' = FALSE
          /\ editValue' = editValue /\ push = "none"
        BY <1>2, <2>2 DEF LateApply, menus, At
    <3>2. selected' = selected
        BY <3>1 DEF Switch
    <3>3. ChoiceInv'
        BY <1>0, <3>1, <3>2 DEF ChoiceInv
    <3>4. PermitInv'
        BY <1>0, <2>2, <3>1, SwitchPermits DEF PermitInv
    <3>5. PinInv' /\ FlagInv'
        BY <1>0, <3>1, SwitchForces DEF ChoiceInv
    <3> QED BY <2>1, <3>3, <3>4, <3>5 DEF PanelInv
  <2>3. CASE ~(b /\ lastApplied # selected)
    <3>1. /\ UNCHANGED <<selected, srcBefore, unheard, push, role, chosen, setting,
                         editValue, bridge>>
          /\ b' = FALSE /\ push = "none"
        BY <1>2, <2>3 DEF LateApply, menus, NoCall, At
    <3>2. ChoiceInv'
        BY <1>0, <3>1 DEF ChoiceInv
    <3>3. PermitInv'
        BY <1>0, <3>1 DEF PermitInv, role
    <3>4. PinInv' /\ FlagInv'
        BY <1>0, <3>1, KeptForces
    <3> QED BY <2>1, <3>2, <3>3, <3>4 DEF PanelInv
  <2> QED BY <2>2, <2>3
<1> QED BY <1>1, <1>2

\* Each store of a push keeps the invariant, wherever the bridge thread is.
LEMMA PushKeeps ==
    ASSUME PanelInv, Push
    PROVE  PanelInv'
<1>0. ChoiceInv /\ PermitInv /\ PinInv /\ FlagInv /\ PressInv
    BY DEF PanelInv
<1>1. UNCHANGED <<pc, b, event, menus, choice, tap, pressUsed, setting, bridge, applied,
                  access, held>>
    BY DEF Push, StoreMasterMode, StoreRequest, StorePreIgnore, StoreIgnore, StoreForce,
           Stores
<1>2. ChoiceInv' /\ PressInv'
    BY <1>0, <1>1 DEF choice, ChoiceInv, PressInv
<1>3. /\ selected' = selected /\ unheard' = unheard /\ (Off' <=> Off)
      /\ Moving' <=> Moving
    BY <1>1 DEF choice, Off, Moving
<1>4. CASE StoreMasterMode
  <2>1. push = "mode" /\ push' = "enter" /\ masterMode' = TRUE
        /\ UNCHANGED <<request, ignore, preIgnore, overlapped, force>>
      BY <1>4 DEF StoreMasterMode, Stores
  <2>2. PermitInv' /\ PinInv'
      BY <1>0, <1>1, <1>3, <2>1 DEF PermitInv, PinInv, menus
  <2>3. FlagInv'
      BY <1>0, <1>1, <1>3, <2>1 DEF FlagInv, PermitInv, Kept
  <2> QED BY <1>2, <2>2, <2>3 DEF PanelInv
<1>5. CASE StoreRequest
  <2>1. /\ \/ push = "enter" /\ push' = "none"
           \/ push = "release" /\ push' = "preIgnore"
        /\ request' = push
        /\ UNCHANGED <<masterMode, ignore, preIgnore, overlapped, force>>
      BY <1>5 DEF StoreRequest, Stores
  <2>2. PermitInv'
      BY <1>0, <1>1, <1>3, <2>1 DEF PermitInv, menus
  <2>3. PinInv'
      BY <1>0, <1>3, <2>1 DEF PermitInv, PinInv
  <2>4. FlagInv'
      BY <1>0, <1>1, <1>3, <2>1 DEF FlagInv, PermitInv, Kept
  <2> QED BY <1>2, <2>2, <2>3, <2>4 DEF PanelInv
<1>6. CASE StorePreIgnore
  <2>1. push = "preIgnore" /\ push' = "ignore"
        /\ UNCHANGED <<masterMode, request, ignore, force>>
      BY <1>6 DEF StorePreIgnore, Stores
  <2>2. (preIgnore' <=> Off) /\ preIgnore' \in BOOLEAN
        /\ (overlapped' <=> (Moving /\ held # preIgnore'))
      BY <1>6 DEF StorePreIgnore, Off
  <2>3. PermitInv' /\ PinInv'
      BY <1>0, <1>1, <1>3, <2>1 DEF PermitInv, PinInv, menus
  <2>4. held' = held /\ (~overlapped' /\ Moving' => (held' <=> preIgnore'))
      BY <1>0, <1>1, <1>3, <2>2 DEF FlagInv
  <2>5. FlagInv'
      BY <1>0, <1>1, <1>3, <2>1, <2>2, <2>4 DEF FlagInv
  <2> QED BY <1>2, <2>3, <2>5 DEF PanelInv
<1>7. CASE StoreIgnore
  <2>1. push = "ignore" /\ push' = "force"
        /\ UNCHANGED <<masterMode, request, preIgnore, overlapped, force>>
      BY <1>7 DEF StoreIgnore, Stores
  <2>2. (ignore' <=> Off) /\ ignore' \in BOOLEAN
      BY <1>7 DEF StoreIgnore, Off
  <2>3. PermitInv' /\ PinInv'
      BY <1>0, <1>1, <1>3, <2>1 DEF PermitInv, PinInv, menus
  <2>4. Kept /\ Kept'
      BY <1>0, <1>3, <2>1 DEF Kept, PinInv
  <2>5. FlagInv'
      BY <1>0, <1>1, <1>3, <2>1, <2>2, <2>4 DEF FlagInv
  <2> QED BY <1>2, <2>3, <2>5 DEF PanelInv
<1>8. CASE StoreForce
  <2>1. push = "force" /\ push' = "none"
        /\ UNCHANGED <<masterMode, request, ignore, preIgnore, overlapped>>
      BY <1>8 DEF StoreForce, Stores
  <2>2. Pinned(selected)'
      BY <1>3, <1>8 DEF StoreForce, Pinned
  <2>3. PermitInv' /\ PinInv'
      BY <1>0, <1>1, <1>3, <2>1, <2>2 DEF PermitInv, PinInv, menus
  <2>4. FlagInv'
      BY <1>0, <1>1, <1>3, <2>1 DEF FlagInv, PinInv, Kept
  <2> QED BY <1>2, <2>3, <2>4 DEF PanelInv
<1> QED BY <1>4, <1>5, <1>6, <1>7, <1>8 DEF Push

\* Each access by which the bridge thread moves the flags keeps it too.
LEMMA MoveFlagsKeep ==
    ASSUME PinInv, FlagInv, MoveFlags
    PROVE  FlagInv'
<1>1. UNCHANGED <<panelVars, applied>>
    BY DEF MoveFlags, LoadPre, RestorePre, RestoreIgnore, LoadIgnore, CapturePre,
           ForceIgnore, Accesses
<1>2. /\ selected' = selected /\ unheard' = unheard /\ push' = push /\ applied' = applied
      /\ (Off' <=> Off) /\ (Kept' <=> Kept)
    BY <1>1 DEF panelVars, frameVars, choice, Off, Kept
<1>3. CASE LoadPre
  <2>1. access' = "restorePre" /\ held' = preIgnore
        /\ UNCHANGED <<ignore, preIgnore, overlapped>>
      BY <1>3 DEF LoadPre, Accesses
  <2> QED BY <1>2, <2>1 DEF FlagInv, Moving
<1>4. CASE RestorePre
  <2>1. access = "restorePre" /\ access' = "restoreIgnore" /\ preIgnore' = held
        /\ UNCHANGED <<ignore, held, overlapped>>
      BY <1>4 DEF RestorePre, Accesses
  <2> QED BY <1>2, <2>1 DEF FlagInv, Moving
<1>5. CASE RestoreIgnore
  <2>1. access = "restoreIgnore" /\ access' = "none" /\ ignore' = held
        /\ held' = FALSE /\ UNCHANGED <<preIgnore, overlapped>>
      BY <1>5 DEF RestoreIgnore, Accesses
  <2> QED BY <1>2, <2>1 DEF FlagInv, Moving
<1>6. CASE LoadIgnore
  <2>1. access = "loadIgnore" /\ access' = "capturePre" /\ held' = ignore
        /\ UNCHANGED <<ignore, preIgnore>>
      BY <1>6 DEF LoadIgnore, Accesses
  <2>2. ~overlapped' => ~overlapped /\ (push = "ignore" => (ignore <=> Off))
      BY <1>6 DEF LoadIgnore, FlagInv, Off
  <2>3. push = "ignore" => Kept
      BY DEF Kept, PinInv
  <2> QED BY <1>2, <2>1, <2>2, <2>3 DEF FlagInv, Moving
<1>7. CASE CapturePre
  <2>1. access = "capturePre" /\ access' = "forceIgnore" /\ preIgnore' = held
        /\ held' = FALSE /\ UNCHANGED <<ignore, overlapped>>
      BY <1>7 DEF CapturePre, Accesses
  <2> QED BY <1>2, <2>1 DEF FlagInv, Moving
<1>8. CASE ForceIgnore
  <2>1. access = "forceIgnore" /\ access' = "none" /\ ignore' = TRUE
        /\ UNCHANGED <<preIgnore, held, overlapped>>
      BY <1>8 DEF ForceIgnore, Accesses
  <2> QED BY <1>2, <2>1 DEF FlagInv, Moving
<1> QED BY <1>3, <1>4, <1>5, <1>6, <1>7, <1>8 DEF MoveFlags

\* The bridge thread writes only its own: it takes up a request, leaves the role, or
\* moves the flags on.
LEMMA BridgeKeeps ==
    ASSUME PanelInv, Bridge
    PROVE  PanelInv'
<1>0. ChoiceInv /\ PermitInv /\ PinInv /\ FlagInv /\ PressInv
    BY DEF PanelInv
<1> USE DEF LoadPre, RestorePre, RestoreIgnore, LoadIgnore, CapturePre, ForceIgnore,
            Accesses
<1>1. UNCHANGED panelVars /\ force' = force
    BY DEF Bridge, BridgeUp, EntersRole, AppointsDeck, LeavesRole, MoveFlags, DeckPlays,
           DeckStops, SilenceHolds, role
<1>2. ChoiceInv' /\ PressInv' /\ PinInv'
    BY <1>0, <1>1 DEF panelVars, frameVars, choice, ChoiceInv, PressInv, PinInv, Pinned
<1>3. PermitInv'
  <2>1. bridge \in BOOLEAN /\ bridge' \in BOOLEAN /\ (bridge => bridge')
        /\ (masterMode' => masterMode) /\ masterMode' \in BOOLEAN
        /\ (masterMode' /\ request' = "enter" => request = "enter")
        /\ (~bridge' => ~masterMode')
    <3>1. CASE BridgeUp
        BY <1>0, <3>1 DEF BridgeUp, PermitInv, role
    <3>2. CASE EntersRole
        BY <1>0, <3>2 DEF EntersRole, PermitInv
    <3>3. CASE AppointsDeck
        BY <1>0, <3>3 DEF AppointsDeck, PermitInv
    <3>4. CASE LeavesRole
        BY <1>0, <3>4 DEF LeavesRole, PermitInv
    <3>5. CASE DeckPlays \/ DeckStops \/ SilenceHolds
        BY <1>0, <3>5 DEF DeckPlays, DeckStops, SilenceHolds, PermitInv, role
    <3>6. CASE MoveFlags
        BY <1>0, <3>6 DEF MoveFlags, PermitInv
    <3> QED BY <3>1, <3>2, <3>3, <3>4, <3>5, <3>6 DEF Bridge
  <2> QED BY <1>0, <1>1, <2>1 DEF panelVars, frameVars, choice, menus, PermitInv
<1>4. FlagInv'
  <2>1. /\ selected' = selected /\ unheard' = unheard /\ push' = push
        /\ (Off' <=> Off) /\ (Kept' <=> Kept)
      BY <1>1 DEF panelVars, frameVars, choice, Off, Kept
  <2>2. CASE BridgeUp \/ AppointsDeck \/ DeckPlays \/ DeckStops \/ SilenceHolds
    <3>1. UNCHANGED <<applied, flags>>
        BY <2>2 DEF BridgeUp, AppointsDeck, DeckPlays, DeckStops, SilenceHolds, role
    <3> QED BY <1>0, <2>1, <3>1 DEF flags, FlagInv, Moving
  <2>3. CASE EntersRole
    <3>1. /\ access = "none" /\ access' = (IF applied THEN "forceIgnore" ELSE "loadIgnore")
          /\ applied' = TRUE /\ UNCHANGED <<ignore, preIgnore, held, overlapped>>
        BY <2>3 DEF EntersRole
    <3> QED BY <1>0, <2>1, <3>1 DEF FlagInv, Moving
  <2>4. CASE LeavesRole
    <3>1. /\ access' = "loadPre" /\ applied' = FALSE
          /\ UNCHANGED <<ignore, preIgnore, held, overlapped>>
        BY <2>4 DEF LeavesRole
    <3> QED BY <1>0, <2>1, <3>1 DEF FlagInv, Moving
  <2> QED BY <1>0, <2>2, <2>3, <2>4, MoveFlagsKeep DEF Bridge
<1> QED BY <1>0, <1>2, <1>3, <1>4 DEF PanelInv

\* Time only spoils a tap, and a boot begins like the first one.
LEMMA TimeKeeps ==
    ASSUME PanelInv, SubModeIdles \/ OffsetSettles \/ TapAges \/ PowerFails
    PROVE  PanelInv'
<1> USE DEF PanelInv, ChoiceInv, PermitInv, PinInv, Pinned, FlagInv, PressInv, Kept, Off,
            Moving
<1>1. CASE SubModeIdles
    BY <1>1 DEF SubModeIdles, frameVars, choice, role, flags
<1>2. CASE OffsetSettles
    BY <1>2 DEF OffsetSettles, frameVars, choice, menus, role, flags
<1>3. CASE TapAges
    BY <1>3 DEF TapAges, frameVars, choice, menus, role, flags
<1>4. CASE PowerFails
  <2>1. ChoiceInv' /\ PressInv'
      BY <1>4, SourceNumbers DEF PowerFails
  <2>2. PermitInv'
    <3>1. /\ setting' = setting /\ selected' = 0 /\ request' = "none"
          /\ ~masterMode' /\ ~b' /\ ~editValue' /\ push' = "none"
        BY <1>4 DEF PowerFails
    <3>2. masterMode' \in BOOLEAN /\ bridge' \in BOOLEAN /\ editValue' \in BOOLEAN
        BY <1>4, Zenon DEF PowerFails
    <3> QED BY <3>1, <3>2
  <2>3. PinInv' /\ FlagInv'
    <3>1. selected' = 0 /\ force' = 0 /\ ~preIgnore' /\ ~ignore' /\ ~applied' /\ ~held'
          /\ push' = "none" /\ access' = "none"
        BY <1>4 DEF PowerFails
    <3>2. ignore' \in BOOLEAN /\ preIgnore' \in BOOLEAN /\ applied' \in BOOLEAN
          /\ held' \in BOOLEAN
        BY <1>4, Zenon DEF PowerFails
    <3> QED BY <3>1, <3>2
  <2> QED BY <2>1, <2>2, <2>3
<1> QED BY <1>1, <1>2, <1>3, <1>4

\* The five parts of the invariant are inductive together: a frame, the end of a frame,
\* a store of a push, the bridge thread, time and a boot each keep them.
THEOREM PanelInvariant == Spec => []PanelInv
<1>1. Init => PanelInv
  <2> SUFFICES ASSUME Init PROVE PanelInv
      OBVIOUS
  <2>1. ChoiceInv /\ PressInv
      BY SourceNumbers DEF Init, ChoiceInv, PressInv
  <2>2. PermitInv
    <3>1. /\ setting \in [Toggles -> BOOLEAN] /\ selected = 0 /\ request = "none"
          /\ ~masterMode /\ ~b /\ push = "none"
        BY DEF Init
    <3>2. masterMode \in BOOLEAN /\ bridge \in BOOLEAN /\ editValue \in BOOLEAN
        BY Zenon DEF Init
    <3> QED BY <3>1, <3>2 DEF PermitInv
  <2>3. PinInv /\ FlagInv
    <3>1. selected = 0 /\ force = 0 /\ ~preIgnore /\ ~ignore /\ ~applied /\ ~held
          /\ push = "none" /\ access = "none"
        BY DEF Init
    <3>2. ignore \in BOOLEAN /\ preIgnore \in BOOLEAN /\ applied \in BOOLEAN
          /\ held \in BOOLEAN
        BY Zenon DEF Init
    <3> QED BY <3>1, <3>2 DEF PinInv, Pinned, FlagInv, Kept, Off, Moving
  <2> QED BY <2>1, <2>2, <2>3 DEF PanelInv
<1>2. PanelInv /\ [Next]_vars => PanelInv'
  <2> SUFFICES ASSUME PanelInv, [Next]_vars
               PROVE  PanelInv'
      OBVIOUS
  <2>1. ASSUME NEW i \in Inputs, RunFrame(i) PROVE PanelInv'
      BY <2>1, FrameKeepsChoice, FrameKeepsPermit, FrameKeepsForce, FrameKeepsPress
         DEF PanelInv
  <2>2. CASE UNCHANGED vars
      BY <2>2 DEF vars, frameVars, choice, menus, role, flags, PanelInv, ChoiceInv,
                  PermitInv, PinInv, Pinned, FlagInv, Kept, Off, Moving, PressInv
  <2> QED BY <2>1, <2>2, EndOfFrameKeeps, PushKeeps, BridgeKeeps, TimeKeeps DEF Next, Frame
<1> QED BY <1>1, <1>2, PTL DEF Spec

-----------------------------------------------------------------------------
\* The type invariant, in parts.
SourceTypes ==
    /\ selected \in Sources /\ lastApplied \in Sources /\ chosen \in Sources
    /\ srcBefore \in Sources \cup {NoSource}
    /\ unheard \in BOOLEAN
    /\ masterMode \in BOOLEAN /\ applied \in BOOLEAN /\ ignore \in BOOLEAN
    /\ preIgnore \in BOOLEAN /\ holding \in BOOLEAN
    /\ request \in {"none", "enter", "release"}
    /\ force \in Followers
    /\ push \in {"none", "mode", "enter", "release", "preIgnore", "ignore", "force"}
    /\ access \in {"none", "loadPre", "restorePre", "restoreIgnore",
                   "loadIgnore", "capturePre", "forceIgnore"}
    /\ held \in BOOLEAN /\ overlapped \in BOOLEAN

ScreenTypes ==
    /\ mode \in {"normal", "select", "menu", "edit"}
    /\ proposed \in Sources
    /\ menuItem \in Items
    /\ editValue \in BOOLEAN /\ idle \in BOOLEAN
    /\ tap \in {"up", "clean", "spoilt", "unread"}
    /\ pressUsed \in BOOLEAN
    /\ event \in {"none", "claim", "resync"}
    /\ setting \in [Toggles -> BOOLEAN]
    /\ offset \in 0..MaxOffset

SaveTypes ==
    /\ saveInit \in BOOLEAN /\ settled \in BOOLEAN /\ seedTrim \in BOOLEAN
    /\ saveSeen \in 0..MaxOffset /\ saveCommitted \in 0..MaxOffset
    /\ nvsOffset \in 0..MaxOffset

OtherTypes ==
    /\ pc \in {"frame", "fallback", "late"}
    /\ b \in BOOLEAN /\ armed \in BOOLEAN /\ bridge \in BOOLEAN
    /\ deckPlaying \in BOOLEAN /\ bridgeKeep \in BOOLEAN

TypeInv == SourceTypes /\ ScreenTypes /\ SaveTypes /\ OtherTypes

\* A set of the numbers of sources has a smallest one.
LEMMA Smallest ==
    ASSUME NEW S, S \subseteq 0..6, S # {}
    PROVE  \E o \in S : \A p \in S : o <= p
<1>1. ASSUME NEW n \in 0..6, n \in S, \A m \in 0..6 : m < n => m \notin S
      PROVE  \E o \in S : \A p \in S : o <= p
  <2>1. \A p \in S : n <= p
      BY <1>1
  <2> QED BY <1>1, <2>1
<1>2. CASE 0 \in S
    BY <1>1, <1>2
<1>3. CASE 0 \notin S /\ 1 \in S
    BY <1>1, <1>3
<1>4. CASE 0 \notin S /\ 1 \notin S /\ 2 \in S
    BY <1>1, <1>4
<1>5. CASE 0 \notin S /\ 1 \notin S /\ 2 \notin S /\ 3 \in S
    BY <1>1, <1>5
<1>6. CASE 0 \notin S /\ 1 \notin S /\ 2 \notin S /\ 3 \notin S
  <2>1. S \subseteq {4, 5, 6}
      BY <1>6
  <2>2. CASE 4 \in S
      BY <1>1, <1>6, <2>1, <2>2
  <2>3. CASE 4 \notin S /\ 5 \in S
      BY <1>1, <1>6, <2>1, <2>3
  <2>4. CASE 4 \notin S /\ 5 \notin S
    <3>1. \A p \in S : p = 6
        BY <2>1, <2>4
    <3>2. PICK o \in S : TRUE
        OBVIOUS
    <3>3. o = 6 /\ \A p \in S : o <= p
        BY <3>1, <3>2
    <3> QED BY <3>2, <3>3
  <2> QED BY <2>2, <2>3, <2>4
<1> QED BY <1>2, <1>3, <1>4, <1>5, <1>6

\* A source follows every source in the round of those offered.
LEMMA NextIsSource == ASSUME NEW s \in Sources PROVE NextSource(s) \in Sources
<1> DEFINE after == {o \in Offered : o > Visible(s)}
<1>1. after \subseteq 0..6 /\ after \subseteq Sources
    BY SourceNumbers DEF Offered
<1>2. CASE after = {}
    BY <1>2, SourceNumbers DEF NextSource
<1>3. CASE after # {}
  <2> HIDE DEF after
  <2>1. \E o \in after : \A p \in after : o <= p
      BY <1>1, <1>3, Smallest
  <2>2. (CHOOSE o \in after : \A p \in after : o <= p) \in after
      BY <2>1
  <2> QED BY <1>1, <1>3, <2>2 DEF NextSource, after
<1> QED BY <1>2, <1>3

\* A switch keeps the types of what it writes.
LEMMA SwitchTypes ==
    ASSUME SourceTypes, NEW s \in Sources, NEW found \in BOOLEAN, NEW h \in BOOLEAN,
           Switch(s, found, h), chosen' \in Sources,
           srcBefore' \in Sources \cup {NoSource}
    PROVE  SourceTypes'
<1>1. selected' = s /\ lastApplied' = s /\ UNCHANGED role
    BY DEF Switch
<1>2. unheard' \in BOOLEAN /\ holding' \in BOOLEAN
    BY Zenon DEF Switch
<1>3. push' \in {"none", "mode", "release", "preIgnore"}
    BY DEF Switch
<1> QED BY <1>1, <1>2, <1>3 DEF SourceTypes, role, flags

\* A store of a push keeps the types of what it writes.
LEMMA PushTypes ==
    ASSUME SourceTypes, PinInv, Push
    PROVE  SourceTypes'
<1>1. UNCHANGED <<choice, applied, access, held>>
    BY DEF Push, StoreMasterMode, StoreRequest, StorePreIgnore, StoreIgnore, StoreForce,
           Stores
<1>2. push' \in {"none", "enter", "preIgnore", "ignore", "force"}
    BY DEF Push, StoreMasterMode, StoreRequest, StorePreIgnore, StoreIgnore, StoreForce,
           Stores
<1> USE <1>1, <1>2 DEF choice
<1>3. CASE StoreMasterMode
  <2>1. masterMode' \in BOOLEAN
        /\ UNCHANGED <<request, ignore, preIgnore, overlapped, force, holding>>
      BY <1>3 DEF StoreMasterMode
  <2> QED BY <2>1 DEF SourceTypes
<1>4. CASE StoreRequest
  <2>1. request' \in {"enter", "release"}
        /\ UNCHANGED <<masterMode, ignore, preIgnore, overlapped, force, holding>>
      BY <1>4 DEF StoreRequest, Stores
  <2> QED BY <2>1 DEF SourceTypes
<1>5. CASE StorePreIgnore
  <2>1. preIgnore' \in BOOLEAN /\ overlapped' \in BOOLEAN
        /\ UNCHANGED <<masterMode, request, ignore, force, holding>>
      BY <1>5 DEF StorePreIgnore
  <2> QED BY <2>1 DEF SourceTypes
<1>6. CASE StoreIgnore
  <2>1. ignore' \in BOOLEAN /\ holding' \in BOOLEAN
        /\ UNCHANGED <<masterMode, request, preIgnore, overlapped, force>>
      BY <1>6 DEF StoreIgnore
  <2> QED BY <2>1 DEF SourceTypes
<1>7. CASE StoreForce
  <2>1. UNCHANGED <<masterMode, request, ignore, preIgnore, overlapped, holding>>
      BY <1>7 DEF StoreForce
  <2>2. selected # kSourceMaster
      BY <1>7 DEF StoreForce, Stores, PinInv
  <2>3. force' \in Followers
      BY <1>7, <2>2 DEF StoreForce, SourceTypes, Sources, Followers
  <2> QED BY <2>1, <2>3 DEF SourceTypes
<1> QED BY <1>3, <1>4, <1>5, <1>6, <1>7 DEF Push

\* A frame keeps the types of the sources and of the flags it pushes.
LEMMA FrameKeepsSourceTypes ==
    ASSUME TypeInv, PanelInv, NEW i \in Inputs, RunFrame(i)
    PROVE  SourceTypes'
<1>0. SourceTypes /\ ChoiceInv /\ PermitInv /\ bridge \in BOOLEAN
    BY  DEF TypeInv, PanelInv, PermitInv
<1>1. Src \in Sources /\ Borrowed \in Sources \cup {NoSource}
    BY <1>0, SourceNumbers DEF SourceTypes, Src, Borrowed
<1>2. Held \in BOOLEAN
    BY <1>0 DEF Held, SourceTypes, PermitInv, Toggles
<1>3. CASE KeepSource
    BY <1>0, <1>1, <1>2, <1>3 DEF KeepSource, NoCall, role, flags, SourceTypes
<1>4. CASE Confirms(i)
  <2>1. chosen' \in Sources /\ selected' = chosen' /\ srcBefore' = NoSource
      BY <1>4, VisibleSource DEF Confirms
  <2>2. CASE Switch(chosen', bridge, Held)
      BY <1>0, <1>2, <2>1, <2>2, SwitchTypes
  <2>3. CASE chosen' = Src /\ NoCall(Held) /\ UNCHANGED <<lastApplied, unheard>>
    <3> QED BY <1>0, <1>2, <1>4, <2>1, <2>3 DEF Confirms, NoCall, role, flags, SourceTypes
  <2> QED BY <1>4, <2>2, <2>3 DEF Confirms
<1>5. CASE Deselects(i)
    BY <1>0, <1>2, <1>5, SourceNumbers, SwitchTypes DEF Deselects, SourceTypes
<1> QED BY <1>0, <1>3, <1>4, <1>5, FrameCases DEF Keeps

\* A frame keeps the types of what the screen and the knobs are doing.
LEMMA FrameKeepsScreenTypes ==
    ASSUME TypeInv, NEW i \in Inputs, RunFrame(i)
    PROVE  ScreenTypes'
<1>0. ScreenTypes
    BY DEF TypeInv
<1>1. /\ Visible(Src) \in Sources /\ Cursor(i) \in Sources /\ 0 \in Sources
      /\ Edited(i) \in BOOLEAN /\ Item(i) \in Items
  <2>1. Cursor(i) \in Sources
      BY <1>0, NextIsSource DEF ScreenTypes, Cursor
  <2>2. Edited(i) \in BOOLEAN
      BY <1>0 DEF ScreenTypes, Edited
  <2>3. Item(i) \in Items
      BY <1>0 DEF ScreenTypes, Item, NextItem, Items, Toggles
  <2> QED BY <2>1, <2>2, <2>3, VisibleSource, SourceNumbers
<1>2. offset + i.nudge \in 0..MaxOffset
    BY <1>0, InputTypes DEF RunFrame, Possible, ScreenTypes
<1>3. ASSUME NEW consumed \in BOOLEAN, TapAfter(i, consumed)
      PROVE  tap' \in {"up", "clean", "spoilt", "unread"}
    BY <1>0, <1>3 DEF TapAfter, Gesture, ScreenTypes
<1>4. ASSUME NEW used \in BOOLEAN, Pressed(i, used)
      PROVE  pressUsed' \in BOOLEAN
    BY <1>0, <1>4 DEF Pressed, ScreenTypes
<1>5. ASSUME NEW item \in Toggles PROVE item \in Items /\ setting[item] \in BOOLEAN
    BY <1>0 DEF ScreenTypes, Items
<1> USE <1>0 DEF ScreenTypes
<1>6. CASE Normal(i)
  <2>1. BoxOwnsTempo(Src) \in BOOLEAN
      BY DEF BoxOwnsTempo
  <2>2. pressUsed' \in BOOLEAN
      BY <1>4, <1>6, <2>1 DEF Normal
  <2> QED BY <1>1, <1>2, <1>3, <1>6, <2>2 DEF Normal, Claimed
<1>7. CASE Confirm(i)
    BY <1>1, <1>3, <1>4, <1>7 DEF Confirm
<1>8. CASE Cancel(i)
    BY <1>1, <1>3, <1>4, <1>8 DEF Cancel, LeaveSubMode, Claimed, Items, Toggles
<1>9. CASE IdleOut(i)
    BY <1>1, <1>3, <1>4, <1>9 DEF IdleOut, LeaveSubMode, Claimed, Items, Toggles
<1>10. CASE Stay(i)
    BY <1>1, <1>3, <1>4, <1>10 DEF Stay, Claimed
<1>11. CASE OpenItem(i)
    BY <1>1, <1>3, <1>4, <1>5, <1>11 DEF OpenItem, Claimed
<1>12. CASE Commit(i)
  <2>1. setting' \in [Toggles -> BOOLEAN]
      BY <1>1, <1>12 DEF Commit
  <2>2. event' \in {"none", "claim", "resync"}
      BY <1>12 DEF Commit, Claimed
  <2> QED BY <1>1, <1>3, <1>4, <1>12, <2>1, <2>2 DEF Commit
<1> QED BY <1>6, <1>7, <1>8, <1>9, <1>10, <1>11, <1>12 DEF RunFrame

\* A frame keeps every type.
LEMMA FrameKeepsTypes ==
    ASSUME TypeInv, PanelInv, NEW i \in Inputs, RunFrame(i)
    PROVE  TypeInv'
<1>0. SaveTypes /\ OtherTypes /\ ScreenTypes
    BY DEF TypeInv
<1>1. SourceTypes' /\ ScreenTypes'
    BY FrameKeepsSourceTypes, FrameKeepsScreenTypes
<1>2. SaveTypes'
  <2>1. offset \in 0..MaxOffset /\ offset' \in 0..MaxOffset
      BY <1>0, <1>1 DEF ScreenTypes
  <2>2. SaveOffset /\ bridge \in BOOLEAN
      BY <1>0 DEF RunFrame, OtherTypes
  <2>3. saveSeen' \in 0..MaxOffset /\ saveCommitted' \in 0..MaxOffset
        /\ nvsOffset' \in 0..MaxOffset
      BY <1>0, <2>1, <2>2 DEF SaveOffset, SaveTypes
  <2>4. saveInit' \in BOOLEAN /\ settled' \in BOOLEAN /\ seedTrim' \in BOOLEAN
      BY <1>0, <2>2 DEF SaveOffset, SaveTypes
  <2> QED BY <2>3, <2>4 DEF SaveTypes
<1>3. OtherTypes'
  <2>1. setting["keepPlaying"] \in BOOLEAN
      BY <1>0 DEF ScreenTypes, Toggles
  <2>2. armed' \in BOOLEAN
      BY <1>0 DEF RunFrame, OtherTypes
  <2> QED BY <1>0, <2>1, <2>2 DEF RunFrame, OtherTypes
<1> QED BY <1>1, <1>2, <1>3 DEF TypeInv

\* So does every step that is not the frame itself.
LEMMA OthersKeepTypes ==
    ASSUME TypeInv, PanelInv, Fallback \/ LateApply \/ Push \/ Bridge \/ SubModeIdles
                          \/ OffsetSettles \/ TapAges \/ PowerFails \/ UNCHANGED vars
    PROVE  TypeInv'
<1>0. SourceTypes /\ ScreenTypes /\ SaveTypes /\ OtherTypes /\ ChoiceInv
    BY  DEF TypeInv, PanelInv
<1> USE DEF menus, choice, saving, role, flags, decks, frameVars, panelVars
<1>1. CASE Fallback
  <2>1. Restored \in Sources
      BY <1>0, SourceNumbers DEF Restored, SourceTypes
  <2>2. ScreenTypes' /\ SaveTypes' /\ OtherTypes' /\ chosen' = chosen
      BY <1>0, <1>1 DEF Fallback, ScreenTypes, SaveTypes, OtherTypes
  <2>3. CASE srcBefore' = NoSource /\ Switch(Restored, TRUE, holding)
      BY <1>0, <2>1, <2>2, <2>3, SwitchTypes DEF TypeInv, SourceTypes
  <2>4. CASE UNCHANGED <<selected, lastApplied, srcBefore, unheard, push, role, holding>>
      BY <1>0, <2>2, <2>4 DEF TypeInv, SourceTypes
  <2> QED BY <1>1, <2>3, <2>4 DEF Fallback, NoCall
<1>2. CASE LateApply
  <2>0. b' \in BOOLEAN
      BY <1>2, Zenon DEF LateApply
  <2>1. ScreenTypes' /\ SaveTypes' /\ OtherTypes' /\ chosen' = chosen
        /\ srcBefore' = srcBefore
      BY <1>0, <1>2, <2>0 DEF LateApply, ScreenTypes, SaveTypes, OtherTypes
  <2>2. CASE Switch(selected, TRUE, holding)
      BY <1>0, <2>1, <2>2, SwitchTypes DEF TypeInv, SourceTypes
  <2>3. CASE UNCHANGED <<selected, lastApplied, unheard, push, role, holding>>
      BY <1>0, <2>1, <2>3 DEF TypeInv, SourceTypes
  <2> QED BY <1>2, <2>2, <2>3 DEF LateApply, NoCall
<1>3. CASE Bridge
  <2>1. ScreenTypes' /\ SaveTypes' /\ UNCHANGED panelVars
      BY <1>0, <1>3 DEF Bridge, BridgeUp, EntersRole, AppointsDeck, LeavesRole,
         MoveFlags, LoadPre, RestorePre, RestoreIgnore, LoadIgnore, CapturePre,
         ForceIgnore, Accesses, DeckPlays, DeckStops, SilenceHolds, ScreenTypes, SaveTypes
  <2>2. SourceTypes' /\ OtherTypes'
    <3>1. CASE BridgeUp
        BY <1>0, <3>1 DEF BridgeUp, SourceTypes, OtherTypes
    <3>2. CASE EntersRole
        BY <1>0, <3>2 DEF EntersRole, SourceTypes, OtherTypes
    <3>3. CASE AppointsDeck
        BY <1>0, <3>3 DEF AppointsDeck, SourceTypes, OtherTypes
    <3>4. CASE LeavesRole
      <4>1. masterMode' \in BOOLEAN /\ applied' \in BOOLEAN
          BY <3>4, Zenon DEF LeavesRole
      <4> QED BY <1>0, <3>4, <4>1 DEF LeavesRole, SourceTypes, OtherTypes
    <3>5. CASE DeckPlays
      <4>1. deckPlaying' \in BOOLEAN /\ holding' \in BOOLEAN
          BY <3>5, Zenon DEF DeckPlays
      <4> QED BY <1>0, <3>5, <4>1 DEF DeckPlays, SourceTypes, OtherTypes
    <3>6. CASE DeckStops
      <4>1. deckPlaying' \in BOOLEAN /\ holding' \in BOOLEAN
          BY <3>6, Zenon DEF DeckStops
      <4> QED BY <1>0, <3>6, <4>1 DEF DeckStops, SourceTypes, OtherTypes
    <3>7. CASE SilenceHolds
        BY <1>0, <3>7 DEF SilenceHolds, SourceTypes, OtherTypes
    <3>8. CASE MoveFlags
      <4>1. /\ ignore' \in BOOLEAN /\ preIgnore' \in BOOLEAN /\ held' \in BOOLEAN
            /\ overlapped' \in BOOLEAN /\ holding' \in BOOLEAN
          BY <1>0, <3>8 DEF MoveFlags, LoadPre, RestorePre, RestoreIgnore, LoadIgnore,
             CapturePre, ForceIgnore, SourceTypes
      <4>2. /\ UNCHANGED <<panelVars, masterMode, request, applied, force, deckPlaying,
                           bridgeKeep, bridge>>
            /\ access' \in {"none", "loadPre", "restorePre", "restoreIgnore",
                            "loadIgnore", "capturePre", "forceIgnore"}
          BY <3>8 DEF MoveFlags, LoadPre, RestorePre, RestoreIgnore, LoadIgnore,
             CapturePre, ForceIgnore, Accesses
      <4> QED BY <1>0, <4>1, <4>2 DEF SourceTypes, OtherTypes
    <3> QED BY <1>3, <3>1, <3>2, <3>3, <3>4, <3>5, <3>6, <3>7, <3>8 DEF Bridge
  <2> QED BY <2>1, <2>2 DEF TypeInv
<1>4. CASE SubModeIdles
    BY <1>0, <1>4
    DEF TypeInv, SubModeIdles, SourceTypes, ScreenTypes, SaveTypes, OtherTypes
<1>5. CASE OffsetSettles
    BY <1>0, <1>5
    DEF TypeInv, OffsetSettles, SourceTypes, ScreenTypes, SaveTypes, OtherTypes
<1>6. CASE TapAges
    BY <1>0, <1>6
    DEF TypeInv, TapAges, SourceTypes, ScreenTypes, SaveTypes, OtherTypes
<1>7. CASE PowerFails
  <2>1. SourceTypes'
      BY <1>7, SourceNumbers DEF PowerFails, SourceTypes, Followers
  <2>2. ScreenTypes' /\ SaveTypes'
    <3>1. /\ editValue' \in BOOLEAN /\ idle' \in BOOLEAN /\ pressUsed' \in BOOLEAN
          /\ saveInit' \in BOOLEAN /\ settled' \in BOOLEAN /\ seedTrim' \in BOOLEAN
        BY <1>7, Zenon DEF PowerFails
    <3>2. setting' = setting /\ nvsOffset' = nvsOffset /\ offset' = nvsOffset
        BY <1>7, Zenon DEF PowerFails
    <3>3. 0 \in 0..MaxOffset
        BY PanelAssumption
    <3>4. /\ saveSeen' = 0 /\ saveCommitted' = 0 /\ proposed' = 0 /\ tap' = "up"
          /\ mode' = "normal" /\ menuItem' = "actAsPlayer"
          /\ event' = "none"
        BY <1>7, Zenon DEF PowerFails
    <3>5. "actAsPlayer" \in Items
        BY DEF Items, Toggles
    <3>6. ScreenTypes'
      <4>1. offset' \in 0..MaxOffset /\ setting' \in [Toggles -> BOOLEAN]
          BY <1>0, <3>2 DEF ScreenTypes, SaveTypes
      <4> QED BY <3>1, <3>4, <3>5, <4>1, SourceNumbers DEF ScreenTypes
    <3>7. SaveTypes'
        BY <1>0, <3>1, <3>2, <3>3, <3>4 DEF SaveTypes
    <3> QED BY <3>6, <3>7
  <2>3. OtherTypes'
      BY <1>7 DEF PowerFails, OtherTypes
  <2> QED BY <2>1, <2>2, <2>3 DEF TypeInv
<1>8. CASE UNCHANGED vars
    BY <1>0, <1>8 DEF TypeInv, vars, SourceTypes, ScreenTypes, SaveTypes, OtherTypes
<1>9. CASE Push
  <2>1. SourceTypes'
      BY <1>0, <1>9, PushTypes DEF PanelInv
  <2>2. UNCHANGED <<pc, b, armed, event, menus, tap, pressUsed, saving, setting, offset,
                    bridge, deckPlaying, bridgeKeep>>
      BY <1>9 DEF Push, StoreMasterMode, StoreRequest, StorePreIgnore, StoreIgnore,
         StoreForce, Stores
  <2> QED BY <1>0, <2>1, <2>2 DEF TypeInv, ScreenTypes, SaveTypes, OtherTypes
<1> QED BY <1>1, <1>2, <1>3, <1>4, <1>5, <1>6, <1>7, <1>8, <1>9

\* The panel and what it sees of the bridge keep their types; an offset stays in its
\* range, and what is written to NVS with it.
THEOREM PanelTypes == Spec => []PanelTypeOK
<1>1. Init => TypeInv
  <2> SUFFICES ASSUME Init PROVE TypeInv
      OBVIOUS
  <2>1. SourceTypes
      BY SourceNumbers DEF Init, SourceTypes, Followers
  <2>2. ScreenTypes /\ SaveTypes
    <3>1. /\ editValue \in BOOLEAN /\ idle \in BOOLEAN /\ pressUsed \in BOOLEAN
          /\ saveInit \in BOOLEAN /\ settled \in BOOLEAN /\ seedTrim \in BOOLEAN
        BY Zenon DEF Init
    <3>2. setting \in [Toggles -> BOOLEAN]
        BY Zenon DEF Init
    <3>3. 0 \in 0..MaxOffset
        BY PanelAssumption
    <3>4. /\ saveSeen = 0 /\ saveCommitted = 0 /\ nvsOffset = 0 /\ offset = 0
          /\ proposed = 0 /\ tap = "up" /\ mode = "normal" /\ menuItem = "actAsPlayer"
          /\ event = "none"
        BY Zenon DEF Init
    <3>5. "actAsPlayer" \in Items
        BY DEF Items, Toggles
    <3>6. ScreenTypes
        BY <3>1, <3>2, <3>3, <3>4, <3>5, SourceNumbers DEF ScreenTypes
    <3>7. SaveTypes
        BY <3>1, <3>3, <3>4 DEF SaveTypes
    <3> QED BY <3>6, <3>7
  <2>3. OtherTypes
      BY DEF Init, OtherTypes
  <2> QED BY <2>1, <2>2, <2>3 DEF TypeInv
<1>2. TypeInv /\ PanelInv /\ [Next]_vars => TypeInv'
    BY FrameKeepsTypes, OthersKeepTypes DEF Next, Frame
<1>3. TypeInv => PanelTypeOK
    BY DEF TypeInv, SourceTypes, ScreenTypes, SaveTypes, OtherTypes, PanelTypeOK
<1> QED BY <1>1, <1>2, <1>3, PanelInvariant, PTL DEF Spec

-----------------------------------------------------------------------------
\* Between frames the bridge is pinned to the source shown, and runs by it or will when
\* the role is left, with two exceptions.  The source was confirmed before there was a
\* bridge to hear of it; or, as to whether the box follows or is standalone, its push met
\* the bridge thread between a load of the choice before it and the stores that go with
\* that (bridge.cpp:136, and 192 with 310-311).  Apart from that it holds however the
\* accesses of both threads to the two flags interleave.
THEOREM ShownInForce == Spec => []ShownIsInForce
<1>1. ASSUME PanelInv, pc = "frame", push = "none", ~unheard, selected # kSourceMaster
      PROVE  Pinned(selected) /\ (overlapped \/ RunsBy(selected))
  <2>1. Pinned(selected)
      BY <1>1 DEF PanelInv, PinInv
  <2>2. Kept /\ FlagInv
      BY <1>1 DEF PanelInv, Kept
  <2>3. CASE ~overlapped /\ Off
    <3>1. preIgnore /\ ignore
        BY <1>1, <2>2, <2>3 DEF FlagInv
    <3> QED BY <2>1, <2>3, <3>1 DEF RunsBy, Off
  <2>4. CASE ~overlapped /\ ~Off
    <3>1. ~preIgnore /\ (ignore => applied \/ access # "none")
        BY <1>1, <2>2, <2>4 DEF FlagInv
    <3> QED BY <2>1, <2>4, <3>1 DEF RunsBy, Off
  <2> QED BY <2>1, <2>3, <2>4
<1>2. PanelInv => ShownIsInForce
    BY <1>1 DEF ShownIsInForce, At
<1> QED BY <1>2, PanelInvariant, PTL

\* Without permission the master source is not shown, nor about to be announced.
THEOREM MasterPermitted == Spec => []MasterIsPermitted
<1>1. PanelInv => MasterIsPermitted
    BY DEF PanelInv, PermitInv, MasterIsPermitted, At
<1> QED BY <1>1, PanelInvariant, PTL

\* The panel never returns to a source given up before.
THEOREM NothingStale == Spec => []NothingStaleRestored
<1>1. PanelInv => NothingStaleRestored
    BY DEF PanelInv, ChoiceInv, NothingStaleRestored
<1> QED BY <1>1, PanelInvariant, PTL

\* A press that has been used sends no re-sync.
THEOREM UsedPressSilent == Spec => []UsedPressNeverResyncs
<1>1. PanelInv => UsedPressNeverResyncs
    BY DEF PanelInv, PressInv, UsedPressNeverResyncs
<1> QED BY <1>1, PanelInvariant, PTL
=============================================================================
