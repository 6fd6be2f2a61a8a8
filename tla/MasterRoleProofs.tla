-------------------------- MODULE MasterRoleProofs --------------------------
(***************************************************************************)
(* Proofs about MasterRole, for any devices, addresses, pins, burst length *)
(* and generation counters.  RoleInv is inductive; the safety properties   *)
(* that TLC checks on MasterRole.cfg follow from it.                       *)
(***************************************************************************)
EXTENDS MasterRole, SequenceTheorems, TLAPS

USE DEF NoIp, NoDev, NoHandoff, kSourceMaster, kSourceOff

\* What the typing argument needs of the constants.
LEMMA ConstantFacts ==
    /\ IdleNum \in Devs /\ MasterNum \in Devs
    /\ \A d \in Pins : d \in Devs
    /\ 0 \in 0..Burst /\ Burst \in 0..Burst /\ Burst \in Nat
    /\ 0 \in 0..(SyncnMod - 1)
BY RoleAssumption

-----------------------------------------------------------------------------
\* The setter calls ui_apply_source() makes for a source are calls of the bridge.
LEMMA ApplySourceType ==
    ASSUME NEW s \in Sources
    PROVE  ApplySource(s) \in Seq(Calls)
<1>1. \A op \in {"modeOn", "enter", "release", "ignoreOn", "ignoreOff", "pin"} :
        Call(op) \in Calls
    BY DEF Call, Calls
<1>2. CASE s = kSourceMaster
    BY <1>1, <1>2 DEF ApplySource
<1>3. CASE s # kSourceMaster
    <2>1. (IF masterMode THEN <<Call("release")>> ELSE <<>>) \in Seq(Calls)
        BY <1>1
    <2>2. CASE s = kSourceOff
        <3>1. <<Call("ignoreOn"), Call("pin")>> \in Seq(Calls)
            BY <1>1
        <3> QED
            BY <1>3, <2>1, <2>2, <3>1, ConcatProperties DEF ApplySource
    <2>3. CASE s # kSourceOff
        <3>1. [op |-> "pin", dev |-> s] \in Calls
            BY <1>3, <2>3 DEF Sources, Calls
        <3>2. <<Call("ignoreOff"), [op |-> "pin", dev |-> s]>> \in Seq(Calls)
            BY <1>1, <3>1
        <3> QED
            BY <1>3, <2>1, <2>3, <3>2, ConcatProperties DEF ApplySource
    <2> QED
        BY <2>2, <2>3
<1> QED
    BY <1>2, <1>3

\* A datagram a handler is given has fields of the right type.
LEMMA DatagramType ==
    /\ \A p \in BeatIn : p.dev \in Devs /\ p.ip \in Ips
    /\ \A p \in StatusIn : p.type = "status" /\ p.dev \in Devs /\ p.ip \in Ips
                           /\ p.syncn \in 0..(SyncnMod - 1)
    /\ \A p \in AckIn : p.type = "ack" /\ p.ip \in Ips
BY RoleAssumption DEF BeatIn, StatusIn, AckIn

\* Every status the box broadcasts is a datagram, its counter wrapped to 32 bits.
LEMMA StatusOutType ==
    ASSUME TypeOK
    PROVE  StatusOut \in Out
<1>1. (maxSyncn + 1) % SyncnMod \in 0..(SyncnMod - 1)
    BY RoleAssumption DEF TypeOK
<1> QED
    BY <1>1 DEF StatusOut, Out, TypeOK

\* A step that sends and reads nothing.
LEMMA QuietType == Silent => sent' \in SUBSET Out /\ yielded' \in BOOLEAN
BY DEF Silent

\* The variables of the role, once it is left.
LEMMA LeaveType ==
    ASSUME LeaveMasterMode
    PROVE  /\ {masterMode', confirmed', applied'} \subseteq BOOLEAN
           /\ yieldingTo' \in Devs \cup {NoDev} /\ deadline' \in {"off", "armed", "due"}
           /\ countdown' \in 0..Burst /\ activeNum' \in Devs
           /\ access' = "loadPre"
BY ConstantFacts DEF LeaveMasterMode, RestartDeviceClaim

-----------------------------------------------------------------------------
\* Every reachable state has the declared types: the counters and the queue of
\* setter calls included.
LEMMA TypeInit == Init => TypeOK
<1>1. <<>> \in Seq(Calls)
    OBVIOUS
<1> QED
    BY <1>1, ConstantFacts DEF Init, TypeOK, Sources

\* ... and every handler, setter and phase keeps them.
LEMMA TypeNext == TypeOK /\ [Next]_vars => TypeOK'
<1> SUFFICES ASSUME TypeOK, [Next]_vars PROVE TypeOK'
    OBVIOUS
<1> USE ConstantFacts, QuietType DEF TypeOK, uiVars, At
<1>1. ASSUME NEW s \in Sources, SelectSource(s) PROVE TypeOK'
    BY <1>1, ApplySourceType DEF SelectSource, roleVars, trackVars, flagVars
<1>2. CASE UiCall
    <2>1. Head(ui) \in Calls /\ Tail(ui) \in Seq(Calls)
        BY <1>2, HeadTailProperties DEF UiCall
    <2>2. CASE StoreMasterMode(Head(ui))
        BY <1>2, <2>1, <2>2 DEF UiCall, StoreMasterMode, flagVars
    <2>3. CASE StoreRequest(Head(ui))
        BY <1>2, <2>1, <2>3 DEF UiCall, StoreRequest, flagVars
    <2>4. CASE StorePreIgnore(Head(ui))
        BY <1>2, <2>4 DEF UiCall, StorePreIgnore
    <2>5. CASE StoreIgnore(Head(ui))
        <3>1. ignore' \in BOOLEAN /\ choosing' \in BOOLEAN
            BY <2>5 DEF StoreIgnore
        <3> QED
            BY <1>2, <2>1, <2>5, <3>1 DEF UiCall, StoreIgnore
    <2>6. CASE SetForceMasterDevice(Head(ui))
        <3>1. Head(ui).dev \in Pins \cup {NoDev} /\ Pins \subseteq Devs
            BY <2>1 DEF Calls
        <3> QED
            BY <1>2, <2>1, <2>6, <3>1 DEF UiCall, SetForceMasterDevice, flagVars
    <2> QED
        BY <1>2, <2>2, <2>3, <2>4, <2>5, <2>6 DEF UiCall
<1>3. ASSUME NEW p \in BeatIn, RecvBeat(p) PROVE TypeOK'
    <2>1. p.dev \in Devs /\ p.ip \in Ips
        BY DatagramType
    <2>2. CASE HandleYieldRequest(p)
        <3> yielded' \in BOOLEAN
            BY <2>2 DEF HandleYieldRequest, YieldRequested
        <3>1. sent' \in SUBSET Out
            BY <2>1, <2>2 DEF HandleYieldRequest, YieldRequested, Out
        <3>2. yieldingTo' \in Devs \cup {NoDev} /\ deadline' \in {"off", "armed", "due"}
            BY <2>1, <2>2 DEF HandleYieldRequest, YieldRequested
        <3>3. UNCHANGED <<masterMode, confirmed, applied, countdown, activeNum, request,
                          trackVars, flagVars, access, uiVars>>
            BY <2>2 DEF HandleYieldRequest
        <3> QED
            BY <1>3, <3>1, <3>2, <3>3 DEF RecvBeat, trackVars, flagVars
    <2>3. CASE HandleBeat(p)
        BY <1>3, <2>1, <2>3 DEF RecvBeat, HandleBeat, roleVars, flagVars
    <2> QED
        BY <1>3, <2>2, <2>3 DEF RecvBeat
<1>4. CASE RecvBeatTimeout
    BY <1>4 DEF RecvBeatTimeout, roleVars, trackVars, flagVars
<1>5. ASSUME NEW p \in AckIn \cup StatusIn, RecvStatus(p) PROVE TypeOK'
    <2> yielded' \in BOOLEAN
        BY <1>5 DEF RecvStatus, Yields
    <2>1. CASE HandleAck(p)
        BY <1>5, <2>1 DEF RecvStatus, HandleAck, trackVars, flagVars
    <2>2. CASE HandleStatus(p)
        <3>1. p \in StatusIn
            BY <2>2, DatagramType DEF HandleStatus
        <3>2. p.dev \in Devs /\ p.ip \in Ips /\ p.syncn \in 0..(SyncnMod - 1)
            BY <3>1, DatagramType
        <3>3. currentMaster' \in Devs \cup {NoDev} /\ masterIp' \in Ips \cup {NoIp}
              /\ maxSyncn' \in 0..(SyncnMod - 1)
            BY <2>2, <3>2 DEF HandleStatus
        <3>4. CASE LeaveMasterMode
            BY <1>5, <2>2, <3>3, <3>4, LeaveType DEF RecvStatus, HandleStatus, flagVars
        <3>5. CASE UNCHANGED <<masterMode, applied, yieldingTo, deadline, countdown,
                               activeNum, access>>
            <4>1. confirmed' \in BOOLEAN
                BY <2>2 DEF HandleStatus, LeaveMasterMode
            <4> QED
                BY <1>5, <2>2, <3>3, <3>5, <4>1 DEF RecvStatus, HandleStatus, flagVars
        <3> QED
            BY <2>2, <3>4, <3>5 DEF HandleStatus
    <2> QED
        BY <1>5, <2>1, <2>2 DEF RecvStatus
<1>6. CASE RecvStatusTimeout
    BY <1>6 DEF RecvStatusTimeout, roleVars, trackVars, flagVars
<1>7. CASE Loop
    <2>1. CASE ApplyNothing
        BY <2>1 DEF ApplyNothing, roleVars, trackVars, flagVars
    <2>2. CASE ApplyEnter
        <3>1. confirmed' \in BOOLEAN /\ applied' \in BOOLEAN
            BY <2>2 DEF ApplyEnter, CaptureSource
        <3> QED
            BY <2>2, <3>1 DEF ApplyEnter, CancelRelease, CaptureSource, RestartDeviceClaim,
                              trackVars, flagVars
    <2>3. CASE ApplyRelease
        <3>1. CASE CanAppoint
            <4>1. masterIp \in Ips /\ currentMaster \in Devs
                BY <3>1 DEF CanAppoint, KnowsSuccessor
            <4> yielded' \in BOOLEAN
                BY <2>3 DEF ApplyRelease, Silent
            <4>2. sent' \in SUBSET Out
                BY <2>3, <3>1, <4>1 DEF ApplyRelease, Out
            <4>3. /\ yieldingTo' = currentMaster /\ deadline' = "armed" /\ countdown' = 0
                  /\ pc' = "broadcast" /\ request' = "none"
                  /\ UNCHANGED <<masterMode, confirmed, applied, activeNum, access,
                                 trackVars, flagVars, uiVars>>
                BY <2>3, <3>1 DEF ApplyRelease
            <4> QED
                BY <4>1, <4>2, <4>3 DEF trackVars, flagVars
        <3>2. CASE ~CanAppoint
            BY <2>3, <3>2, LeaveType DEF ApplyRelease, trackVars, flagVars
        <3> QED
            BY <3>1, <3>2
    <2>4. CASE ReleaseTimeout
        BY <2>4, LeaveType DEF ReleaseTimeout, trackVars, flagVars
    <2>5. CASE BroadcastStatus
        <3>1. countdown' \in 0..Burst
            BY <2>5 DEF BroadcastStatus, StillAsking
        <3>2. StillAsking =>
                [type |-> "handoffReq", dev |-> activeNum, to |-> masterIp] \in Out
            BY DEF StillAsking, Out
        <3>3. sent' \in SUBSET Out /\ yielded' \in BOOLEAN
            BY <2>5, <3>2, StatusOutType DEF BroadcastStatus
        <3> QED
            BY <2>5, <3>1, <3>3 DEF BroadcastStatus, trackVars, flagVars
    <2>6. CASE BroadcastNothing
        BY <2>6 DEF BroadcastNothing, roleVars, trackVars, flagVars
    <2>7. CASE MoveFlags
        <3>1. {ignore', preIgnore', held', overlapped'} \subseteq BOOLEAN
            BY <2>7 DEF MoveFlags, LoadPre, RestorePre, RestoreIgnore, LoadIgnore,
                        CapturePre, ForceIgnore
        <3>2. PICK now, next : /\ Accesses(now, next)
                               /\ next \in {"none", "restorePre", "restoreIgnore",
                                            "capturePre", "forceIgnore"}
            BY <2>7 DEF MoveFlags, LoadPre, RestorePre, RestoreIgnore, LoadIgnore,
                        CapturePre, ForceIgnore
        <3> QED
            BY <3>1, <3>2 DEF Accesses, roleVars, trackVars
    <2> QED
        BY <1>7, <2>1, <2>2, <2>3, <2>4, <2>5, <2>6, <2>7 DEF Loop
<1>8. CASE DeadlinePasses
    BY <1>8 DEF DeadlinePasses, trackVars, flagVars
<1>9. CASE UNCHANGED vars
    BY <1>9 DEF vars, roleVars, trackVars, flagVars
<1> QED
    BY <1>1, <1>2, <1>3, <1>4, <1>5, <1>6, <1>7, <1>8, <1>9 DEF Next, UiThread

\* The variables of the role keep their types, the generation counter its 32 bits
\* and the request burst its bound, for any devices, datagrams and setter calls.
THEOREM TypeCorrect == Spec => []TypeOK
BY TypeInit, TypeNext, PTL DEF Spec

-----------------------------------------------------------------------------
\* The bridge thread has yet to read how the box runs, or has no more to do with it.
RunsAsChosen ==
    \/ access = "loadIgnore"
    \/ ~applied /\ access \notin {"loadPre", "restorePre", "restoreIgnore"}

\* Where the user's choice is while it travels: in the setter call that is half made, in
\* the flag the role is left by, in the hands of the bridge thread, and in the flag the
\* box runs by.
SourceInv ==
    /\ choosing => /\ ui # <<>> /\ Head(ui).op \in {"ignoreOn", "ignoreOff"}
                   /\ (userIgnore <=> Head(ui).op = "ignoreOn")
    /\ access \in {"loadIgnore", "capturePre", "forceIgnore"} => applied
    /\ ~overlapped =>
        /\ preIgnore = userIgnore
        /\ Moving => held = userIgnore
        /\ RunsAsChosen /\ ~choosing => ignore = userIgnore

\* The inductive invariant.  To the properties it adds why they hold: the value a
\* leave restores is the user's, the role is held only in master mode, and a burst of
\* requests is pending only inside the role.
RoleInv ==
    /\ SourceInv
    /\ confirmed => masterMode
    /\ countdown > 0 => applied
    /\ YieldIsBounded
    /\ SlotFollowsRole

\* Leaving the role, whichever way, re-establishes the invariant by itself, but for the
\* travelling choice, which it leaves where it is.
LEMMA LeaveRestores ==
    ASSUME SourceInv, LeaveMasterMode, UNCHANGED <<flagVars, uiVars>>
    PROVE  RoleInv'
<1>1. SourceInv'
    BY DEF LeaveMasterMode, SourceInv, RunsAsChosen, Moving, flagVars, uiVars
<1>2. YieldIsBounded' /\ (confirmed' => masterMode')
    BY DEF LeaveMasterMode, YieldIsBounded
<1>3. SlotFollowsRole' /\ ~(countdown' > 0)
    BY DEF LeaveMasterMode, RestartDeviceClaim, SlotFollowsRole
<1> QED
    BY <1>1, <1>2, <1>3 DEF RoleInv

\* The box starts outside the role, with nothing left over from one.
LEMMA RoleInit == Init => RoleInv
<1> SUFFICES ASSUME Init PROVE RoleInv
    OBVIOUS
<1>1. ~(countdown > 0)
    BY DEF Init
<1>2. /\ SourceInv /\ (confirmed => masterMode)
      /\ YieldIsBounded /\ SlotFollowsRole
    BY DEF Init, SourceInv, RunsAsChosen, Moving, YieldIsBounded, SlotFollowsRole
<1> QED
    BY <1>1, <1>2 DEF RoleInv

\* A store of the UI thread, before or between or after the accesses of the bridge
\* thread, keeps the choice where the invariant has it.
LEMMA SourceUi == TypeOK /\ SourceInv /\ UiCall => SourceInv'
<1> SUFFICES ASSUME TypeOK, SourceInv, UiCall PROVE SourceInv'
    OBVIOUS
<1> USE DEF SourceInv, RunsAsChosen, Moving
<1>1. UNCHANGED <<applied, access>>
    BY DEF UiCall
<1>2. CASE StoreMasterMode(Head(ui)) \/ StoreRequest(Head(ui))
           \/ SetForceMasterDevice(Head(ui))
    <2>1. ~choosing /\ UNCHANGED <<flagVars, choosing>>
        BY <1>2 DEF StoreMasterMode, StoreRequest, SetForceMasterDevice
    <2> QED
        BY <1>1, <2>1 DEF flagVars
<1>3. CASE StorePreIgnore(Head(ui))
    <2>1. /\ choosing' /\ ui' = ui /\ ui # <<>> /\ UNCHANGED held
          /\ Head(ui).op \in {"ignoreOn", "ignoreOff"}
          /\ (userIgnore' <=> Head(ui).op = "ignoreOn") /\ preIgnore' = userIgnore'
        BY <1>3 DEF StorePreIgnore, UiCall
    <2>2. ~overlapped' /\ Moving' => held' = userIgnore'
        BY <1>1, <1>3 DEF StorePreIgnore, TypeOK
    <2> QED
        BY <1>1, <2>1, <2>2
<1>4. CASE StoreIgnore(Head(ui))
    <2>1. /\ ~choosing' /\ ignore' = userIgnore'
          /\ UNCHANGED <<preIgnore, held, userIgnore, overlapped>>
        BY <1>4 DEF StoreIgnore, TypeOK
    <2> QED
        BY <1>1, <2>1
<1> QED
    BY <1>2, <1>3, <1>4 DEF UiCall

\* So does each access of the bridge thread, unless it meets a choice half made.
LEMMA SourceMoves == TypeOK /\ SourceInv /\ MoveFlags => SourceInv'
<1> SUFFICES ASSUME TypeOK, SourceInv, MoveFlags PROVE SourceInv'
    OBVIOUS
<1> USE DEF SourceInv, RunsAsChosen, Moving, Accesses, uiVars, roleVars, TypeOK
<1>1. CASE LoadPre
    BY <1>1 DEF LoadPre
<1>2. CASE RestorePre
    BY <1>2 DEF RestorePre
<1>3. CASE RestoreIgnore
    BY <1>3 DEF RestoreIgnore
<1>4. CASE LoadIgnore
    BY <1>4 DEF LoadIgnore
<1>5. CASE CapturePre
    BY <1>5 DEF CapturePre
<1>6. CASE ForceIgnore
    BY <1>6 DEF ForceIgnore
<1> QED
    BY <1>1, <1>2, <1>3, <1>4, <1>5, <1>6 DEF MoveFlags

\* The first access follows entering the role from outside it, where the box runs as
\* the user last said.
LEMMA SourceEnter == SourceInv /\ ApplyEnter => SourceInv'
<1> SUFFICES ASSUME SourceInv, ApplyEnter PROVE SourceInv'
    OBVIOUS
<1> QED
    BY DEF ApplyEnter, CaptureSource, At, SourceInv, RunsAsChosen, Moving, flagVars, uiVars

\* Every step of either thread keeps the invariant: only entering, yielding,
\* releasing, leaving and the two flags' accesses touch what it relates.
LEMMA RoleNext == TypeOK /\ RoleInv /\ [Next]_vars => RoleInv'
<1> SUFFICES ASSUME TypeOK, RoleInv, [Next]_vars PROVE RoleInv'
    OBVIOUS
<1> USE DEF RoleInv, YieldIsBounded, SlotFollowsRole
<1>1. ASSUME UNCHANGED <<flagVars, access, uiVars, applied>> PROVE SourceInv'
    BY <1>1 DEF SourceInv, RunsAsChosen, Moving, flagVars, uiVars
<1>2. CASE UiCall
    <2>1. SourceInv'
        BY <1>2, SourceUi
    <2>2. CASE StoreMasterMode(Head(ui))
        BY <1>2, <2>1, <2>2 DEF UiCall, StoreMasterMode
    <2>3. CASE ~StoreMasterMode(Head(ui))
        <3>1. UNCHANGED roleVars
            BY <1>2, <2>3 DEF UiCall, StoreRequest, StorePreIgnore, StoreIgnore,
                              SetForceMasterDevice, roleVars
        <3> QED
            BY <2>1, <3>1 DEF roleVars
    <2> QED
        BY <2>2, <2>3
<1>3. ASSUME NEW p \in BeatIn, RecvBeat(p) PROVE RoleInv'
    <2>1. SourceInv'
        BY <1>1, <1>3 DEF RecvBeat, HandleYieldRequest, HandleBeat, roleVars
    <2>2. CASE YieldRequested(p) /\ HandleYieldRequest(p)
        <3>1. p.dev # NoDev
            BY DatagramType, RoleAssumption
        <3> QED
            BY <2>1, <2>2, <3>1 DEF YieldRequested, HandleYieldRequest
    <2>3. CASE ~(YieldRequested(p) /\ HandleYieldRequest(p))
        <3>1. UNCHANGED roleVars
            BY <1>3, <2>3 DEF RecvBeat, HandleYieldRequest, HandleBeat, roleVars
        <3> QED
            BY <2>1, <3>1 DEF roleVars
    <2> QED
        BY <2>2, <2>3
<1>4. ASSUME NEW p \in AckIn \cup StatusIn, RecvStatus(p) PROVE RoleInv'
    <2>1. CASE HandleAck(p)
        <3>1. SourceInv'
            BY <1>1, <2>1 DEF HandleAck
        <3> QED
            BY <2>1, <3>1 DEF HandleAck, TypeOK
    <2>2. CASE HandleStatus(p)
        <3>1. CASE LeaveMasterMode
            BY <2>2, <3>1, LeaveRestores DEF HandleStatus
        <3>2. CASE ~LeaveMasterMode
            <4>1. SourceInv'
                BY <1>1, <2>2, <3>2 DEF HandleStatus
            <4> QED
                BY <2>2, <3>2, <4>1 DEF HandleStatus, GrantsRole, TypeOK
        <3> QED
            BY <3>1, <3>2
    <2> QED
        BY <1>4, <2>1, <2>2 DEF RecvStatus
<1>5. CASE ApplyEnter
    <2>1. SourceInv'
        BY <1>5, SourceEnter
    <2> QED
        BY <1>5, <2>1
        DEF ApplyEnter, CancelRelease, CaptureSource, RestartDeviceClaim, TypeOK
<1>6. CASE ApplyRelease
    <2>1. CASE LeaveMasterMode
        BY <1>6, <2>1, LeaveRestores DEF ApplyRelease
    <2>2. CASE ~LeaveMasterMode
        <3>1. /\ CanAppoint /\ yieldingTo' = currentMaster /\ deadline' = "armed"
              /\ countdown' = 0
              /\ UNCHANGED <<masterMode, confirmed, applied, activeNum, flagVars, access,
                             uiVars>>
            BY <1>6, <2>2 DEF ApplyRelease
        <3>2. yieldingTo' # NoDev /\ confirmed
            BY <3>1 DEF CanAppoint, KnowsSuccessor
        <3>3. ~(countdown' > 0)
            BY <3>1
        <3>4. SourceInv' /\ SlotFollowsRole'
            BY <1>1, <3>1
        <3>5. YieldIsBounded' /\ (confirmed' => masterMode')
            BY <3>1, <3>2
        <3> QED
            BY <3>3, <3>4, <3>5
    <2> QED
        BY <2>1, <2>2
<1>7. CASE ReleaseTimeout
    BY <1>7, LeaveRestores DEF ReleaseTimeout
<1>8. CASE BroadcastStatus
    <2>1. SourceInv'
        BY <1>1, <1>8 DEF BroadcastStatus
    <2> QED
        BY <1>8, <2>1 DEF BroadcastStatus, StillAsking, TypeOK
<1>9. CASE DeadlinePasses
    <2>1. SourceInv'
        BY <1>1, <1>9 DEF DeadlinePasses
    <2> QED
        BY <1>9, <2>1 DEF DeadlinePasses
<1>10. CASE MoveFlags
    <2>1. SourceInv' /\ UNCHANGED roleVars
        BY <1>10, SourceMoves DEF MoveFlags, LoadPre, RestorePre, RestoreIgnore, LoadIgnore,
                                  CapturePre, ForceIgnore, Accesses
    <2> QED
        BY <2>1 DEF roleVars
<1>11. CASE ApplyNothing \/ BroadcastNothing \/ RecvBeatTimeout \/ RecvStatusTimeout
            \/ UNCHANGED vars
    <2>1. UNCHANGED <<roleVars, flagVars, access, uiVars>>
        BY <1>11
        DEF ApplyNothing, BroadcastNothing, RecvBeatTimeout, RecvStatusTimeout, vars
    <2> QED
        BY <1>1, <2>1 DEF roleVars
<1>12. ASSUME NEW s \in Sources, SelectSource(s) PROVE RoleInv'
    <2>1. ~choosing /\ UNCHANGED <<roleVars, flagVars, access, choosing>>
        BY <1>12 DEF SelectSource, SourceInv
    <2> QED
        BY <2>1 DEF roleVars, flagVars, SourceInv, RunsAsChosen, Moving
<1> QED
    BY <1>2, <1>3, <1>4, <1>5, <1>6, <1>7, <1>8, <1>9, <1>10, <1>11, <1>12
    DEF Next, UiThread, Loop

\* The invariant the theorems below rest on holds in every reachable state.
LEMMA RoleInvariant == Spec => [](TypeOK /\ RoleInv)
<1>1. Init => TypeOK /\ RoleInv
    BY TypeInit, RoleInit
<1>2. TypeOK /\ RoleInv /\ [Next]_vars => TypeOK' /\ RoleInv'
    BY TypeNext, RoleNext
<1> QED
    BY <1>1, <1>2, PTL DEF Spec

\* Outside the role the box follows or ignores the decks as the user last said, however
\* the loads and stores of the two threads fall (leave_master_mode_, set_ignore_master,
\* apply_master_mode_request): only a choice that differs from a value the bridge thread
\* has loaded and not yet stored, or that was half made at its load, may be lost.
THEOREM ChoiceRestored == Spec => []UserChoiceRestored
<1>1. TypeOK /\ RoleInv => UserChoiceRestored
    BY DEF RoleInv, SourceInv, RunsAsChosen, UserChoiceRestored
<1> QED
    BY <1>1, RoleInvariant, PTL

\* A device is named in the Mh exactly while the 3 s release deadline runs, and
\* only by a holder of the role (handle_master_yield_request, apply_master_mode_request).
THEOREM YieldBounded == Spec => []YieldIsBounded
<1>1. TypeOK /\ RoleInv => YieldIsBounded
    BY DEF RoleInv
<1> QED
    BY <1>1, RoleInvariant, PTL

\* The player slot is presented exactly while the loop is in the role
\* (restart_device_claim on every way in and out).
THEOREM SlotHeldWithRole == Spec => []SlotFollowsRole
<1>1. TypeOK /\ RoleInv => SlotFollowsRole
    BY DEF RoleInv
<1> QED
    BY <1>1, RoleInvariant, PTL

-----------------------------------------------------------------------------
\* The box asks for the role only from the player slot that can hold it: a burst
\* of 0x26 never outlives the role it asks for (maybe_broadcast_master_status).
THEOREM PlayerSlotRequests == Spec => []RequestsFromPlayerSlot
<1>1. Init => RequestsFromPlayerSlot
    BY DEF Init, RequestsFromPlayerSlot
<1>2. TypeOK /\ RoleInv /\ RequestsFromPlayerSlot /\ [Next]_vars => RequestsFromPlayerSlot'
    <2> SUFFICES ASSUME TypeOK, RoleInv, RequestsFromPlayerSlot, [Next]_vars
                 PROVE  RequestsFromPlayerSlot'
        OBVIOUS
    <2>1. CASE UNCHANGED sent
        BY <2>1 DEF RequestsFromPlayerSlot
    <2>2. CASE \A m \in sent' : m.type # "handoffReq"
        BY <2>2 DEF RequestsFromPlayerSlot
    <2>3. ASSUME BroadcastStatus, StillAsking PROVE RequestsFromPlayerSlot'
        <3>1. activeNum = MasterNum
            BY <2>3 DEF StillAsking, RoleInv, SlotFollowsRole
        <3> QED
            BY <2>3, <3>1 DEF BroadcastStatus, RequestsFromPlayerSlot, StatusOut
    <2>4. ASSUME BroadcastStatus, ~StillAsking PROVE RequestsFromPlayerSlot'
        BY <2>2, <2>4 DEF BroadcastStatus, StatusOut
    <2>5. ASSUME NEW p \in BeatIn, RecvBeat(p) PROVE RequestsFromPlayerSlot'
        BY <2>2, <2>5 DEF RecvBeat, HandleYieldRequest, YieldRequested, HandleBeat, Silent
    <2>6. ASSUME NEW p \in AckIn \cup StatusIn, RecvStatus(p) PROVE RequestsFromPlayerSlot'
        BY <2>2, <2>6 DEF RecvStatus
    <2>7. CASE ApplyRelease
        BY <2>2, <2>7 DEF ApplyRelease, Silent
    <2>8. CASE ApplyNothing \/ ApplyEnter \/ ReleaseTimeout \/ BroadcastNothing
               \/ RecvBeatTimeout \/ RecvStatusTimeout \/ MoveFlags
        BY <2>2, <2>8
        DEF ApplyNothing, ApplyEnter, ReleaseTimeout, BroadcastNothing,
            RecvBeatTimeout, RecvStatusTimeout, MoveFlags, LoadPre, RestorePre,
            RestoreIgnore, LoadIgnore, CapturePre, ForceIgnore, Accesses, Silent
    <2>9. CASE UiCall \/ DeadlinePasses \/ (\E s \in Sources : SelectSource(s))
               \/ UNCHANGED vars
        BY <2>1, <2>9 DEF UiCall, DeadlinePasses, SelectSource, vars
    <2> QED
        BY <2>3, <2>4, <2>5, <2>6, <2>7, <2>8, <2>9 DEF Next, UiThread, Loop
<1> QED
    BY <1>1, <1>2, RoleInvariant, PTL DEF Spec

-----------------------------------------------------------------------------
\* The bridge keeps the contract of TempoMaster: whatever the threads, the network
\* and the clock do, its role changes by a claim, a grant, a promise or an end.
LEMMA ContractInit == Init => TM!Init
BY DEF Init, TM!Init, Role, KnowsSuccessor

\* What the contract leaves free stays of its type.
LEMMA ContractFree == TypeOK' => {KnowsSuccessor', masterMode', yielded'} \subseteq BOOLEAN
BY DEF TypeOK, KnowsSuccessor

\* A step that leaves the role as it is, and the wish of a holder standing.
LEMMA ContractStay ==
    ASSUME TypeOK', UNCHANGED <<Role, yieldingTo>>, confirmed => masterMode'
    PROVE  TM!Next
BY ContractFree DEF TM!Next, TM!Stay, Role

\* Leaving is the end of the role in the contract, when something allows it.
LEMMA ContractLeave ==
    ASSUME RoleInv, TypeOK', LeaveMasterMode,
           ~confirmed \/ yieldingTo # NoDev \/ ~KnowsSuccessor
    PROVE  TM!Next
<1>1. Role' = "idle" /\ yieldingTo' = NoDev /\ masterMode' = FALSE
    BY DEF LeaveMasterMode, Role
<1>2. CASE Role = "idle"
    <2>1. yieldingTo = NoDev /\ ~confirmed
        BY <1>2 DEF Role, RoleInv, YieldIsBounded
    <2> QED
        BY <1>1, <1>2, <2>1, ContractStay
<1>3. CASE Role # "idle"
    <2>1. Role \in {"asking", "yielding"} \/ (Role = "holding" /\ ~KnowsSuccessor)
        BY <1>3 DEF Role
    <2> QED
        BY <1>1, <2>1, ContractFree DEF TM!Next, TM!GiveUp
<1> QED
    BY <1>2, <1>3

\* The flag is asserted on nothing but a yield of the tracked master.
LEMMA GrantIsYield ==
    ASSUME TypeOK, NEW p \in AckIn \cup StatusIn, RecvStatus(p), ~confirmed, confirmed'
    PROVE  masterMode /\ yielded'
<1>1. CASE HandleAck(p)
    BY <1>1 DEF HandleAck, RecvStatus, Yields
<1>2. CASE HandleStatus(p)
    <2>1. confirmed' = (p.dev # activeNum /\ p.dev = currentMaster' /\ GrantsRole(p))
        BY <1>2 DEF HandleStatus, LeaveMasterMode, TypeOK
    <2> QED
        BY <1>2, <2>1 DEF HandleStatus, GrantsRole, RecvStatus, Yields
<1> QED
    BY <1>1, <1>2 DEF RecvStatus

\* Every step of either thread is a step of the contract, or none.
LEMMA ContractNext == TypeOK /\ RoleInv /\ [Next]_vars => [TM!Next]_(TM!vars)
<1> SUFFICES ASSUME TypeOK, RoleInv, [Next]_vars PROVE TM!Next
    BY DEF TM!vars
<1> TypeOK'
    BY TypeNext
<1>1. ASSUME UNCHANGED <<confirmed, yieldingTo, applied>>, masterMode => masterMode'
      PROVE  TM!Next
    BY <1>1, ContractStay DEF Role, RoleInv
<1>2. CASE UiCall \/ DeadlinePasses \/ BroadcastStatus \/ BroadcastNothing
           \/ ApplyNothing \/ RecvBeatTimeout \/ RecvStatusTimeout \/ MoveFlags
           \/ (\E s \in Sources : SelectSource(s)) \/ UNCHANGED vars
    <2>1. UNCHANGED <<confirmed, yieldingTo, applied>>
        BY <1>2
        DEF UiCall, DeadlinePasses, BroadcastStatus, BroadcastNothing, ApplyNothing,
            RecvBeatTimeout, RecvStatusTimeout, MoveFlags, LoadPre, RestorePre,
            RestoreIgnore, LoadIgnore, CapturePre, ForceIgnore, Accesses,
            SelectSource, vars, roleVars
    <2>2. CASE UiCall
        BY <1>1, <2>1, <2>2
        DEF UiCall, StoreMasterMode, StoreRequest, StorePreIgnore, StoreIgnore,
            SetForceMasterDevice
    <2>3. CASE ~UiCall
        <3>1. UNCHANGED masterMode
            BY <1>2, <2>3
            DEF DeadlinePasses, BroadcastStatus, BroadcastNothing, ApplyNothing,
                RecvBeatTimeout, RecvStatusTimeout, MoveFlags, LoadPre, RestorePre,
                RestoreIgnore, LoadIgnore, CapturePre, ForceIgnore, Accesses,
                SelectSource, vars, roleVars
        <3> QED
            BY <1>1, <2>1, <3>1
    <2> QED
        BY <2>2, <2>3
<1>3. ASSUME NEW p \in BeatIn, RecvBeat(p) PROVE TM!Next
    <2>1. CASE YieldRequested(p) /\ HandleYieldRequest(p)
        <3>1. p.dev \in Devs /\ p.dev # NoDev
            BY DatagramType, RoleAssumption
        <3>2. Role \in {"holding", "yielding"} /\ Role' = "yielding" /\ yieldingTo' = p.dev
              /\ UNCHANGED masterMode
            BY <2>1, <3>1 DEF YieldRequested, HandleYieldRequest, Role
        <3> QED
            BY <3>1, <3>2, ContractFree DEF TM!Next, TM!Promise
    <2>2. CASE ~(YieldRequested(p) /\ HandleYieldRequest(p))
        BY <1>1, <1>3, <2>2 DEF RecvBeat, HandleYieldRequest, HandleBeat, roleVars
    <2> QED
        BY <2>1, <2>2
<1>4. ASSUME NEW p \in AckIn \cup StatusIn, RecvStatus(p) PROVE TM!Next
    <2>1. CASE LeaveMasterMode /\ HandleStatus(p)
        <3>1. CASE confirmed
            <4>1. p.dev # NoDev
                BY <2>1, DatagramType, RoleAssumption DEF HandleStatus
            <4>2. confirmed' = FALSE
                BY <2>1 DEF LeaveMasterMode
            <4>3. p.dev = yieldingTo
                BY <2>1, <3>1, <4>2 DEF HandleStatus
            <4> QED
                BY <2>1, <4>1, <4>3, ContractLeave
        <3>2. CASE ~confirmed
            BY <2>1, <3>2, ContractLeave
        <3> QED
            BY <3>1, <3>2
    <2>2. CASE HandleAck(p) \/ (HandleStatus(p) /\ ~LeaveMasterMode)
        <3>1. /\ UNCHANGED <<masterMode, applied, yieldingTo>>
              /\ confirmed' \in BOOLEAN /\ (confirmed => confirmed')
            BY <2>2 DEF HandleAck, HandleStatus, TypeOK
        <3>2. CASE confirmed' = confirmed
            BY <1>1, <3>1, <3>2
        <3>3. CASE confirmed' # confirmed
            <4>1. ~confirmed /\ confirmed' /\ yieldingTo = NoDev
                BY <3>1, <3>3 DEF RoleInv, YieldIsBounded, TypeOK
            <4>2. Role \in {"idle", "asking"} /\ Role' = "holding"
                BY <3>1, <4>1 DEF Role
            <4>3. masterMode /\ yielded'
                BY <1>4, <4>1, GrantIsYield
            <4> QED
                BY <3>1, <4>2, <4>3, ContractFree DEF TM!Next, TM!Obtain
        <3> QED
            BY <3>2, <3>3
    <2> QED
        BY <1>4, <2>1, <2>2 DEF RecvStatus
<1>5. CASE ApplyEnter
    <2>1. Role' = "asking" /\ yieldingTo' = NoDev
        BY <1>5 DEF ApplyEnter, CancelRelease, CaptureSource, Role
    <2> QED
        BY <2>1, ContractFree DEF TM!Next, TM!Claim
<1>6. CASE ApplyRelease
    <2>1. CASE CanAppoint
        <3>1. currentMaster \in Devs /\ currentMaster # NoDev /\ confirmed
            BY <2>1 DEF CanAppoint, KnowsSuccessor, TypeOK
        <3>2. Role \in {"holding", "yielding"} /\ Role' = "yielding"
              /\ yieldingTo' = currentMaster /\ UNCHANGED masterMode
            BY <1>6, <2>1, <3>1 DEF ApplyRelease, Role
        <3> QED
            BY <3>1, <3>2, ContractFree DEF TM!Next, TM!Promise
    <2>2. CASE ~CanAppoint
        BY <1>6, <2>2, ContractLeave DEF ApplyRelease, CanAppoint
    <2> QED
        BY <2>1, <2>2
<1>7. CASE ReleaseTimeout
    <2>1. yieldingTo # NoDev
        BY <1>7 DEF ReleaseTimeout, RoleInv, YieldIsBounded
    <2> QED
        BY <1>7, <2>1, ContractLeave DEF ReleaseTimeout
<1> QED
    BY <1>2, <1>3, <1>4, <1>5, <1>6, <1>7 DEF Next, UiThread, Loop

\* Spec => TM!Spec, the contract in full.
THEOREM RoleContract == Spec => ImplementsTempoMaster
<1>1. TypeOK /\ RoleInv /\ [Next]_vars => [TM!Next]_(TM!vars)
    BY ContractNext
<1> QED
    BY <1>1, ContractInit, RoleInvariant, PTL DEF Spec, ImplementsTempoMaster, TM!Spec

\* A holder leaves only after naming a successor, unless it knows none.
THEOREM LeavesAnnounced == Spec => NeverLeaveUnannounced
<1>1. TypeOK /\ RoleInv /\ [Next]_vars =>
        [confirmed /\ masterMode /\ ~masterMode' => yieldingTo # NoDev \/ ~CanAppoint]_vars
    <2> SUFFICES ASSUME TypeOK, RoleInv, [Next]_vars, confirmed, masterMode, ~masterMode'
                 PROVE  yieldingTo # NoDev \/ ~CanAppoint
        OBVIOUS
    <2>1. CASE UiCall
        BY <2>1 DEF UiCall, StoreMasterMode, StoreRequest, StorePreIgnore, StoreIgnore,
                    SetForceMasterDevice
    <2>2. ASSUME NEW p \in BeatIn, RecvBeat(p) PROVE FALSE
        <3>1. masterMode' = masterMode
            BY <2>2 DEF RecvBeat, HandleYieldRequest, HandleBeat, roleVars
        <3> QED
            BY <3>1
    <2>3. ASSUME NEW p \in AckIn \cup StatusIn, RecvStatus(p) PROVE yieldingTo # NoDev
        <3>1. HandleStatus(p) /\ LeaveMasterMode
            BY <2>3 DEF RecvStatus, HandleAck, HandleStatus
        <3>2. p.dev # NoDev
            BY <3>1, DatagramType, RoleAssumption DEF HandleStatus
        <3>3. confirmed' = FALSE
            BY <3>1 DEF LeaveMasterMode
        <3> QED
            BY <3>1, <3>2, <3>3 DEF HandleStatus
    <2>4. CASE ApplyRelease
        BY <2>4 DEF ApplyRelease
    <2>5. CASE ReleaseTimeout
        BY <2>5 DEF ReleaseTimeout, RoleInv, YieldIsBounded
    <2>6. CASE DeadlinePasses \/ BroadcastStatus \/ BroadcastNothing \/ ApplyNothing
               \/ ApplyEnter \/ RecvBeatTimeout \/ RecvStatusTimeout \/ MoveFlags
               \/ (\E s \in Sources : SelectSource(s)) \/ UNCHANGED vars
        BY <2>6
        DEF DeadlinePasses, BroadcastStatus, BroadcastNothing, ApplyNothing, ApplyEnter,
            RecvBeatTimeout, RecvStatusTimeout, MoveFlags, LoadPre, RestorePre,
            RestoreIgnore, LoadIgnore, CapturePre, ForceIgnore, Accesses,
            SelectSource, vars, roleVars
    <2> QED
        BY <2>1, <2>2, <2>3, <2>4, <2>5, <2>6 DEF Next, UiThread, Loop
<1> QED
    BY <1>1, RoleInvariant, PTL DEF Spec, NeverLeaveUnannounced
=============================================================================
