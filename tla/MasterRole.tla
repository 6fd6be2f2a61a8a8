----------------------------- MODULE MasterRole -----------------------------
(***************************************************************************)
(* The tempo-master role of the bridge (lib/prolink/bridge.cpp) and the    *)
(* setters the UI thread drives it with (ui_apply_source in                *)
(* firmware/src/main.cpp).                                                 *)
(*                                                                         *)
(* Two threads share the state.  The UI thread runs the setters, one call  *)
(* at a time; the bridge thread runs Bridge::run(), one phase at a time:   *)
(*                                                                         *)
(*    recvBeat -> recvStatus -> apply -> broadcast -> recvBeat -> ...      *)
(*                                                                         *)
(* Both write ignore_master_ and pre_master_ignore_, and neither holds a   *)
(* lock: every load and store of the two is a step of its own.             *)
(*                                                                         *)
(* The module is open: a receive handler is an action on the datagram it   *)
(* is given, and Next lets any datagram arrive at any time.  HandoffLink   *)
(* closes the system with decks and socket queues.                         *)
(***************************************************************************)
EXTENDS Integers, Sequences

CONSTANTS Devs,          \* device numbers seen on the link, the box's included
          Ips,           \* source addresses, NoIp excluded
          IdleNum,       \* cfg_.device_num: the number used while not master
          MasterNum,     \* cfg_.master_device_num: the player slot of a master
          Pins,          \* device numbers the panel offers as "player N"
          Burst,         \* handoff requests sent before giving up (30)
          Syncns,        \* master-generation counters seen on the wire
          MaxPlausible,  \* MAX_PLAUSIBLE_SYNCN
          SyncnMod       \* 2^32: where the counter's arithmetic wraps

NoIp == 0
NoDev == 0
NoHandoff == 255         \* Mh byte of a player that yields to nobody
kSourceMaster == 5
kSourceOff == 6

Sources == {0, kSourceMaster, kSourceOff} \cup Pins

ASSUME RoleAssumption ==
    /\ Devs \subseteq 1..254
    /\ {IdleNum, MasterNum} \subseteq Devs
    /\ IdleNum # MasterNum
    /\ NoIp \notin Ips
    /\ Pins \subseteq Devs \cap 1..4
    /\ Burst \in Nat
    /\ MaxPlausible \in Nat
    /\ SyncnMod \in Nat \ {0}
    /\ Syncns \subseteq 0..(SyncnMod - 1)

VARIABLES
    masterMode,     \* master_mode_
    request,        \* master_mode_request_: "none", "enter" or "release"
    confirmed,      \* master_confirmed_: we may assert the master flag
    applied,        \* master_applied_: the loop has entered the role
    yieldingTo,     \* yielding_to_: the device named by our Mh
    deadline,       \* release_deadline_ms_: "off", "armed", or "due" (3 s passed)
    countdown,      \* master_request_countdown_
    activeNum,      \* active_device_num_: the number we present
    currentMaster,  \* current_master_
    masterIp,       \* master_ip_
    forced,         \* force_master_device_
    maxSyncn,       \* max_syncn_seen_
    ignore,         \* ignore_master_
    preIgnore,      \* pre_master_ignore_
    access,         \* the access to these two that the bridge thread makes next, "none"
                    \* unless it is entering or leaving the role
    held,           \* the value it has loaded and will store
    pc,             \* the phase of the run loop
    sent,           \* the datagrams the last bridge step sent
    ui,             \* the setter calls the UI thread has still to make
    choosing,       \* the first of them is half made: set_ignore_master() has stored
                    \* pre_master_ignore_ and not yet ignore_master_
    lastApplied,    \* last_applied_src: the source the panel pushed last
    userIgnore,     \* history: the last value the user gave set_ignore_master()
    overlapped,     \* history: it was given while the bridge thread was moving another
    yielded         \* history: the bridge step just made read a yield to the box

roleVars == <<masterMode, confirmed, applied, yieldingTo, deadline, countdown, activeNum>>
trackVars == <<currentMaster, masterIp, forced, maxSyncn>>
flagVars == <<ignore, preIgnore, held, userIgnore, overlapped>>
uiVars == <<ui, choosing, lastApplied>>
vars == <<roleVars, request, trackVars, flagVars, access, uiVars, pc, sent, yielded>>

-----------------------------------------------------------------------------
\* Datagrams.

BeatIn == [type: {"beat", "yieldReq"}, dev: Devs, ip: Ips]
AckIn == [type: {"ack"}, ip: Ips]
StatusIn == [type: {"status"}, dev: Devs, ip: Ips, master: BOOLEAN,
             mh: Devs \cup {NoHandoff}, syncn: Syncns]

Out == [type: {"appoint", "ack"}, to: Ips]
       \cup [type: {"handoffReq"}, dev: Devs, to: Ips]
       \cup [type: {"status"}, dev: Devs, master: BOOLEAN,
             mh: Devs \cup {NoHandoff}, syncn: 0..(SyncnMod - 1)]

\* A setter call the UI thread makes; dev is the argument of "pin".
Calls == [op: {"modeOn", "enter", "release", "ignoreOn", "ignoreOff", "pin"},
          dev: Pins \cup {NoDev}]

TypeOK ==
    /\ masterMode \in BOOLEAN
    /\ request \in {"none", "enter", "release"}
    /\ confirmed \in BOOLEAN
    /\ applied \in BOOLEAN
    /\ yieldingTo \in Devs \cup {NoDev}
    /\ deadline \in {"off", "armed", "due"}
    /\ countdown \in 0..Burst
    /\ activeNum \in Devs
    /\ currentMaster \in Devs \cup {NoDev}
    /\ masterIp \in Ips \cup {NoIp}
    /\ forced \in Pins \cup {NoDev}
    /\ maxSyncn \in 0..(SyncnMod - 1)
    /\ ignore \in BOOLEAN
    /\ preIgnore \in BOOLEAN
    /\ access \in {"none", "loadPre", "restorePre", "restoreIgnore",
                   "loadIgnore", "capturePre", "forceIgnore"}
    /\ held \in BOOLEAN
    /\ choosing \in BOOLEAN
    /\ userIgnore \in BOOLEAN
    /\ overlapped \in BOOLEAN
    /\ yielded \in BOOLEAN
    /\ pc \in {"recvBeat", "recvStatus", "apply", "broadcast"}
    /\ sent \in SUBSET Out
    /\ ui \in Seq(Calls)
    /\ lastApplied \in Sources

Init ==
    /\ masterMode = FALSE /\ request = "none"
    /\ confirmed = FALSE /\ applied = FALSE
    /\ yieldingTo = NoDev /\ deadline = "off" /\ countdown = 0
    /\ activeNum = IdleNum
    /\ currentMaster = NoDev /\ masterIp = NoIp /\ forced = NoDev /\ maxSyncn = 0
    /\ ignore = FALSE /\ preIgnore = FALSE /\ userIgnore = FALSE
    /\ access = "none" /\ held = FALSE /\ overlapped = FALSE
    /\ pc = "recvBeat" /\ sent = {} /\ yielded = FALSE
    /\ ui = <<>> /\ choosing = FALSE /\ lastApplied = 0

-----------------------------------------------------------------------------
\* The UI thread.

Call(op) == [op |-> op, dev |-> NoDev]

\* The setters ui_apply_source() calls for source s; master_mode() is read here.
ApplySource(s) ==
    IF s = kSourceMaster
    THEN <<Call("modeOn"), Call("enter")>>
    ELSE (IF masterMode THEN <<Call("release")>> ELSE <<>>)
         \o (IF s = kSourceOff
             THEN <<Call("ignoreOn"), Call("pin")>>
             ELSE <<Call("ignoreOff"), [op |-> "pin", dev |-> s]>>)

\* The panel pushes a source to the bridge.  Which one and when is the panel's
\* business: here it may be any source at any time, but the master source not
\* twice running (re-confirming it is a no-op).
SelectSource(s) ==
    /\ ui = <<>>
    /\ s = kSourceMaster => lastApplied # kSourceMaster
    /\ ui' = ApplySource(s)
    /\ lastApplied' = s
    /\ UNCHANGED <<roleVars, request, trackVars, flagVars, access, choosing, pc, sent,
                   yielded>>

\* set_master_mode(): two stores, and the bridge thread may run between them.
StoreMasterMode(c) ==
    /\ c.op = "modeOn"
    /\ masterMode' = TRUE
    /\ ui' = Tail(ui)
    /\ UNCHANGED <<request, forced, currentMaster, flagVars, choosing>>

StoreRequest(c) ==
    /\ c.op \in {"enter", "release"}
    /\ request' = c.op
    /\ ui' = Tail(ui)
    /\ UNCHANGED <<masterMode, forced, currentMaster, flagVars, choosing>>

\* The bridge thread has loaded a value and not yet stored it everywhere.
Moving == access \in {"restorePre", "restoreIgnore", "capturePre"}

\* set_ignore_master(): two stores as well, to two flags.
StorePreIgnore(c) ==
    /\ c.op \in {"ignoreOn", "ignoreOff"} /\ ~choosing
    /\ choosing' = TRUE
    /\ preIgnore' = (c.op = "ignoreOn")
    /\ userIgnore' = preIgnore'
    /\ overlapped' = (Moving /\ held # preIgnore')
    /\ UNCHANGED <<masterMode, request, forced, currentMaster, ignore, held, ui>>

StoreIgnore(c) ==
    /\ choosing /\ choosing' = FALSE
    /\ ignore' = (c.op = "ignoreOn")
    /\ ui' = Tail(ui)
    /\ UNCHANGED <<masterMode, request, forced, currentMaster, preIgnore, held,
                   userIgnore, overlapped>>

SetForceMasterDevice(c) ==
    /\ c.op = "pin"
    /\ forced' = c.dev
    /\ currentMaster' = IF c.dev # NoDev THEN c.dev ELSE currentMaster
    /\ ui' = Tail(ui)
    /\ UNCHANGED <<masterMode, request, flagVars, choosing>>

\* The next store of the setter call the UI thread is in.
UiCall ==
    /\ ui # <<>>
    /\ \/ StoreMasterMode(Head(ui)) \/ StoreRequest(Head(ui))
       \/ StorePreIgnore(Head(ui)) \/ StoreIgnore(Head(ui))
       \/ SetForceMasterDevice(Head(ui))
    /\ UNCHANGED <<confirmed, applied, yieldingTo, deadline, countdown, activeNum,
                   masterIp, maxSyncn, access, lastApplied, pc, sent, yielded>>

-----------------------------------------------------------------------------
\* The bridge thread: leaving the role, and the datagrams it receives.

\* The variants named ..._Mut are wrong on purpose: PROJECT.json pairs each with
\* the definition it spoils and the property that notices.

\* restart_device_claim(): the number the handshake then claims.
RestartDeviceClaim(n) == activeNum' = n

LeaveMasterMode_MutSlot ==
    /\ masterMode' = FALSE /\ confirmed' = FALSE /\ applied' = FALSE
    /\ yieldingTo' = NoDev /\ deadline' = "off" /\ countdown' = 0
    /\ access' = "loadPre"
    /\ UNCHANGED activeNum

LeaveMasterMode_MutCountdown ==
    /\ masterMode' = FALSE /\ confirmed' = FALSE /\ applied' = FALSE
    /\ yieldingTo' = NoDev /\ deadline' = "off"
    /\ RestartDeviceClaim(IdleNum)
    /\ access' = "loadPre"
    /\ UNCHANGED countdown

\* leave_master_mode_(): the single way out of the role.  What it does to the two
\* source flags follows, access by access.
LeaveMasterMode ==
    /\ masterMode' = FALSE
    /\ confirmed' = FALSE
    /\ applied' = FALSE
    /\ yieldingTo' = NoDev
    /\ deadline' = "off"
    /\ countdown' = 0
    /\ RestartDeviceClaim(IdleNum)
    /\ access' = "loadPre"

\* Nothing is sent, and nothing read that yields the role.
Silent == sent' = {} /\ yielded' = FALSE

YieldRequested_MutDeadline(p) ==
    /\ masterMode /\ confirmed
    /\ p.dev # activeNum
    /\ yieldingTo' = p.dev
    /\ sent' = {[type |-> "ack", to |-> p.ip]} /\ yielded' = FALSE
    /\ UNCHANGED deadline

\* A 0x26 on the beat socket: handle_master_yield_request, called only while
\* the box holds the role.
YieldRequested(p) ==
    /\ masterMode /\ confirmed
    /\ p.dev # activeNum
    /\ yieldingTo' = p.dev
    /\ deadline' = "armed"
    /\ sent' = {[type |-> "ack", to |-> p.ip]} /\ yielded' = FALSE

HandleYieldRequest(p) ==
    /\ p.type = "yieldReq"
    /\ \/ YieldRequested(p)
       \/ /\ ~(masterMode /\ confirmed /\ p.dev # activeNum)
          /\ Silent
          /\ UNCHANGED <<yieldingTo, deadline>>
    /\ UNCHANGED <<masterMode, confirmed, applied, countdown, activeNum, request,
                   trackVars, flagVars, access, uiVars>>

\* The part of handle_beat_packet that concerns the role: master tracking.
HandleBeat(p) ==
    /\ p.type = "beat"
    /\ currentMaster' = IF p.dev = activeNum THEN currentMaster
                        ELSE IF forced # NoDev THEN forced
                        ELSE IF currentMaster = NoDev THEN p.dev
                        ELSE currentMaster
    /\ Silent
    /\ UNCHANGED <<roleVars, request, masterIp, forced, maxSyncn, flagVars, access,
                   uiVars>>

\* A 0x27 on the status socket: the device we asked agrees to yield.
HandleAck(p) ==
    /\ p.type = "ack"
    /\ confirmed' = (confirmed \/ (masterMode /\ p.ip = masterIp))
    /\ UNCHANGED <<masterMode, applied, yieldingTo, deadline, countdown, activeNum,
                   request, trackVars, flagVars, access, uiVars>>

GrantsRole_Mut(p) == masterMode /\ ~confirmed

\* A status of the tracked master that names us in its Mh yields the role to us.
GrantsRole(p) == masterMode /\ ~confirmed /\ p.mh = activeNum

\* handle_status_packet as far as the role is concerned.
HandleStatus(p) ==
    LET own == p.dev = activeNum
        tracked == IF forced # NoDev THEN forced
                   ELSE IF p.master \/ currentMaster = NoDev THEN p.dev
                   ELSE currentMaster
        fromMaster == ~own /\ p.dev = tracked
        stepDown == fromMaster /\ p.dev = yieldingTo /\ p.master
        granted == fromMaster /\ GrantsRole(p)
    IN  /\ p.type = "status"
        /\ currentMaster' = IF own THEN currentMaster ELSE tracked
        /\ masterIp' = IF fromMaster THEN p.ip ELSE masterIp
        /\ maxSyncn' = IF granted \/ (~own /\ p.syncn \in (maxSyncn + 1)..MaxPlausible)
                       THEN p.syncn ELSE maxSyncn
        /\ \/ /\ stepDown
              /\ LeaveMasterMode
           \/ /\ ~stepDown
              /\ confirmed' = (confirmed \/ granted)
              /\ UNCHANGED <<masterMode, applied, yieldingTo, deadline, countdown,
                             activeNum, access>>
        /\ UNCHANGED <<forced, request, flagVars, uiVars>>

\* The datagram is one by which the tracked master yields to the box: a 0x27 from its
\* address, or a status of its own that names our number.
Yields(p) ==
    \/ p.type = "ack" /\ p.ip = masterIp
    \/ p.type = "status" /\ p.dev = currentMaster' /\ p.dev # activeNum /\ p.mh = activeNum

-----------------------------------------------------------------------------
\* The two source flags, while the bridge thread enters or leaves the role.  Every
\* access is a step: the UI thread may choose a source between any two.

Accesses(now, next) ==
    /\ access = now /\ access' = next
    /\ Silent
    /\ UNCHANGED <<roleVars, request, trackVars, userIgnore, uiVars, pc>>

\* set_ignore_master(pre_master_ignore_.load()), in leave_master_mode_().
LoadPre ==
    /\ Accesses("loadPre", "restorePre")
    /\ held' = preIgnore
    /\ UNCHANGED <<ignore, preIgnore, overlapped>>

RestorePre ==
    /\ Accesses("restorePre", "restoreIgnore")
    /\ preIgnore' = held
    /\ UNCHANGED <<ignore, held, overlapped>>

RestoreIgnore ==
    /\ Accesses("restoreIgnore", "none")
    /\ ignore' = held
    /\ held' = FALSE
    /\ UNCHANGED <<preIgnore, overlapped>>

\* pre_master_ignore_.store(ignore_master_.load()), on entering: the value may be one
\* that the user is just replacing.
LoadIgnore ==
    /\ Accesses("loadIgnore", "capturePre")
    /\ held' = ignore
    /\ overlapped' = (overlapped \/ (choosing /\ ignore # userIgnore))
    /\ UNCHANGED <<ignore, preIgnore>>

CapturePre ==
    /\ Accesses("capturePre", "forceIgnore")
    /\ preIgnore' = held
    /\ held' = FALSE
    /\ UNCHANGED <<ignore, overlapped>>

ForceIgnore_Mut ==
    /\ Accesses("forceIgnore", "none")
    /\ ignore' = TRUE /\ preIgnore' = TRUE
    /\ UNCHANGED <<held, overlapped>>

\* A box in the role ignores the decks, by the flag alone: that is no choice of the
\* user's.
ForceIgnore ==
    /\ Accesses("forceIgnore", "none")
    /\ ignore' = TRUE
    /\ UNCHANGED <<preIgnore, held, overlapped>>

MoveFlags ==
    \/ LoadPre \/ RestorePre \/ RestoreIgnore
    \/ LoadIgnore \/ CapturePre \/ ForceIgnore

-----------------------------------------------------------------------------
\* The phases of the run loop.

At(phase) == pc = phase /\ access = "none"

\* The beat socket delivers p, or its receive times out.
RecvBeat(p) ==
    /\ At("recvBeat")
    /\ pc' = "recvStatus"
    /\ HandleYieldRequest(p) \/ HandleBeat(p)

RecvBeatTimeout ==
    /\ At("recvBeat")
    /\ pc' = "recvStatus"
    /\ Silent
    /\ UNCHANGED <<roleVars, request, trackVars, flagVars, access, uiVars>>

RecvStatus(p) ==
    /\ At("recvStatus")
    /\ pc' = "apply"
    /\ HandleAck(p) \/ HandleStatus(p)
    /\ yielded' = Yields(p) /\ sent' = {}

RecvStatusTimeout ==
    /\ At("recvStatus")
    /\ pc' = "apply"
    /\ Silent
    /\ UNCHANGED <<roleVars, request, trackVars, flagVars, access, uiVars>>

\* apply_master_mode_request(), no request pending.
ApplyNothing ==
    /\ At("apply") /\ request = "none"
    /\ pc' = "broadcast"
    /\ Silent
    /\ UNCHANGED <<roleVars, request, trackVars, flagVars, access, uiVars>>

CancelRelease_Mut == deadline' = "off" /\ UNCHANGED yieldingTo

\* A release still in flight is cancelled.
CancelRelease == yieldingTo' = NoDev /\ deadline' = "off"

\* How the box ran before the role is remembered on the real transition only.
CaptureSource ==
    /\ access' = IF applied THEN "forceIgnore" ELSE "loadIgnore"
    /\ applied' = TRUE

\* apply_master_mode_request(), entering the role.
ApplyEnter ==
    /\ At("apply") /\ request = "enter"
    /\ pc' = "broadcast"
    /\ request' = "none"
    /\ confirmed' = FALSE
    /\ CancelRelease
    /\ RestartDeviceClaim(MasterNum)
    /\ CaptureSource
    /\ countdown' = Burst
    /\ Silent
    /\ UNCHANGED <<masterMode, trackVars, flagVars, uiVars>>

\* apply_master_mode_request(), releasing: appoint a deck when we hold the role
\* and know one, drop straight out otherwise.
KnowsSuccessor == currentMaster \notin {NoDev, activeNum} /\ masterIp # NoIp
CanAppoint == confirmed /\ KnowsSuccessor

ApplyRelease_Mut ==
    /\ At("apply") /\ request = "release"
    /\ pc' = "broadcast"
    /\ request' = "none"
    /\ LeaveMasterMode
    /\ Silent
    /\ UNCHANGED <<trackVars, flagVars, uiVars>>

ApplyRelease ==
    /\ At("apply") /\ request = "release"
    /\ pc' = "broadcast"
    /\ request' = "none"
    /\ \/ /\ CanAppoint
          /\ yieldingTo' = currentMaster
          /\ deadline' = "armed"
          /\ countdown' = 0
          /\ sent' = {[type |-> "appoint", to |-> masterIp]} /\ yielded' = FALSE
          /\ UNCHANGED <<masterMode, confirmed, applied, activeNum, access>>
       \/ /\ ~CanAppoint
          /\ LeaveMasterMode
          /\ Silent
    /\ UNCHANGED <<trackVars, flagVars, uiVars>>

\* maybe_broadcast_master_status(): the release deadline has passed.
ReleaseTimeout ==
    /\ At("broadcast") /\ masterMode /\ deadline = "due"
    /\ pc' = "recvBeat"
    /\ LeaveMasterMode
    /\ Silent
    /\ UNCHANGED <<request, trackVars, flagVars, uiVars>>

StatusOut == [type |-> "status", dev |-> activeNum, master |-> confirmed,
              mh |-> IF yieldingTo # NoDev THEN yieldingTo ELSE NoHandoff,
              syncn |-> (maxSyncn + 1) % SyncnMod]

StillAsking_Mut == ~confirmed /\ masterIp # NoIp

\* The burst of handoff requests is not over.
StillAsking == ~confirmed /\ countdown > 0 /\ masterIp # NoIp

\* maybe_broadcast_master_status(): 200 ms have passed since the last one.
BroadcastStatus ==
    /\ At("broadcast") /\ masterMode /\ deadline # "due"
    /\ pc' = "recvBeat"
    /\ countdown' = IF StillAsking THEN countdown - 1 ELSE countdown
    /\ sent' = {StatusOut} \cup
                (IF StillAsking
                 THEN {[type |-> "handoffReq", dev |-> activeNum, to |-> masterIp]}
                 ELSE {})
    /\ yielded' = FALSE
    /\ UNCHANGED <<masterMode, confirmed, applied, yieldingTo, deadline, activeNum,
                   request, trackVars, flagVars, access, uiVars>>

\* maybe_broadcast_master_status(): not master, or not yet time.
BroadcastNothing ==
    /\ At("broadcast") /\ (~masterMode \/ deadline # "due")
    /\ pc' = "recvBeat"
    /\ Silent
    /\ UNCHANGED <<roleVars, request, trackVars, flagVars, access, uiVars>>

\* Three seconds pass with a release pending.
DeadlinePasses ==
    /\ deadline = "armed"
    /\ deadline' = "due"
    /\ UNCHANGED <<masterMode, confirmed, applied, yieldingTo, countdown, activeNum,
                   request, trackVars, flagVars, access, uiVars, pc, sent, yielded>>

-----------------------------------------------------------------------------
UiThread ==
    \/ \E s \in Sources : SelectSource(s)
    \/ UiCall

Loop ==
    \/ ApplyNothing \/ ApplyEnter \/ ApplyRelease
    \/ ReleaseTimeout \/ BroadcastStatus \/ BroadcastNothing
    \/ MoveFlags

Next ==
    \/ UiThread
    \/ \E p \in BeatIn : RecvBeat(p)
    \/ RecvBeatTimeout
    \/ \E p \in AckIn \cup StatusIn : RecvStatus(p)
    \/ RecvStatusTimeout
    \/ Loop
    \/ DeadlinePasses

Spec == Init /\ [][Next]_vars

-----------------------------------------------------------------------------
\* Outside the role, once leaving it is over, the box follows or ignores the decks as
\* the user last said: the value leave_master_mode_() restores is neither the one the
\* role forced, nor one captured by re-entering it, nor one the user has since
\* replaced.  The exception is a choice made between a load of the bridge thread and
\* the stores that go with it (bridge.cpp:136, and 192 with 310-311), which may lose.
UserChoiceRestored ==
    ~applied /\ access = "none" /\ ~choosing => overlapped \/ ignore = userIgnore

\* A device is named in our Mh exactly while a release deadline runs, and only
\* by a box that holds the role: nobody is promised the role forever, and no
\* attempt to take the role starts out by giving it back.
YieldIsBounded ==
    /\ yieldingTo # NoDev <=> deadline # "off"
    /\ yieldingTo # NoDev => masterMode /\ confirmed

\* The player slot is presented exactly while the loop is in the role: every
\* way out of it hands the slot back.
SlotFollowsRole == activeNum = IF applied THEN MasterNum ELSE IdleNum

\* The box asks for the role only from the player slot that can hold it.
RequestsFromPlayerSlot ==
    \A m \in sent : m.type = "handoffReq" => m.dev = MasterNum

\* A box that holds the role leaves it only after naming a successor in its Mh,
\* unless it knows none: the link is never left without a tempo master.
NeverLeaveUnannounced ==
    [][confirmed /\ masterMode /\ ~masterMode' => yieldingTo # NoDev \/ ~CanAppoint]_vars

\* The role as the link sees it, and the contract the bridge keeps about it: only a
\* holder promises the role, a promise is withdrawn by claiming anew or ends in
\* leaving, and the box begins to assert the flag only while the operator wants it to,
\* on reading a datagram by which the tracked master yields to it.
Role == IF confirmed THEN IF yieldingTo = NoDev THEN "holding" ELSE "yielding"
        ELSE IF applied THEN "asking" ELSE "idle"

TM == INSTANCE TempoMaster WITH role <- Role, heir <- yieldingTo, known <- KnowsSuccessor,
                                wanted <- masterMode
ImplementsTempoMaster == TM!Spec

\* The generation we announce is never the lowest one: the bound on Syncn keeps
\* the highest one seen, plus one, from wrapping to zero (docs/architecture.md,
\* "Treating the network as hostile").
NeverLowestGeneration == \A m \in sent : m.type = "status" => m.syncn # 0

\* "A source picked *during* a pending release must win over the value captured when
\* master mode began" (bridge.hpp:296-298), whenever it is picked: UserChoiceRestored
\* without its exception.
ChoiceAlwaysWins == ~applied /\ access = "none" /\ ~choosing => ignore = userIgnore
=============================================================================
