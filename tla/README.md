# Verification of the Pro DJ Link to MIDI clock bridge

TLA+ specifications of the program in `src/`, the TLC configurations that
model-check them, and proofs checked by TLAPS. The program is a box (ESP32
firmware, or a desktop application around the same library) that joins a
Pro DJ Link network as a virtual player, follows the tempo master deck, and
sends MIDI clock, Start and Stop to slaves. It can also become the tempo master
itself.

Line numbers in this document and in `PROJECT.json` are those of the commit in
`src/`.

## 1. The system

### Components

| Component | Where | State | Operations |
|---|---|---|---|
| Tempo-master role | `lib/prolink/bridge.cpp` | `master_mode_`, `master_mode_request_`, `master_confirmed_`, `yielding_to_`, `release_deadline_ms_`, `pre_master_ignore_`, `active_device_num_`, `max_syncn_seen_` | `set_master_mode`, `apply_master_mode_request`, `handle_master_yield_request`, the 0x27 and Mh branches, `maybe_broadcast_master_status`, `leave_master_mode_` |
| MIDI transport | `lib/prolink/bridge.cpp` | `playing_`, `holding_`, the debounced play flag, packet and beat ages, bar-slip detector, `resync_request_`, link state | `handle_beat_packet`, `handle_status_packet`, `maybe_stop_on_silence`, `maybe_resync`, the cold start, six setters |
| Bridge tempo | `lib/prolink/bridge.cpp` | `smoothed_bpm_`, `manual_bpm_`, offsets | `apply_tempo_`, `set_manual_bpm`, `push_offset` |
| Device claim | `lib/prolink/bridge.cpp` | claim stage and timers, number presented | `restart_device_claim`, `step_device_claim`, `maybe_send_keepalive` |
| MIDI clock | `lib/prolink/clock.cpp`, `timer_esp.cpp`, `timer_posix.cpp` | running flag, period, phase accumulator | `start`, `stop`, `update_tempo`, `feed_beat`, `set_offset_us`, `on_tick_` |
| Packets | `lib/prolink/packets.cpp` | none | parsers and builders |
| Panel | `firmware/src/main.cpp` (`ui_task`) | mode, selected source, auto-master latch, taps, settings | one frame every 40 ms; `ui_apply_source` |
| Bring-up | `firmware/src/main.cpp`, `udp_w5500.cpp`, `desktop/udp_posix.cpp` | sockets, `g_bridge`, `g_clock`, `g_link_up` | `bridge_task` |
| USB host MIDI | `firmware/src/midi_host_usb.cpp` | byte queue, device, transfer | enqueue, sender task, attach, detach |
| Input | `firmware/src/ui_input.cpp` | quadrature state, accumulators, button timers | interrupts, polls, take functions |
| Display, MIDI UART, desktop GUI, tools | rest of `firmware/src`, `desktop` | presentation | pure input and output |

### How they interact

Two threads share a `Bridge` without a lock. The bridge thread runs
`Bridge::run()`: read a beat datagram (or time out), read a status datagram (or
time out), apply a pending role request, broadcast a status, run the silence
timeout, the re-sync request and the cold start, and start over. The UI thread
calls setters at any time; each is one or several stores to atomics. Every
handler in the loop runs to its end before the next, and the
interleavings that matter are setter stores between the phases of the loop,
between two reads of one flag within a phase, and between the loads and stores by
which the bridge thread itself moves `ignore_master_` and `pre_master_ignore_`, the two
flags that both threads write. A third context, the clock's timer,
sends MIDI clock bytes from `Clock::on_tick_`.

The bridge talks to the decks in lossy, reorderable UDP broadcasts and to itself
through the loopback of its own broadcasts. Only the hand-off of the role is a
protocol with two sides: 0x26 asks, 0x27 agrees, a status with the Mh byte names
the successor, 0x2a appoints one, and a status with the master flag takes over.

### What is hard in it

* The role is entered, re-entered and left by two threads and four exits, and
  each exit has to restore what the entry saved (`pre_master_ignore_`, the
  device number), while the other thread may be choosing anew.
* A hand-off completes, is refused, is cancelled, or times out, with any datagram
  lost and old ones still queued.
* The clock starts on a beat but stops on a status, on a debounced flag, on
  silence whose limit depends on the link, or not at all while keep-playing
  holds it.
* The bar is re-aligned from a stream of beats that may have gaps.
* A re-sync waits for an event that may never come.

### What makes each component correct

* Role: the user's choice of source survives it; a promise of the role ends; the
  player slot is presented exactly with the role; no holder leaves without naming
  a successor; two masters are never left standing.
* Device claim: no keep-alive before the handshake is complete; a new claim
  supersedes the old one.
* Transport: no early Stop; no Stop during a link outage shorter than the grace;
  no audible re-alignment without a reason; a slave's bar is the deck's bar; a
  stopped clock remembers nothing; a deck that plays is followed; a tap is served.
* Tempo: only the authority sets it; it is always in the sane range.
* Clock: no clock byte between a Stop and the next Start; clock and slave agree on
  the place in the beat; the box comes to lead the deck by the offset.
* Panel: the source shown is the source the bridge applies; the role is borrowed
  only with permission; nothing given up comes back; a press has one meaning; a
  trimmed offset reaches NVS.
* USB host MIDI: the endpoint used belongs to the interface claimed; every byte is
  counted; a device that has had nothing dropped plays when the box plays.
* Input: one step per detent; real presses only; a nudge button steps once, then
  repeats at a bounded rate; a combo nudges nothing.

`PROJECT.json` lists the hazards behind these, each at its line.

## 2. Modules

| Module | Models | Built on |
|---|---|---|
| `TempoMaster` | what the box promises the link about the role, without threads or datagrams | |
| `MasterRole` | the role in `bridge.cpp`, and the setter calls of `ui_apply_source()` | |
| `RoleClaim` | the handshake for the device number and the keep-alives, beside the role | `MasterRole` |
| `HandoffLink` | `MasterRole` closed with decks, lossy sockets and loopback | `MasterRole` |
| `Transport` | start, stop, hold, re-align, re-sync of the MIDI clock | |
| `DeckFollow` | `Transport` closed with the master deck, another deck and a MIDI slave | `Transport` |
| `Panel` | the front panel's frame over what it sees of the bridge, with power failures | |
| `MidiStream` | what a MIDI slave may expect | |
| `MidiClock` | `Clock` over the POSIX thread and over the one-shot `esp_timer`, with a slave | `MidiStream` (refinement) |
| `MidiHostUsb` | byte queue, sender, transfer, attach and detach of the USB output | |
| `MidiOut` | `MidiClock` feeding `MidiHostUsb` through the fan-out | both |
| `PhaseLock` | the phase error shared by timer, bridge and UI thread | |
| `FrontInput` | knob, buttons, nudge buttons, poll by poll | |
| `MasterRoleProofs`, `TransportProofs`, `DeckFollowProofs`, `MidiClockProofs`, `MidiOutProofs`, `PanelProofs`, `FrontInputProofs` | theorems about the module in the name | that module, TLAPS |
| `RoleSystemProofs` | theorems about `RoleClaim` and `HandoffLink` | both, `MasterRoleProofs` |

A definition named `..._Mut` is a wrong variant of the definition that follows it. It
is used by nothing; put in its place, it shows that a property can be violated.

### MasterRole

One variable per member of `Bridge` that the role uses (named in the
declarations), the phase of the run loop `pc`, and the setter calls the UI thread
has still to make, `ui`. `SelectSource` expands a source to the calls
`ui_apply_source()` makes for it, and `UiCall` makes the next store of one:
`set_master_mode()` is two stores (`StoreMasterMode`, `StoreRequest`), and so is
`set_ignore_master()` (`StorePreIgnore`, `StoreIgnore`, with `choosing` between them). Each handler or phase of the loop is one action: `HandleYieldRequest`,
`HandleBeat`, `HandleAck`, `HandleStatus`, `ApplyNothing`, `ApplyEnter`,
`ApplyRelease`, `ReleaseTimeout`, `BroadcastStatus`, `BroadcastNothing`, with
`LeaveMasterMode` shared by the exits. What an entry or an exit does to the two source
flags is not part of that action. It sets `access`, and the loads and stores follow one by
one, the loop waiting for them (`At`): `LoadPre`, `RestorePre` and `RestoreIgnore` are
`set_ignore_master(pre_master_ignore_.load())` of `bridge.cpp:192`, `LoadIgnore`, `CapturePre`
and `ForceIgnore` are `bridge.cpp:136` and `151`. Between a load and its store the value is in
`held`, and the UI thread may act between any two. `master_mode_` and the request, the other pair both
threads write, are stored by the bridge thread once in an action, and `StoreMasterMode` and
`StoreRequest` may fall on either side of it.

Three histories: `userIgnore` is the user's last choice; `overlapped` says that it was made
while the bridge thread had another one in its hands, or that this thread read the flag
while it was being made; `yielded` says that the last step read a datagram by which the tracked
master yields to the box. `TempoMaster` sees `yielded`, and `masterMode` as `wanted`: its `Obtain` needs
both, so an implementation that asserts the flag on anything else is not one. `Stay` says
that a box with the role goes on wanting it.

The module is open: `Next` delivers any
datagram at any time, which includes every loss, duplicate and delay. Time is
the single action `DeadlinePasses`.

Left out: the bar counter and tempo of the broadcast status, the beats the box
broadcasts as master, and the 200 ms cadence (a broadcast may or may not be due).
The generation counter is 32 bits wide in the code; `SyncnMod` and `MaxPlausible`
are its two limits.

### RoleClaim

Three members of `Bridge` (`claim_step_`, `claim_done_`, `claim_repeats_`) run beside
`MasterRole`. `Restarted` is `restart_device_claim()`: it follows every change of the
number presented, in whichever action of the role that happens, and changes
nothing when the number is the old one. `ClaimRound` is the loop's
`step_device_claim()` and `maybe_send_keepalive()`, after the role's request of that
round. The intervals (`kClaimIntervalMs`, 1.5 s) become a free choice: a packet
goes out in a round or it does not. `made` is a history of the packets sent for
the present number.

### HandoffLink

Adds two socket queues and the decks. The decks are external: they follow the
hand-off as the comments of `bridge.cpp` expect it. A deck may go silent, give
up, or be made master by its own key at any time. Every datagram of the box
reaches the decks or is lost, and every broadcast loops back to the box's status
socket or is lost. The operator's MASTER key and a deck that gives up yielding
act only when the status socket is empty: people and timers of seconds are slower
than a loop of milliseconds.

Nothing in a 0x27 or an Mh says which claim it answers. With two datagrams on the
status socket one may outlive the claim it was sent for: the box promises the
role back, the operator selects the master source again, and the loop takes that
request before it reads the old answer. The box then asserts the flag beside a deck
that has taken it (`HandoffStale.cfg`). `stale` is a history of just that: it notes, whenever
a claim begins (`BeginsClaim`, both at the setter and in the loop), whether an offer that no deck
stands by is still unread. `TwoMastersAreTemporary` excepts it and nothing else.

### Transport

The members of `Bridge` that decide about the clock, ages in place of
timestamps, and `out`, what the last step told the clock. The phases are those of
`run()`; `maybe_stop_on_silence()` is two steps because it reads `link_up_` twice,
and a hold is two because `keep_playing_` is read before `holding_` is stored. A
datagram is classed by its sender, the tracked master or another deck.

Left out: tempo (a start on a downbeat with a tempo that is not sane is not told
apart), the end of `run()`, and the choice of master, which is `MasterRole`'s.
A setter that stores several flags is one step here: the flags of a source are moved store by
store in `MasterRole` and `Panel`.

### DeckFollow

Adds the master deck (whether it plays, the beat of its bar), a slave that counts
beats from the last Start, and histories the properties need: how long the
statuses have said "paused", how long the master has been silent, how long the
link has been up, and how many beats have not been heard in order. `UiOps` says which
setters the UI thread uses in a run. `LinkChanges` lets at most one change of
the link fall between two turns of the loop, as the UI pushes it every 40 ms;
`"linkRace"` also allows one between the two reads in `maybe_stop_on_silence()`.
A beat heard while the box ignores decks counts as a miss, because the code keeps
the old expected beat across standalone operation and may count one spurious
slip on return.

### Panel

A frame of `ui_task()` is three actions: `RunFrame` (everything from the push of
keep-playing to the save of the offset), `Fallback` (`main.cpp:911-926`) and `LateApply`
(`main.cpp:928-934`). The bridge thread may act between any two. Within `RunFrame` it
could act too, but it writes nothing there that the frame reads twice. An action that
changes the source is followed by the stores of `ui_apply_source()`, one action each
(`Push`: `StoreMasterMode`, `StoreRequest`, `StorePreIgnore`, `StoreIgnore`, `StoreForce`); `push` is the next one,
and the frame goes on when there is none left (`At`). The bridge thread may act between these as
well. The handlers of the four modes are the disjuncts `Normal`, `Confirm`, `Cancel`, `IdleOut`,
`Stay`, `OpenItem` and `Commit`; the auto-master latch is `Latches`, and what it does to the
selection is seen by all of them through `Src` and `Borrowed`. `Gesture` and `TapAfter`
are the tap that re-syncs on release.

The input task (priority 4) and the UI task (priority 3) share a core, so a poll is
atomic for a frame; but a press is drained before `tap_held()` is read, and the
button may settle in between (`tap = "unread"`). Timers are flags that time
sets. `PowerFails` is a boot that finds what NVS holds. Of the bridge there is what
the panel reads and writes; its role is a coarser `MasterRole`, entered, kept and
left at any time, with the same accesses to the two source flags (`MoveFlags`), and
`overlapped` as there. The role changes only in runs whose `Events` include `"role"`.

Left out: the tap-tempo's average, the snapshot for the display, and the value of
the step sizes, which are one menu item.

### MidiStream, MidiClock

`MidiStream` is a Start, clocks, a Stop, and no clock outside them. `MidiClock` has
both timers; the variable `timer` says which build a behaviour is of. The bridge
thread is in `start()` or `stop()` at the point `call`; each store, each byte and each call
of the timer is a step. On the desktop `StartsTimer` makes a thread and `Joins` waits for
it. On the firmware the one-shot is armed again by its own callback, and `stop()`
neither waits for a callback in flight nor keeps it from sending: the
slave may hear one clock after the Stop. `tick` is the point in the callback. The
slave (`rolling`, `pos`) counts the clocks it hears.

Left out: when a tick is due (any time), changes of tempo, the bar counter for the
display, `correct_phase()`, which only tests call.

### MidiHostUsb, MidiOut

`MidiHostUsb` has `send_byte()`, the four points of the sender task's round (`Takes`,
`ChecksDevice`, `LoadsTransfer`, `Submits`), the transfer's callback, and the client task
(`Connects`, `Announces`, `Disconnects`, `FreesTransfer`, `Closes`). `transfer_` is read twice by
the sender while the client frees it, so a block has a number and `held` may name one that
is gone. `submit_one()` writes into the block before it asks whether the transfer
is free: a packet on its way may be replaced (`flight' \in {flight, hand}`). Counters
only grow; the module keeps what they differ by.

`Walk` is `claim_midi_interface()`, over descriptors that are any sequence of interfaces
and endpoints. A device that cannot be used leaves the state at `"noMidi"`, also after
it is unplugged, since the disconnect handler runs for open devices only.

`MidiOut` sends every byte of the firmware's clock to the USB output. The device on
the port is external: it plays from Start to Stop.

Left out: the steps within `begin()` (one step that succeeds or fails), a second
device while one is open, and the drop counters' values.

### PhaseLock

Time is counted in units of which `Period` make a tick. `Advance` moves it to the next
tick or beat; what falls on one instant happens in any order, and the loads and
stores of `on_tick_()`, `feed_beat()` and `set_offset_us()` interleave (`TickReads`/`TickBleeds`,
`BeatMeasures`/`BeatStores`, `NudgeSwaps`/`NudgeAdds`). The deck plays at the clock's tempo; its
beats may be lost. `Wrap` and `Quotient` are the code's wrap-around and C++'s
division.

### FrontInput

One step is one poll of the input task. `Decoded` is the decoder's table, `Debounced` the
debouncing of every contact, `PollNudge` the whole of `poll_nudge()`: both contacts,
then the combo, then the escrow and the repeats. The knob moves a quarter detent at
most between polls, a contact chatters for less than the debounce time. The three
controls share nothing but the loop, so a behaviour uses one of them.

## 3. Runs

`tlc -config X.cfg M` in this directory. Sizes are distinct states.

| Run | Question | Bounds | States |
|---|---|---|---|
| `MasterRole` (module `RoleClaim`) | Does the role keep its contract, restore the source, name a successor, and earn its keep-alives, under any datagrams? | one deck number, the box's two numbers, two addresses, one request in the burst, counter modulo 4, 1 packet per stage | 1.1 million |
| `HandoffLink` | Do two masters only coexist during a hand-off, or after a claim that found a stale offer? | one deck, queues of 2, one retry, one generation, states up to `LinkView` | 2.1 million |
| `HandoffLive` (module `HandoffLink`) | Is a promised role given up, whatever the decks do? | one deck, queues of 1 | 331 thousand |
| `DeckFollow` | Is a Stop debounced, a re-alignment justified, the slave in step, a stopped clock clean, in every mode and with another deck on the link? | debounce, beats-live, silence and grace of 1 tick, threshold 2 | 2.6 million |
| `FollowHold` (module `DeckFollow`) | Does a silence Stop need a whole grace or a whole window, with keep-playing and an unreliable link? | silence 2, grace 3, threshold 2 | 5 million |
| `FollowLive` (module `DeckFollow`) | Does a playing deck get the clock going again, and is every tap served? | 1 tick each, threshold 2 | 139 thousand |
| `Panel` | Is the source shown in force, permitted, and never a stale one, however the stores of the two threads interleave? | one pin; menu, encoder, a deck that stops, a role that comes and goes; two inputs in a frame | 1.5 million |
| `PanelLive` (module `Panel`) | Does a press have one meaning? Is a screen nobody uses left, and an offset that stays written? | no pin; tap, menu, encoder, nudges, power failures; offsets 0 and 1, two inputs in a frame | 170 thousand |
| `MidiOut` | Is the output a proper stream on the desktop, and at most one clock late on the firmware? Is every USB byte accounted for, and the endpoint the interface's? | two ticks to the beat, a queue of 1, descriptors up to 3, two connections | 2.2 million |
| `FrontInput` | One step per detent, real presses, bounded repeats, a clean combo? | the code's times scaled down to 2 to 30 polls; three detents either way | 60 thousand |
| `PhaseLock` | Does the box come to lead the deck by the offset? | six ticks of 16 units, gain 4, two offsets, two nudges | 1 million |
| `PanelClaim` (module `Panel`) | *Expected violation:* does a claim of the role last beyond its frame? | as `Panel`, one input in a frame | |

Why the bounds are enough. The role has no counter beyond the burst, the
deadline and the generation: a burst of 1 shows its start and its end, and one deck
beside the box's own two numbers shows every comparison of device numbers in the
code (own, tracked, another). The generation decides nothing about the role, so
`MasterRole` and `HandoffLink` have one value of it; `HandoffLive` has four, of which the highest is beyond the
bound, and `MasterSyncn.cfg` shows the wrap. One packet per stage is the fewest for which
stages differ; `RoleSystemProofs` has any number at either speed. Queues of two datagrams are
needed in `HandoffLink`, where a datagram can then wait while the loop takes a request. `LinkView` leaves
`ignore`, `preIgnore`, `held` and the histories of `MasterRole` out of what TLC compares: no guard of the
closed system reads them, only one another's values do, and neither property of the run is about them but for their
types, so two states that differ in nothing else have the same future. `MasterRole` has them all.
One deck can hold the flag, offer it, be appointed and ask for it; a second one, which can
hold the flag while the first asks, fits only with queues of one (1.9 million states,
checked too), and `RoleSystemProofs` covers any number of either. In `DeckFollow` a limit
of one tick is the smallest for which "not yet" and "passed" differ; `FollowHold` needs
grace, silence and a link edge at different ages, hence 2 and 3. A threshold of 2
shows a count that is reset, one that is carried, and one that is reached; the
code's is 3. `Cap` makes ages stop at the largest limit they are compared with,
which loses nothing.

`Panel` compares the source with following, one pin, the master and off: a second
pin is treated like the first, and `PanelProofs` covers any set of them. Two inputs in a
frame are the most that one handler tells apart. The two runs divide the inputs by what they bear on:
the tap and the nudges touch neither source nor role, and a press, a screen and an offset do
not ask which pin is selected or who moves the source flags. The theorems have all of it
together, but for the liveness. In `MidiOut` a queue of 1 is full after one byte, two
connections are needed for a block that is gone while another is there, and three
descriptors make the wrong endpoint possible (one interface, another, its endpoint).
`FrontInput` keeps the order of the code's times (debounce, fastest repeat, escrow,
first repeat, combo); twelve quarter detents show turns through several detents and
back. `PhaseLock` is a model of the loop at a small scale: six ticks and a gain of 4 show
an error that wraps, one that the floor of the interval clips, and the residue of
the division. With the code's 24 ticks and gain of 16 and a period of 40 units it was
also checked without nudges. The nudges are bounded because an
operator who never stops has no settled state to speak of.

### Fairness

`LinkFairness` is weak fairness of the bridge thread's phases, of the UI
thread's next call and of the deadline: the two tasks are scheduled and time
passes. Nothing is assumed of the decks or of delivery. `YieldEnds` also supposes
that the operator eventually leaves the box alone, since each new request for
the role re-arms the deadline.

`Fairness` in `DeckFollow` is weak fairness of the loop, strong fairness of the
turn that takes a tick, of a playing deck reaching its next beat, and of a
downbeat getting through: a loop turn is never without duration for ever, a
deck that plays goes on from beat to beat, and a working link does not lose every
downbeat. Without the last, no code could start a clock on a downbeat.

`Fairness` in `Panel` says that the frame goes on (`pc` keeps changing), which is what weak fairness of
`Frame` comes to, since a frame is always possible and the stores within one are few; and strong fairness of the two
timers: they run out between frames, over and over, unless something resets them.
`OffsetReachesNvs` supposes that the offset is left alone in the end, and power may go on
failing as long as that brings no older offset back.

`FairSpec` in `PhaseLock` is weak fairness of time, the timer and the two threads once they
are in the code, and strong fairness of `BeatMeasures`: not every beat is lost.

### Where the code and its documentation disagree

`PanelClaim` is the disagreement among the runs. The auto-master latch
(`main.cpp:684-691`) selects the master source without telling the bridge, and the
fallback at the end of the same frame (`main.cpp:911-926`) finds the bridge not in
master mode and takes the selection back. The role is never claimed when the decks
stop, while `docs/ui.md:126` says that the box "Holds the tempo *and* claims `sync
master`".

Further disagreements have a configuration each but are not part of the listed runs.
TLC finds each of these in seconds:

| Configuration, module | Property | What happens |
|---|---|---|
| `HandoffSlot.cfg`, `HandoffLink` | `SlotOnlyInMasterMode` | Picking the master source while the bridge thread is leaving the role: `leave_master_mode_()` clears `master_mode_` after `set_master_mode(true)` set it, the request is consumed next, and the box keeps the player slot outside master mode. |
| `HandoffAuthority.cfg`, `HandoffLink` | `AuthorityIgnoresDecks` | `ui_apply_source()` turns following on at once while the release waits for a deck: the box asserts the master flag and follows decks. |
| `HandoffSelf.cfg`, `HandoffLink` | `NeverTracksItself` | A broadcast sent from the player slot and read after the slot was given back passes the own-number filter, and the box tracks itself. |
| `HandoffAppoint.cfg`, `HandoffLink` | `AppointReachesTarget` | After a pin, `master_ip_` is that of the deck tracked before, and the 0x2a goes there while Mh names the pinned deck. |
| `HandoffStale.cfg`, `HandoffLink` | `OffersAnswerThisClaim` | An answer to an earlier claim is read by a later one, and the box asserts the flag beside a deck that keeps it (`bridge.cpp:391`, `676`), against `docs/architecture.md:440-441` and `bridge.cpp:384-387`. |
| `HandoffReclaim.cfg`, `HandoffLink` | `FlagKeptUntilLeaving` | Selecting the master source again during a release clears `master_confirmed_` before any deck has taken the flag. |
| `MasterSyncn.cfg`, `MasterRole` | `NeverLowestGeneration` | The granting branch (`bridge.cpp:677`) stores the wire's generation without the bound applied above it; 0xFFFFFFFF makes the box announce 0. |
| `MasterOverlap.cfg`, `MasterRole` | `ChoiceAlwaysWins` | `leave_master_mode_()` loads `pre_master_ignore_`, the user chooses the other way, and the old value is stored over both flags (`bridge.cpp:192`, `310-311`); entering has the same window at `bridge.cpp:136`. The choice is lost, against `bridge.hpp:296-298`. |
| `PanelOverlap.cfg`, `Panel` | `EveryChoiceInForce` | The same seen from the panel: the screen says it follows and the box is standalone, or the other way round, until the next choice (`docs/ui.md:172-177`). |
| `FollowShortPlay.cfg`, `DeckFollow` | `ClockStopsWithDeck` | A deck that plays for less than the debounce starts the clock, and its pause is no transition of the debounced flag, so nothing stops it while statuses arrive. |
| `FollowHoldStays.cfg`, `DeckFollow` | `HoldEndsWithPlay` | A hold entered by silence leaves `last_master_playing_` set, so the deck that comes back is no transition and the hold stays. |
| `FollowRecovery.cfg`, `DeckFollow` | `RecoveryWindow` | The link returns between the two reads in `maybe_stop_on_silence()` and the clock stops at once. The property holds in `FollowHold`, without that race. |
| `FollowOtherDeck.cfg`, `DeckFollow` | `ClockStopsWithMasterSilence` | `last_packet_ms_` is refreshed by every deck, so another deck keeps a silent master's clock running. |
| `FollowRoleHold.cfg`, `DeckFollow` | `HoldMeansFollowing` | Entering the role during a hold leaves `holding_` set. |
| `FollowBarJump.cfg`, `DeckFollow` | `BarRegained` | Each beat replaces the expected one, so one jump within the bar is one disagreement and never three. |
| `TapDead.cfg`, `DeckFollow` | `ResyncServed` | With another deck's beats on the link a tap waits for ever for the downbeat of a master that sends none. |
| `PanelOneClaim.cfg`, `Panel` | `OneClaimPerStop` | A hold that silence begins leaves the play flag up, and the flag re-arms the latch in every frame (`main.cpp:676`, "Fire once per stop episode"). |
| `PanelEarly.cfg`, `Panel` | `EarlyChoiceInForce` | A source confirmed before the bridge exists is recorded as applied (`main.cpp:813-814`) and never pushed, against `docs/ui.md:174`. |
| `PanelPin.cfg`, `Panel` | `PinSurvives` | Withdrawing the permission in the frame of an auto-claim selects following, and the pin it was borrowed from is forgotten (`main.cpp:857-870`), against `docs/ui.md:129-130`. |
| `PanelStandalone.cfg`, `Panel` | `NotLeftStandalone` | The operator picks the master source again while a release is pending. The bridge leaves the role, the fallback selects following and asks for nothing, since the role is gone, and the request of the operator is applied after that: the box is standalone behind a screen that follows (`docs/ui.md:175-177`). |
| `PanelTrim.cfg`, `Panel` | `EveryTrimReachesNvs` | An offset trimmed in the very frame that meets the bridge is taken for the stored one (`main.cpp:896-901`) and lost at the next boot. |
| `ClockDead.cfg`, `MidiOut`, its invariant replaced by | `AlwaysInStep` | On the firmware a tick in flight over a stop and a start stores its number after `start()` has reset it: the clock is a tick ahead of the slave (`architecture.md:586-587`). |
| `ClockDead.cfg`, `MidiOut` | `RunningClockTicks` | A callback that found the clock stopped clears the timer's `running_` when it ends (`timer_esp.cpp:22-25`), also when the clock has been started again meanwhile: it never ticks. |
| `UsbResync.cfg`, `MidiOut` | `ResyncedOnConnect` | A device plugged into a playing box gets clocks but no Start (`midi_host_usb.cpp:150`). |
| `InputCombo.cfg`, `FrontInput` | `ComboNudgesNothing` | A combo released one button first lets the other button's overdue repeat out at once (`docs/ui.md:178-180`). |
| `InputCombo.cfg`, `FrontInput`, its invariant replaced by | `OneStepPerPress` | A second press within the escrow overwrites the one that waits there (`ui_input.cpp:63`). |
| `NudgeOvershoot.cfg`, `PhaseLock` | `NudgeDoesNotOvershoot` | The nudge is multiplied by the gain to be applied in one tick, but the residue goes on being applied until the next beat measures it (`clock.cpp:101-104`). |

`FollowOtherDeck` and `TapDead` show what `ResyncServed` in `FollowLive` rests on:
that run has only the tracked deck on the link. What a property of the runs excepts is
each time a disagreement of this table, and nothing more: `UserChoiceRestored` excepts the choice of
`MasterOverlap` (`overlapped`), `ShownIsInForce` those of `PanelEarly` (`unheard`) and `PanelOverlap`
(`overlapped`, and of that not the pin), `OffsetReachesNvs` the trim of `PanelTrim`
(`seedTrim`), and `TwoMastersAreTemporary` the claim of `HandoffStale` (`stale`). `overlapped` ends with the next choice
that meets no move, in either module.

## 4. Theorems

`tlapm MasterRoleProofs.tla`, and so on. Each holds for every value of the
constants that satisfies the named assumption of its module (`RoleAssumption`,
`ClaimAssumption`, `LinkAssumption`, `TransportAssumption`, `DeckAssumption`, `MidiClockAssumption`,
`UsbAssumption`, `InputAssumption`, `PanelAssumption`): any set of devices and addresses,
any burst, any debounce, limits and threshold, any queue length, any pins.

**MasterRole.** `TypeCorrect`. The invariant of the others is `RoleInv`:
`YieldIsBounded` and `SlotFollowsRole`, strengthened by
three facts. `SourceInv` is why `UserChoiceRestored` holds: it follows the user's choice on its way, in the
half-made setter call (`choosing`), in the flag the role is left by, in the hands of the bridge
thread (`held`), and in the flag the box runs by; each part holds unless `overlapped`. `SourceUi`,
`SourceMoves` and `SourceEnter` keep it over every store of either thread, in any order.
`confirmed => masterMode`: a yield needs both flags and an exit clears both.
`countdown > 0 => applied`: the burst starts with the role, and no exit leaves it
running. `LeaveRestores` shows that `LeaveMasterMode` re-establishes the invariant from
`SourceInv` alone; `ChoiceRestored`, `YieldBounded`,
`SlotHeldWithRole`, `PlayerSlotRequests` and `LeavesAnnounced` follow.
`RoleContract` is the refinement: mapping the flags to idle, asking, holding or yielding,
the Mh byte to the heir and master mode to the wish, every step is a step of `TempoMaster` or a stutter.
`GrantIsYield` is its point: the box begins to assert the flag only in master mode, and only on a 0x27 from the tracked master's
address or a status of that master with the box's number in its Mh.

**RoleClaim.** `ClaimImplementsRole` shows that the handshake adds nothing to the role,
so the theorems above hold of it. `KeepAlivesAreEarned` proves `KeepAliveIsEarned` from
`ClaimInv`: the packets made for the present number are exactly the first
`claim_step_` of the handshake (`Handshake`), and the claim is done just when that is all of them.
The property alone is not inductive, since it says nothing of a handshake under
way. `WholeHandshake` then shows that all the packets cover every stage in order,
for any number per stage.

**HandoffLink.** `LinkImplementsRole`: given what it may find on its sockets (`LinkTypes`), every
step of the box among the decks is one of `MasterRole`, so `RoleInv` and the theorems above hold of
the closed system. `TwoMastersTemporary` proves `TwoMastersAreTemporary` from `OfferInv`. The property says nothing of
the moment before the box is granted the role; `OffersStand` does: while a claim is not granted, an
offer on the socket is one the deck stands by, or the claim began with it unread. The proof goes over
what a broadcast of the box may set off (`BroadcastKeeps`): while it asks, only the deck that sets the offer
answers; while it holds the role, a deck takes the flag only if `yielding_to_` names it, and then
the deadline runs (`YieldIsBounded`). Trying to prove the property without `stale` is what showed that
it held only with queues of one. `LinkAssumption` has the wire carry any generation the box may
announce, since the box reads its own broadcasts.

**Transport.** `TypeCorrect` splits the type invariant into its Boolean and its
numeric part (`Flags`, `Counters`), which are inductive separately. `CleanAfterStop`
proves `StoppedIsClean` under any input.

**DeckFollow.** `FollowImplementsTransport` shows that the closed system adds no
behaviour to `Transport`, so its theorems carry over. `SlaveStaysInStep` proves
`SlaveInStep` for any losses and any setters, under `~Jumps`: `StartsOnDownbeat`
says that a start or re-alignment happens on a beat 1 that was heard, and
`BeatKeepsStep` that a slave in step stays so over a beat heard or lost.
`StopsDebounced` proves `StopIsDebounced` from `DebounceInv`, whose other part
(`PauseIsTimed`) relates the age the bridge measures, on a status stream with losses,
to the true age of the pause: the measured one is never larger. `FollowTypes` proves the types.
`RealignNeedsLosses` proves `SlipNeedsLosses` from `SlipInv`: the detector never counts more disagreements than
beats were missed, is on the deck's beat after beats heard in a row, and while it is off that beat
has counted one less than were missed. The property alone says nothing until the count
reaches the threshold. `SilenceStopsLate` proves `RecoveryWindow` from
`WindowInv`: the age the bridge measures never exceeds the master's silence, nor the time the link has been
up once that has been noticed, and the link is the same at the two reads of
`maybe_stop_on_silence()`. The theorem therefore supposes that `UiOps` has no `"linkRace"`, as the run does.

**MidiClock.** `ClockTypes`. `OneLateClock` proves `TailIsOneClock` from `TailInv`: outside Start and
Stop the timer is off, and once the late clock has been heard the callback is past
the point where it sends. `DesktopInStep` needs `PosixInv`: the phase of
`start()` or `stop()` fixes whether the thread exists (`PosixPhase`), and the place in the beat
follows the point in the callback (`PosixPlace`); neither is inductive without the
other. `DesktopStream` is the refinement of `MidiStream`, for any number of ticks to the beat.

**MidiOut.** `OutputsKeepClock`: every behaviour of the composition is one of the clock, so
what is proved of `MidiClock` holds on the device. `EveryByteCounted` proves
`BytesAreCounted` from `CountInv`: a byte is lost uncounted at most once for each device plugged in,
and strictly less often while the present one may still lose one (`MayLose`). `CleanDevices` proves
`CleanDeviceInStep` from `StepInv`: what is in flight, in hand and queued, heard in this
order, brings a clean device to what the box was last told (`AfterQueue`); the property only
speaks of the moment when nothing is on its way. `UsbOutputTypes` proves the types.
`ClaimsOwnEndpoint` is about `Walk`, a recursive function over descriptors of any number. The library's
induction takes an operator and cannot be used here; `LeastNumber` says in first-order terms that a
non-empty set of numbers has a least element (from the well-foundedness of `<`), and an invariant of the
walk holds after each descriptor since there is no first one after which it fails
(`WalkKnows`). The invariant is `Knows`: whether the latest of the first n
descriptors' interfaces is a MIDIStreaming one, and, once an endpoint is found, that the interface kept is the one before it.

**Panel.** `PanelInvariant` is the invariant the four others follow from. `ChoiceInv`: what
the panel would return to is the operator's last choice or following. `PermitInv`: a
source is the master's only with permission, and the role is about to be entered only
while it is selected. `PinInv`: once the stores of a push are made, the bridge is pinned to the source
selected. `FlagInv`: unless the push met the bridge thread half-way, what that thread holds is the
choice that is kept for the time after the role, the choice in force is the one kept whenever the role is not in the way, and
the one kept is the operator's; this is what lets the
bridge enter or leave the role at any moment, and between any two stores (`PushKeeps`, `MoveFlagsKeep`). `PressInv`: a press still clean has no use. `FrameCases` reduces the
seven handlers to three effects on the source. `PanelTypes` proves the types.

**FrontInput.** `StepsPerDetent` proves `OneStepPerDetent` from `EncoderInv`: for each quarter between
two detents, the states the decoder may be in and the step it still owes in each (`Owes`).
`SinglePresses` proves `PressesAreReal` from `ButtonInv`: once the chatter is over the debouncer reads the
finger and has read it for as long (`ReadsFinger`); after a press is registered, and until the finger goes
down again, what it reads against the finger never lasts the debounce time (`DownIsKnown`, `UpIsKnown`). For the nudge buttons `ComboKeepsPress` follows from the order of the phases within a poll.
`PressSteps` needs `HeldBack`: while an undisturbed press is younger than the escrow, it waits
there with just that age. `StepsStayApart` needs `Spaced`: what is still to come from a button, from the
escrow or as a repeat, is due no sooner than the fastest repeat after its last step.
That proof needs `Escrow + RepeatMin <= RepeatDelay`, which is stronger than the order of the times
one would assume: the delay of the first repeat runs from the press, while the first step comes out only when
the escrow ends. The code's 70 ms, 35 ms and 350 ms keep it (`ui_input.cpp:88-93`).

**Only model-checked.** Of the runs' invariants and action properties, all have a theorem. The
liveness properties `YieldEnds`, `DeckDrives`, `ResyncServed`, `SubModesTimeOut`, `OffsetReachesNvs` and
`Locks` have none, since TLAPS proves no liveness under fairness. The refinements are theorems
(`RoleContract`, `DesktopStream`). Properties of the configurations outside the listed runs are false of the code.

## 5. Not modelled, and the plan

Not modelled, with the reason:

* The tempo: smoothing, its sane range and the manual tempo are arithmetic on floats,
  without control of their own. Which source may set it is decided by flags that
  `Transport` has. `bridge.cpp:534` starts the clock with a tempo that `bpm_is_sane()` has not
  seen: nothing here covers that.
* Byte layouts and validity checks of packets, and the display: no state. What the
  bridge decides on is a field of the modules' datagrams.
* Sockets, DHCP, interface selection, DIN output: pure input and output. Loss,
  delay and loopback of datagrams are in `HandoffLink` and `DeckFollow`, and the moment the bridge
  appears is in `Panel`.
* The desktop application and the diagnostic tools: a front end, a settings file and
  readers of the same bridge, which call the setters `MasterRole` and `Transport` take in
  any order.
* The end of `Bridge::run()`, which stops the clock for good.
* A pin in the middle of a handler: `handle_beat_packet()` and `handle_status_packet()` load
  `force_master_device_` and then store `current_master_` (`bridge.cpp:455-470`, `634-661`), and a release loads
  `current_master_` and then `master_ip_`; each is one step in `MasterRole`. A pin between the two is
  followed from the next datagram on.
* A keep-alive or handshake interval, the 200 ms cadence of statuses, and the timers'
  deadlines: time is free in those modules.

What is left: the safety half of the liveness properties can be proved (a request that waits
for a downbeat waits with live beats; a promise is never without a deadline, which `YieldBounded` has),
and `PhaseLock`, which has only a liveness property, could get an invariant for the error's range.
