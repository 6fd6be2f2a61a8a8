----------------------------- MODULE FrontInput -----------------------------
(***************************************************************************)
(* The input task of the front panel (firmware/src/ui_input.cpp): the      *)
(* quadrature decoder of the encoder, the debounced press of the tap and   *)
(* encoder buttons, and the two nudge buttons with their escrow, their     *)
(* accelerating repeats and the combo that opens the menu.                 *)
(*                                                                         *)
(* One step is one poll.  The three share nothing but the polling loop, so *)
(* a behaviour uses one of them, chosen at the start.  A time of the code  *)
(* is kept as the number of polls since it, or until it; a time that will  *)
(* not be read again before it is set is kept at its first value.          *)
(*                                                                         *)
(* Variants named ..._Mut are wrong on purpose; MasterRole says why.       *)
(***************************************************************************)
EXTENDS Integers

CONSTANTS Debounce,     \* kDebounceMs, in polls, like all that follow
          Escrow,       \* kNudgeEscrowMs
          RepeatDelay,  \* kRepeatDelayMs
          RepeatStart,  \* kRepeatStartMs
          RepeatMin,    \* kRepeatMinMs
          RepeatAccel,  \* kRepeatAccelMs
          ComboHold,    \* kComboHoldMs
          Chatter,      \* a contact chatters for fewer polls than this
          MaxTurn       \* the knob turns at most so many quarter detents away

ASSUME InputAssumption ==
    /\ {Debounce, Escrow, RepeatDelay, RepeatStart, RepeatMin, ComboHold} \subseteq Nat \ {0}
    /\ RepeatAccel \in Nat /\ MaxTurn \in Nat /\ Chatter \in Nat
    /\ RepeatMin <= RepeatStart /\ RepeatStart <= RepeatDelay
    /\ RepeatMin <= Escrow /\ Escrow + RepeatMin <= RepeatDelay
    /\ Chatter <= Debounce

Sides == {-1, 1}      \* the left and the right nudge button, by their direction
Kinds == {"encoder", "button", "nudge"}
Idle == [low |-> FALSE, last |-> FALSE, since |-> 0]

VARIABLES
    used,         \* the control this behaviour uses
    \* The encoder.
    quarter,      \* where the knob is, in quarter detents
    encState,     \* g_enc_state
    steps,        \* g_steps
    scrolled,     \* history: the steps the UI has taken
    \* A single-press button.
    btn,          \* the Btn
    finger,       \* the button is pressed
    sinceFinger,  \* polls since that changed
    fresh,        \* history: pressed again since the last press was registered
    registered,   \* the last poll registered a press
    \* The nudge buttons.
    nudge,        \* the contacts of both
    repeatIn,     \* polls until next_fire_ms
    interval,     \* interval_ms
    escrowDir, escrowed,   \* g_escrow_dir, and the polls since g_escrow_ms
    comboAge,     \* polls since g_combo_start_ms, or -1
    comboFired,   \* g_combo_fired
    stepped,      \* the steps of the last poll: a function of the side to how it left
    menuHold,     \* the last poll reported the menu hold
    sincePress, sinceStep, \* history: polls since the press, and since a step, of a side
    disturbed,    \* history: the other button came in since the press of a side
    combo         \* history: the last press of a side became part of a combo

encVars == <<quarter, encState, steps, scrolled>>
btnVars == <<btn, finger, sinceFinger, fresh, registered>>
nudgeVars == <<nudge, repeatIn, interval, escrowDir, escrowed, comboAge,
               comboFired, stepped, menuHold, sincePress, sinceStep, disturbed, combo>>
vars == <<used, encVars, btnVars, nudgeVars>>

NoStep == "none"

Init ==
    /\ used \in Kinds
    /\ quarter = 0 /\ encState = "start" /\ steps = 0 /\ scrolled = 0
    /\ btn = Idle /\ finger = FALSE /\ sinceFinger = Chatter
    /\ fresh = FALSE /\ registered = FALSE
    /\ nudge = [s \in Sides |-> Idle]
    /\ repeatIn = [s \in Sides |-> 0]
    /\ interval = [s \in Sides |-> RepeatStart]
    /\ escrowDir = 0 /\ escrowed = 0
    /\ comboAge = -1 /\ comboFired = FALSE /\ menuHold = FALSE
    /\ stepped = [s \in Sides |-> NoStep]
    /\ sincePress = [s \in Sides |-> Escrow + 1]
    /\ sinceStep = [s \in Sides |-> RepeatMin]
    /\ disturbed = [s \in Sides |-> FALSE]
    /\ combo = [s \in Sides |-> FALSE]

Lower(a, b) == IF a < b THEN a ELSE b
Until(n) == IF n > 0 THEN n - 1 ELSE 0

-----------------------------------------------------------------------------
\* The encoder.  kTable: what follows a state, by the two pins (b, a); between the
\* detents the pins go through 11, 01, 00, 10 one way round.

Pins(q) == <<"11", "01", "00", "10">>[(q % 4) + 1]

\* Arriving in a detent is a step when the detent was left on the other side.
AtRest_Mut(state) ==
    CASE state \in {"cwFinal", "cwBegin"} -> "startCw"
      [] state = "ccwFinal" -> "startCcw"
      [] OTHER -> "start"

AtRest(state) ==
    CASE state = "cwFinal" -> "startCw"
      [] state = "ccwFinal" -> "startCcw"
      [] OTHER -> "start"

Decoded(state, pins) ==
    CASE pins = "11" -> AtRest(state)
      [] state \in {"cwNext", "cwBegin", "cwFinal"} /\ pins = "00" -> "cwNext"
      [] state \in {"ccwNext", "ccwBegin", "ccwFinal"} /\ pins = "00" -> "ccwNext"
      [] state \in {"start", "cwBegin", "cwNext"} /\ pins = "01" -> "cwBegin"
      [] state \in {"start", "ccwBegin", "ccwNext"} /\ pins = "10" -> "ccwBegin"
      [] state \in {"cwNext", "cwFinal"} /\ pins = "10" -> "cwFinal"
      [] state \in {"ccwNext", "ccwFinal"} /\ pins = "01" -> "ccwFinal"
      [] OTHER -> "start"

\* The state without the direction bits, which the table is indexed by.
Bare(state) == IF state \in {"startCw", "startCcw"} THEN "start" ELSE state

\* The knob moves by at most a quarter detent from one poll to the next.
PollEncoder ==
    \E d \in {-1, 0, 1} :
        LET next == Decoded(Bare(encState), Pins(quarter + d))
        IN  /\ used = "encoder"
            /\ quarter + d \in -MaxTurn..MaxTurn
            /\ quarter' = quarter + d
            /\ encState' = next
            /\ steps' = CASE next = "startCw" -> steps - 1
                          [] next = "startCcw" -> steps + 1
                          [] OTHER -> steps
            /\ UNCHANGED <<used, scrolled, btnVars, nudgeVars>>

\* ui_input_take_encoder_steps(), on the UI task.
TakeSteps ==
    /\ used = "encoder" /\ steps # 0
    /\ scrolled' = scrolled + steps
    /\ steps' = 0
    /\ UNCHANGED <<used, quarter, encState, btnVars, nudgeVars>>

-----------------------------------------------------------------------------
\* Debouncing: a contact that reads low, and has read so for long enough, is low.

Settles_Mut(c, low) == c.last # low /\ c.since >= Debounce

Settles(c, low) == c.last = low /\ c.since + 1 >= Debounce

Debounced(c, low) ==
    [low |-> IF Settles(c, low) THEN low ELSE c.low,
     last |-> low,
     since |-> IF c.last # low THEN 0 ELSE Lower(c.since + 1, Debounce)]

Pressed(c, low) == ~c.low /\ Debounced(c, low).low

\* A single-press button (poll_buttons): for a while after the finger has moved, the reading is
\* whatever it likes.
PollButton ==
    \E moves, low \in BOOLEAN :
        LET since == IF moves THEN 0 ELSE Lower(sinceFinger + 1, Chatter + Debounce)
        IN  /\ used = "button"
            /\ finger' = IF moves THEN ~finger ELSE finger
            /\ sinceFinger' = since
            /\ low = finger' \/ since < Chatter
            /\ btn' = Debounced(btn, low)
            /\ registered' = Pressed(btn, low)
            /\ fresh' = ((moves /\ finger') \/ (fresh /\ ~registered))
            /\ UNCHANGED <<used, encVars, nudgeVars>>

-----------------------------------------------------------------------------
\* The nudge buttons: one poll debounces both, then looks for the combo, then lets
\* steps out.  fresh_press is set and consumed within the poll.

Accelerated_Mut(i) == IF i > RepeatMin THEN i - RepeatAccel ELSE RepeatMin

Accelerated(i) == IF i > RepeatMin + RepeatAccel THEN i - RepeatAccel ELSE RepeatMin

\* The step held back leaves.  A combo recognised meanwhile has discarded it.
LeavesEscrow_MutCombo(both, low) ==
    escrowDir # 0 /\ escrowed + 1 >= Escrow

LeavesEscrow_MutRelease(both, low) ==
    escrowDir # 0 /\ ~both /\ escrowed + 1 >= Escrow /\ low[escrowDir]

LeavesEscrow(both, low) ==
    escrowDir # 0 /\ ~both /\ escrowed + 1 >= Escrow

PollNudge ==
    \E level \in [Sides -> BOOLEAN] :
        LET now == [s \in Sides |-> Debounced(nudge[s], level[s])]
            low == [s \in Sides |-> now[s].low]
            press == [s \in Sides |-> Pressed(nudge[s], level[s])]
            both == \A s \in Sides : low[s]
            alone == {s \in Sides : low[s] /\ ~both}
            first == {s \in alone : press[s]}
            due == [s \in Sides |-> IF press[s] THEN RepeatDelay ELSE Until(repeatIn[s])]
            repeats == {s \in alone \ first : due[s] = 0}
            leaves == LeavesEscrow(both, low)
            age == IF comboAge = -1 THEN 0 ELSE Lower(comboAge + 1, ComboHold)
            fires == both /\ ~comboFired /\ age >= ComboHold
            steps_ == [s \in Sides |-> IF leaves /\ escrowDir = s THEN "press"
                                       ELSE IF s \in repeats THEN "repeat" ELSE NoStep]
        IN  /\ used = "nudge"
            /\ nudge' = now
            /\ comboAge' = IF both THEN age ELSE -1
            /\ comboFired' = (both /\ (comboFired \/ fires))
            /\ menuHold' = fires
            /\ escrowDir' = IF first # {} THEN CHOOSE s \in first : TRUE
                            ELSE IF both \/ leaves THEN 0 ELSE escrowDir
            /\ escrowed' = IF first # {} \/ escrowDir' = 0 THEN 0 ELSE escrowed + 1
            /\ stepped' = steps_
            /\ interval' = [s \in Sides |->
                 IF ~low[s] \/ press[s] THEN RepeatStart
                 ELSE IF s \in repeats THEN Accelerated(interval[s]) ELSE interval[s]]
            /\ repeatIn' = [s \in Sides |->
                 IF ~low[s] THEN 0 ELSE IF s \in repeats THEN interval'[s] ELSE due[s]]
            /\ sincePress' = [s \in Sides |->
                 IF press[s] THEN 0 ELSE Lower(sincePress[s] + 1, Escrow + 1)]
            /\ sinceStep' = [s \in Sides |->
                 IF stepped[s] # NoStep THEN 1 ELSE Lower(sinceStep[s] + 1, RepeatMin)]
            /\ disturbed' = [s \in Sides |->
                 IF press[s] THEN low[-s]
                 ELSE sincePress'[s] <= Escrow /\ (disturbed[s] \/ press[-s])]
            /\ combo' = [s \in Sides |-> both \/ (combo[s] /\ ~press[s])]
            /\ UNCHANGED <<used, encVars, btnVars>>

Next == PollEncoder \/ TakeSteps \/ PollButton \/ PollNudge

Spec == Init /\ [][Next]_vars

-----------------------------------------------------------------------------
\* Whatever the knob does between two detents, also back and forth over an edge,
\* once it rests in a detent the panel has been given one step per detent turned
\* ("Emits exactly one DIR per physical detent and rejects bounce",
\* ui_input.cpp:17).
OneStepPerDetent == quarter % 4 = 0 => steps + scrolled = -(quarter \div 4)

\* A contact that chatters for less than the debounce time registers a press only
\* if the button was pressed again since the last one, and a button held for long
\* enough has been registered.
PressesAreReal ==
    /\ registered => fresh
    /\ sinceFinger >= Chatter + Debounce => btn.low = finger

\* Two steps of one button are never closer than the fastest repeat, whatever
\* presses, combos and releases lie between them.
RepeatsStayApart ==
    \A s \in Sides : stepped[s] # NoStep => sinceStep[s] >= RepeatMin

\* The first step of a press that turned out to be part of a combo never leaves
\* ("The first nudge of the menu combo is escrowed", docs/ui.md:178).
ComboPressNeverEscapes ==
    \A s \in Sides : stepped[s] = "press" => ~(\A t \in Sides : nudge[t].low)

\* A press that no other press disturbs steps once the escrow is over, also when the
\* button has been released by then.
UndisturbedPressSteps ==
    \A s \in Sides : sincePress[s] = Escrow /\ ~disturbed[s] => stepped[s] = "press"

\* A press that became part of a combo nudges nothing: "the first nudge of the menu
\* combo is escrowed ... without holding it back, every menu open trimmed the clock
\* offset by one step" (docs/ui.md:178-180).
ComboNudgesNothing == \A s \in Sides : stepped[s] # NoStep => ~combo[s]

\* "one signed step per press" (ui_input.cpp:63): a press outside a combo steps.
OneStepPerPress ==
    \A s \in Sides : sincePress[s] = Escrow /\ ~combo[s] => stepped[s] = "press"
=============================================================================
