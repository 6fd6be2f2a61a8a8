-------------------------- MODULE FrontInputProofs --------------------------
(***************************************************************************)
(* Theorems about FrontInput, for any times that InputAssumption allows:   *)
(* the encoder, for any turns of the knob and any moments at which the     *)
(* panel takes the steps; the debounced buttons, for any chatter; and the  *)
(* two nudge buttons, for any presses of either.                           *)
(***************************************************************************)
EXTENDS FrontInput, TLAPS

\* A place of the knob, in detents and quarters.
LEMMA Quarters ==
    ASSUME NEW n \in Int, NEW r \in 0..3
    PROVE  (4 * n + r) % 4 = r /\ (4 * n + r) \div 4 = n
BY SMT

\* The pins at a place of the knob.
LEMMA PinsAt ==
    ASSUME NEW n \in Int, NEW r \in 0..3
    PROVE  /\ r = 0 => Pins(4 * n + r) = "11"
           /\ r = 1 => Pins(4 * n + r) = "01"
           /\ r = 2 => Pins(4 * n + r) = "00"
           /\ r = 3 => Pins(4 * n + r) = "10"
BY Quarters DEF Pins

-----------------------------------------------------------------------------
\* What the decoder's state says with the knob r quarters past detent n, when the
\* panel is owed that many steps: none in the detent; on the way, whether the knob
\* came from this detent or from the next one.
Owes(n, r, state, owed) ==
    /\ r = 0 => state \in {"start", "startCw", "startCcw"} /\ owed = 0
    /\ r = 1 => \/ state = "cwBegin" /\ owed = 0
                \/ state = "ccwFinal" /\ owed = -1
    /\ r = 2 => \/ state = "cwNext" /\ owed = 0
                \/ state = "ccwNext" /\ owed = -1
    /\ r = 3 => \/ state = "cwFinal" /\ owed = 0
                \/ state = "ccwBegin" /\ owed = -1

EncoderInv ==
    /\ quarter \in Int /\ steps \in Int /\ scrolled \in Int
    /\ \E n \in Int, r \in 0..3 :
          quarter = 4 * n + r /\ Owes(n, r, encState, steps + scrolled + n)

\* The steps after a poll that arrives in a state.
StepsAfter(state) ==
    CASE state = "startCw" -> steps - 1 [] state = "startCcw" -> steps + 1 [] OTHER -> steps

\* A poll with the knob where it was.
LEMMA StaysPut ==
    ASSUME steps \in Int, scrolled \in Int, NEW n \in Int, NEW r \in 0..3,
           Owes(n, r, encState, steps + scrolled + n),
           NEW next, next = Decoded(Bare(encState), Pins(4 * n + r))
    PROVE  Owes(n, r, next, StepsAfter(next) + scrolled + n)
BY PinsAt DEF Owes, Decoded, Bare, AtRest, StepsAfter

\* A poll a quarter further, in the same detent or up to the next one.
LEMMA MovesOn ==
    ASSUME steps \in Int, scrolled \in Int, NEW n \in Int, NEW r \in 0..2,
           Owes(n, r, encState, steps + scrolled + n),
           NEW next, next = Decoded(Bare(encState), Pins(4 * n + (r + 1)))
    PROVE  Owes(n, r + 1, next, StepsAfter(next) + scrolled + n)
BY r + 1 \in 0..3, PinsAt DEF Owes, Decoded, Bare, AtRest, StepsAfter

\* A quarter on from the last one of a detent: the next detent begins, a step owed.
LEMMA MovesUp ==
    ASSUME steps \in Int, scrolled \in Int, NEW n \in Int,
           Owes(n, 3, encState, steps + scrolled + n),
           NEW next, next = Decoded(Bare(encState), Pins(4 * (n + 1) + 0))
    PROVE  Owes(n + 1, 0, next, StepsAfter(next) + scrolled + (n + 1))
BY n + 1 \in Int, 0 \in 0..3, PinsAt DEF Owes, Decoded, Bare, AtRest, StepsAfter

\* And a quarter back.
LEMMA MovesBack ==
    ASSUME steps \in Int, scrolled \in Int, NEW n \in Int, NEW r \in 1..3,
           Owes(n, r, encState, steps + scrolled + n),
           NEW next, next = Decoded(Bare(encState), Pins(4 * n + (r - 1)))
    PROVE  Owes(n, r - 1, next, StepsAfter(next) + scrolled + n)
BY r - 1 \in 0..3, PinsAt DEF Owes, Decoded, Bare, AtRest, StepsAfter

\* A quarter back from the first one of a detent: the detent before.
LEMMA MovesDown ==
    ASSUME steps \in Int, scrolled \in Int, NEW n \in Int,
           Owes(n, 0, encState, steps + scrolled + n),
           NEW next, next = Decoded(Bare(encState), Pins(4 * (n - 1) + 3))
    PROVE  Owes(n - 1, 3, next, StepsAfter(next) + scrolled + (n - 1))
BY n - 1 \in Int, 3 \in 0..3, PinsAt DEF Owes, Decoded, Bare, AtRest, StepsAfter

\* Every poll keeps the account of the steps.
LEMMA PollKeepsAccount == EncoderInv /\ PollEncoder => EncoderInv'
<1> SUFFICES ASSUME EncoderInv, PollEncoder
             PROVE  EncoderInv'
    OBVIOUS
<1>1. PICK n \in Int, r \in 0..3 :
         quarter = 4 * n + r /\ Owes(n, r, encState, steps + scrolled + n)
    BY DEF EncoderInv
<1>2. PICK d \in {-1, 0, 1} :
         /\ quarter' = quarter + d
         /\ encState' = Decoded(Bare(encState), Pins(quarter + d))
         /\ steps' = StepsAfter(encState')
         /\ scrolled' = scrolled
    BY DEF PollEncoder, StepsAfter
<1>3. steps \in Int /\ scrolled \in Int /\ quarter \in Int
    BY DEF EncoderInv
<1>4. quarter' \in Int /\ steps' \in Int /\ scrolled' \in Int
    BY <1>2, <1>3 DEF StepsAfter
<1>5. ASSUME NEW m \in Int, NEW q \in 0..3, quarter + d = 4 * m + q,
             Owes(m, q, encState', steps' + scrolled + m)
      PROVE  EncoderInv'
    BY <1>2, <1>4, <1>5 DEF EncoderInv
<1>6. CASE d = 0
  <2>1. quarter + d = 4 * n + r
      BY <1>1, <1>6
  <2>2. Owes(n, r, encState', steps' + scrolled + n)
      BY <1>1, <1>2, <1>3, <2>1, StaysPut
  <2> QED BY <1>1, <1>5, <2>1, <2>2
<1>7. CASE d = 1 /\ r # 3
  <2>1. r \in 0..2 /\ r + 1 \in 0..3 /\ quarter + d = 4 * n + (r + 1)
      BY <1>1, <1>7
  <2>2. Owes(n, r + 1, encState', steps' + scrolled + n)
      BY <1>1, <1>2, <1>3, <2>1, MovesOn
  <2> QED BY <1>5, <2>1, <2>2
<1>8. CASE d = 1 /\ r = 3
  <2>1. n + 1 \in Int /\ quarter + d = 4 * (n + 1) + 0
      BY <1>1, <1>8
  <2>2. Owes(n + 1, 0, encState', steps' + scrolled + (n + 1))
      BY <1>1, <1>2, <1>3, <1>8, <2>1, MovesUp
  <2> QED BY <1>5, <2>1, <2>2
<1>9. CASE d = -1 /\ r # 0
  <2>1. r \in 1..3 /\ r - 1 \in 0..3 /\ quarter + d = 4 * n + (r - 1)
      BY <1>1, <1>9
  <2>2. Owes(n, r - 1, encState', steps' + scrolled + n)
      BY <1>1, <1>2, <1>3, <2>1, MovesBack
  <2> QED BY <1>5, <2>1, <2>2
<1>10. CASE d = -1 /\ r = 0
  <2>1. n - 1 \in Int /\ quarter + d = 4 * (n - 1) + 3
      BY <1>1, <1>10
  <2>2. Owes(n - 1, 3, encState', steps' + scrolled + (n - 1))
      BY <1>1, <1>2, <1>3, <1>10, <2>1, MovesDown
  <2> QED BY <1>5, <2>1, <2>2
<1> QED BY <1>6, <1>7, <1>8, <1>9, <1>10

\* So does the panel that takes the steps, and what does not touch the encoder.
LEMMA AccountKept == EncoderInv /\ [Next]_vars => EncoderInv'
<1> SUFFICES ASSUME EncoderInv, [Next]_vars
             PROVE  EncoderInv'
    OBVIOUS
<1>1. CASE PollEncoder
    BY <1>1, PollKeepsAccount
<1>2. CASE TakeSteps
  <2>1. /\ steps' = 0 /\ scrolled' = scrolled + steps
        /\ quarter' = quarter /\ encState' = encState
      BY <1>2 DEF TakeSteps
  <2>2. \A n \in Int : steps' + scrolled' + n = steps + scrolled + n
      BY <2>1 DEF EncoderInv
  <2> QED BY <2>1, <2>2 DEF EncoderInv
<1>3. CASE UNCHANGED encVars
    BY <1>3 DEF EncoderInv, encVars
<1> QED BY <1>1, <1>2, <1>3 DEF Next, vars, PollButton, PollNudge

\* The panel is given one step per detent turned, whatever the knob does between
\* two detents, however far it turns and whenever the panel looks.
THEOREM StepsPerDetent == Spec => []OneStepPerDetent
<1>1. Init => EncoderInv
  <2> SUFFICES ASSUME Init PROVE EncoderInv
      OBVIOUS
  <2>1. quarter = 4 * 0 + 0 /\ Owes(0, 0, encState, steps + scrolled + 0)
      BY DEF Init, Owes
  <2> QED BY <2>1, 0 \in 0..3 DEF Init, EncoderInv
<1>2. EncoderInv => OneStepPerDetent
  <2> SUFFICES ASSUME EncoderInv, quarter % 4 = 0
               PROVE  steps + scrolled = -(quarter \div 4)
      BY DEF OneStepPerDetent
  <2>1. PICK n \in Int, r \in 0..3 :
           quarter = 4 * n + r /\ Owes(n, r, encState, steps + scrolled + n)
      BY DEF EncoderInv
  <2>2. r = 0 /\ quarter \div 4 = n
      BY <2>1, Quarters
  <2> QED BY <2>1, <2>2 DEF Owes, EncoderInv
<1> QED BY <1>1, <1>2, AccountKept, PTL DEF Spec

-----------------------------------------------------------------------------
\* A contact's debouncer: what it has read last, for how many polls, and what it makes
\* of it.
ContactType == [low : BOOLEAN, last : BOOLEAN, since : 0..Debounce]

\* A poll of a contact: what it reads, for how long, and when it settles.
LEMMA DebouncedContact ==
    ASSUME NEW c \in ContactType, NEW low \in BOOLEAN
    PROVE  /\ Debounced(c, low) \in ContactType
           /\ Debounced(c, low).last = low
           /\ Debounced(c, low).low = IF Settles(c, low) THEN low ELSE c.low
           /\ Debounced(c, low).since =
                  IF c.last # low THEN 0
                  ELSE IF c.since = Debounce THEN Debounce ELSE c.since + 1
           /\ Settles(c, low) <=> c.last = low /\ c.since + 1 >= Debounce
<1> Debounce \in Nat \ {0}
    BY InputAssumption
<1> QED BY DEF ContactType, Debounced, Settles, Lower

\* A press of the finger that the debouncer has not registered yet.
Owed == fresh /\ ~registered

\* The invariant behind the single presses.  Once the chatter is over the contact reads
\* what the finger does, and is taken for it a debounce time later.  With no press
\* owed, a finger that is down has been registered and nothing has been read long
\* enough to forget it, because a reading against the finger began within its chatter;
\* for the same reason a finger that is up cannot be read long enough to register again.
ButtonTypeOK ==
    /\ btn \in ContactType
    /\ finger \in BOOLEAN /\ fresh \in BOOLEAN /\ registered \in BOOLEAN
    /\ sinceFinger \in 0..(Chatter + Debounce)

ReadsFinger ==
    sinceFinger >= Chatter =>
        btn.last = finger /\ (btn.low = finger \/ btn.since >= sinceFinger - Chatter)

DownIsKnown == ~Owed /\ finger => btn.low /\ (~btn.last => btn.since < sinceFinger)

UpIsKnown == ~Owed /\ ~finger /\ ~btn.low /\ btn.last => btn.since < sinceFinger

ButtonInv == ButtonTypeOK /\ ReadsFinger /\ DownIsKnown /\ UpIsKnown /\ PressesAreReal

\* A poll of the button keeps it.
LEMMA ButtonPoll == ButtonInv /\ PollButton => ButtonInv'
<1> SUFFICES ASSUME ButtonInv, PollButton PROVE ButtonInv'
    OBVIOUS
<1>0. Debounce \in Nat /\ Debounce > 0 /\ Chatter \in Nat /\ Chatter <= Debounce
    BY InputAssumption
<1> USE <1>0
<1>1. PICK moves \in BOOLEAN, low \in BOOLEAN :
        /\ finger' = IF moves THEN ~finger ELSE finger
        /\ sinceFinger' = IF moves THEN 0 ELSE Lower(sinceFinger + 1, Chatter + Debounce)
        /\ low = finger' \/ sinceFinger' < Chatter
        /\ btn' = Debounced(btn, low)
        /\ registered' = Pressed(btn, low)
        /\ fresh' = ((moves /\ finger') \/ (fresh /\ ~registered))
    BY DEF PollButton
<1>2. btn \in ContactType /\ finger \in BOOLEAN /\ fresh \in BOOLEAN
      /\ registered \in BOOLEAN /\ sinceFinger \in 0..(Chatter + Debounce)
    BY DEF ButtonInv, ButtonTypeOK, ReadsFinger, DownIsKnown, UpIsKnown
<1>3. /\ btn' \in ContactType /\ btn'.last = low
      /\ btn'.low = IF Settles(btn, low) THEN low ELSE btn.low
      /\ btn'.since = IF btn.last # low THEN 0
                       ELSE IF btn.since = Debounce THEN Debounce ELSE btn.since + 1
      /\ Settles(btn, low) <=> btn.last = low /\ btn.since + 1 >= Debounce
  <2>1. /\ Debounced(btn, low) \in ContactType
        /\ Debounced(btn, low).last = low
        /\ Debounced(btn, low).low = IF Settles(btn, low) THEN low ELSE btn.low
        /\ Debounced(btn, low).since =
              IF btn.last # low THEN 0
              ELSE IF btn.since = Debounce THEN Debounce ELSE btn.since + 1
        /\ Settles(btn, low) <=> btn.last = low /\ btn.since + 1 >= Debounce
      BY <1>2, DebouncedContact
  <2> QED BY <1>1, <2>1
<1>4. /\ btn.low \in BOOLEAN /\ btn.last \in BOOLEAN /\ btn.since \in 0..Debounce
      /\ btn'.low \in BOOLEAN /\ btn'.since \in 0..Debounce
    BY <1>2, <1>3 DEF ContactType
<1>5. finger' \in BOOLEAN /\ fresh' \in BOOLEAN /\ registered' \in BOOLEAN
  <2>1. Pressed(btn, low) \in BOOLEAN
      BY <1>1, <1>3, <1>4, Zenon DEF Pressed
  <2> QED BY <1>1, <1>2, <2>1, Zenon
<1>6. sinceFinger' \in 0..(Chatter + Debounce)
      /\ (~moves => sinceFinger' = IF sinceFinger = Chatter + Debounce
                                   THEN sinceFinger ELSE sinceFinger + 1)
      /\ (moves => sinceFinger' = 0)
    BY <1>1, <1>2 DEF Lower
<1>7. registered' <=> ~btn.low /\ btn'.low
    BY <1>1 DEF Pressed
<1>8. ReadsFinger'
  <2> SUFFICES ASSUME sinceFinger' >= Chatter
               PROVE  /\ btn'.last = finger'
                      /\ btn'.low = finger' \/ btn'.since >= sinceFinger' - Chatter
      BY DEF ReadsFinger
  <2>1. low = finger'
      BY <1>1, <1>6
  <2>2. btn'.last = finger'
    <3>1. btn'.last = low
        BY <1>3
    <3> QED BY <2>1, <3>1, Zenon
  <2>3. CASE sinceFinger' = Chatter
    <3>1. btn'.since >= sinceFinger' - Chatter
        BY <1>4, <2>3
    <3> QED BY <2>2, <3>1, Zenon
  <2>4. CASE sinceFinger' > Chatter
    <3>1. ~moves /\ finger' = finger /\ sinceFinger >= Chatter
        BY <1>1, <1>2, <1>6, <2>4
    <3>2. btn.last = low /\ (btn.low = low \/ btn.since >= sinceFinger - Chatter)
        BY <2>1, <3>1, Zenon DEF ButtonInv, ReadsFinger
    <3>3. CASE btn.low = low \/ Settles(btn, low)
      <4>1. btn'.low = IF Settles(btn, low) THEN low ELSE btn.low
          BY <1>3
      <4> QED BY <2>1, <2>2, <3>3, <4>1, Zenon
    <3>4. CASE btn.since >= sinceFinger - Chatter /\ ~Settles(btn, low)
      <4>1. btn.last = low
          BY <3>2
      <4>2. btn.since + 1 < Debounce /\ btn'.since = btn.since + 1
          BY <1>3, <1>4, <3>4, <4>1
      <4>3. sinceFinger' <= sinceFinger + 1
          BY <1>2, <1>6, <3>1
      <4>4. btn'.since >= sinceFinger' - Chatter
          BY <1>2, <1>4, <1>6, <3>4, <4>2, <4>3
      <4> QED BY <2>2, <4>4, Zenon
    <3>5. btn.low = low \/ Settles(btn, low)
          \/ (btn.since >= sinceFinger - Chatter /\ ~Settles(btn, low))
        BY <3>2, Zenon
    <3> QED BY <2>2, <3>3, <3>4, <3>5, Zenon
  <2>5. sinceFinger' = Chatter \/ sinceFinger' > Chatter
      BY <1>6
  <2> QED BY <2>2, <2>3, <2>4, <2>5, Zenon
<1>9. registered' => fresh'
  <2>1. CASE Owed \/ (moves /\ finger')
      BY <1>1, <2>1 DEF Owed
  <2>2. CASE ~Owed /\ finger
      BY <1>7, <2>2 DEF ButtonInv, ButtonTypeOK, ReadsFinger, DownIsKnown, UpIsKnown
  <2>3. CASE ~Owed /\ ~finger /\ ~moves
    <3>1. CASE btn.low \/ ~btn.last
        BY <1>3, <1>7, <3>1
    <3>2. CASE ~btn.low /\ btn.last
      <4>1. btn.since < sinceFinger
          BY <2>3, <3>2 DEF ButtonInv, ButtonTypeOK, ReadsFinger, DownIsKnown, UpIsKnown
      <4>2. Settles(btn, low) => sinceFinger' >= Chatter /\ ~low
          BY <1>1, <1>2, <1>3, <1>4, <1>6, <2>3, <4>1
      <4> QED BY <1>3, <1>7, <4>2
    <3> QED BY <3>1, <3>2
  <2> QED BY <1>1, <2>1, <2>2, <2>3
<1>10. ASSUME ~Owed', finger'
       PROVE  btn'.low /\ (~btn'.last => btn'.since < sinceFinger')
  <2>1. CASE registered'
      BY <1>3, <1>7, <2>1
  <2>2. CASE ~registered'
    <3>1. ~Owed /\ finger /\ ~moves
        BY <1>1, <1>10, <2>2 DEF Owed
    <3>2. btn.low /\ (~btn.last => btn.since < sinceFinger)
        BY <3>1 DEF ButtonInv, ButtonTypeOK, ReadsFinger, DownIsKnown, UpIsKnown
    <3>3. Settles(btn, low) => low
      <4> SUFFICES ASSUME Settles(btn, low), ~low PROVE FALSE
          OBVIOUS
      <4>1. ~btn.last /\ btn.since + 1 >= Debounce
        <5>1. btn.last = low /\ btn.since + 1 >= Debounce
            BY <1>3
        <5> QED BY <5>1, Zenon
      <4>2. sinceFinger' >= Chatter
          BY <1>2, <1>4, <1>6, <3>1, <3>2, <4>1
      <4>3. low = finger'
          BY <1>1, <4>2
      <4> QED BY <1>10, <4>3, Zenon
    <3>4. ~low => sinceFinger' < Chatter
        BY <1>1, <1>10
    <3> QED BY <1>2, <1>3, <1>4, <1>6, <3>1, <3>2, <3>3, <3>4
  <2> QED BY <2>1, <2>2
<1>11. ASSUME ~Owed', ~finger', ~btn'.low, btn'.last
       PROVE  btn'.since < sinceFinger'
  <2>1. ~registered' /\ ~Owed
      BY <1>1, <1>7, <1>11 DEF Owed
  <2>2. CASE finger
      \* Released in this poll, and forgotten at once: not by a reading that is low.
      BY <1>3, <1>11, <2>1, <2>2 DEF ButtonInv, ButtonTypeOK, ReadsFinger, DownIsKnown, UpIsKnown
  <2>3. CASE ~finger
    <3>1. ~moves
        BY <1>1, <1>11, <2>3
    <3>2. low /\ ~btn.low
      <4>1. low
          BY <1>3, <1>11
      <4> QED BY <1>3, <1>11, <4>1
    <3>3. btn.last => btn.since < sinceFinger
        BY <2>1, <2>3, <3>2 DEF ButtonInv, ButtonTypeOK, ReadsFinger, DownIsKnown, UpIsKnown
    <3>4. sinceFinger' < Chatter
        BY <1>1, <1>11, <3>2
    <3>5. sinceFinger' = sinceFinger + 1
        BY <1>2, <1>6, <3>1, <3>4
    <3>6. CASE btn.last
      <4>1. btn'.since \in {0, btn.since + 1, btn.since}
          BY <1>3
      <4>2. btn'.since <= btn.since + 1
          BY <1>4, <4>1
      <4> QED BY <1>2, <1>4, <3>3, <3>5, <3>6, <4>2
    <3>7. CASE ~btn.last
      <4>1. btn'.since = 0
          BY <1>3, <3>2, <3>7
      <4> QED BY <1>2, <3>5, <4>1
    <3> QED BY <3>6, <3>7
  <2> QED BY <2>2, <2>3
<1>12. PressesAreReal'
  <2>1. ASSUME sinceFinger' >= Chatter + Debounce PROVE btn'.low = finger'
    <3>1. ~moves /\ finger' = finger /\ low = finger
        BY <1>1, <1>2, <1>6, <2>1
    <3>2. CASE sinceFinger >= Chatter + Debounce
        BY <1>3, <1>4, <3>1, <3>2 DEF ButtonInv, ButtonTypeOK, ReadsFinger, DownIsKnown, UpIsKnown, PressesAreReal
    <3>3. CASE sinceFinger = Chatter + Debounce - 1
      <4>1. btn.last = finger /\ (btn.low = finger \/ btn.since >= Debounce - 1)
          BY <3>3 DEF ButtonInv, ButtonTypeOK, ReadsFinger, DownIsKnown, UpIsKnown
      <4> QED BY <1>3, <1>4, <3>1, <4>1
    <3> QED BY <1>2, <1>6, <2>1, <3>1, <3>2, <3>3
  <2> QED BY <1>9, <2>1 DEF PressesAreReal
<1>13. ButtonTypeOK'
    BY <1>3, <1>5, <1>6 DEF ButtonTypeOK
<1>14. DownIsKnown'
    BY <1>10 DEF DownIsKnown
<1>15. UpIsKnown'
    BY <1>11 DEF UpIsKnown
<1> QED BY <1>8, <1>12, <1>13, <1>14, <1>15 DEF ButtonInv

\* A contact that chatters no longer than the debounce time registers a press only when
\* the finger has pressed again, and follows a finger that stays, however often it moves.
THEOREM SinglePresses == Spec => []PressesAreReal
<1>1. Init => ButtonInv
  <2> SUFFICES ASSUME Init PROVE ButtonInv
      OBVIOUS
  <2>1. /\ btn = [low |-> FALSE, last |-> FALSE, since |-> 0] /\ finger = FALSE
        /\ sinceFinger = Chatter /\ fresh = FALSE /\ registered = FALSE
      BY DEF Init, Idle
  <2>2. Debounce \in Nat /\ Debounce > 0 /\ Chatter \in Nat
      BY InputAssumption
  <2>3. ButtonTypeOK
    <3>1. btn \in ContactType
        BY <2>1, <2>2, 0 \in 0..Debounce DEF ContactType
    <3>2. sinceFinger \in 0..(Chatter + Debounce)
        BY <2>1, <2>2
    <3> QED BY <2>1, <3>1, <3>2 DEF ButtonTypeOK
  <2>4. ReadsFinger /\ DownIsKnown /\ UpIsKnown /\ PressesAreReal
      BY <2>1, <2>2 DEF ReadsFinger, DownIsKnown, UpIsKnown, PressesAreReal
  <2> QED BY <2>3, <2>4 DEF ButtonInv
<1>2. ButtonInv /\ [Next]_vars => ButtonInv'
  <2> SUFFICES ASSUME ButtonInv, UNCHANGED btnVars PROVE ButtonInv'
      BY ButtonPoll DEF Next, PollEncoder, TakeSteps, PollNudge, vars
  <2> QED BY DEF ButtonInv, ButtonTypeOK, ReadsFinger, DownIsKnown, UpIsKnown, btnVars, Owed, PressesAreReal
<1>3. ButtonInv => PressesAreReal
    BY DEF ButtonInv, ButtonTypeOK, ReadsFinger, DownIsKnown, UpIsKnown
<1> QED BY <1>1, <1>2, <1>3, PTL DEF Spec

-----------------------------------------------------------------------------
\* What a poll of the nudge buttons sees and does, in terms of the states around it.
NewPress(s) == ~nudge[s].low /\ nudge'[s].low
Both == \A s \in Sides : nudge'[s].low
Due(s) == IF NewPress(s) THEN RepeatDelay ELSE Until(repeatIn[s])
Repeats(s) == nudge'[s].low /\ ~Both /\ ~NewPress(s) /\ Due(s) = 0
Leaves == escrowDir # 0 /\ ~Both /\ escrowed + 1 >= Escrow

\* Polls since the last step of a button.
SinceStep(s) == IF stepped[s] # NoStep THEN 0 ELSE sinceStep[s]

NudgeTypeOK ==
    /\ nudge \in [Sides -> ContactType]
    /\ repeatIn \in [Sides -> 0..RepeatDelay]
    /\ interval \in [Sides -> RepeatMin..RepeatStart]
    /\ escrowDir \in {-1, 0, 1} /\ escrowed \in 0..(Escrow - 1)
    /\ stepped \in [Sides -> {NoStep, "press", "repeat"}]
    /\ sincePress \in [Sides -> 0..(Escrow + 1)]
    /\ sinceStep \in [Sides -> 0..RepeatMin]
    /\ disturbed \in [Sides -> BOOLEAN]

\* The bounds of the nudge buttons, and how they compare.
LEMMA NudgeBounds ==
    /\ Debounce \in Nat /\ Escrow \in Nat /\ RepeatDelay \in Nat
    /\ RepeatStart \in Nat /\ RepeatMin \in Nat /\ RepeatAccel \in Nat
    /\ Debounce > 0 /\ Escrow > 0 /\ RepeatMin > 0
    /\ RepeatMin <= RepeatStart /\ RepeatStart <= RepeatDelay
    /\ RepeatMin <= Escrow /\ Escrow + RepeatMin <= RepeatDelay
BY InputAssumption

\* A repeat leaves its interval between the fastest and the slowest.
LEMMA AcceleratedType ==
    ASSUME NEW i \in RepeatMin..RepeatStart
    PROVE  Accelerated(i) \in RepeatMin..RepeatStart
BY NudgeBounds DEF Accelerated

\* The contacts of both buttons after a poll.
LEMMA NudgeContacts ==
    ASSUME NudgeTypeOK, NEW level \in [Sides -> BOOLEAN],
           nudge' = [s \in Sides |-> Debounced(nudge[s], level[s])]
    PROVE  /\ nudge' \in [Sides -> ContactType]
           /\ \A s \in Sides : /\ Debounced(nudge[s], level[s]) = nudge'[s]
                                /\ Pressed(nudge[s], level[s]) <=> NewPress(s)
<1>1. ASSUME NEW s \in Sides
      PROVE  /\ Debounced(nudge[s], level[s]) \in ContactType
             /\ Debounced(nudge[s], level[s]) = nudge'[s]
             /\ Pressed(nudge[s], level[s]) <=> NewPress(s)
  <2>1. nudge[s] \in ContactType /\ level[s] \in BOOLEAN
      BY DEF NudgeTypeOK
  <2>2. Debounced(nudge[s], level[s]) \in ContactType
      BY <2>1, DebouncedContact
  <2> QED BY <2>2 DEF Pressed, NewPress
<1> QED BY <1>1

\* One poll of the nudge buttons, button by button.
LEMMA NudgeStep ==
    ASSUME NudgeTypeOK, PollNudge
    PROVE  /\ nudge' \in [Sides -> ContactType]
           /\ \A f \in {stepped', interval', repeatIn', sincePress', sinceStep', disturbed'} :
                 f = [s \in Sides |-> f[s]]
           /\ \A s \in Sides :
                /\ stepped'[s] = IF Leaves /\ escrowDir = s THEN "press"
                                 ELSE IF Repeats(s) THEN "repeat" ELSE NoStep
                /\ interval'[s] =
                     IF ~nudge'[s].low \/ NewPress(s) THEN RepeatStart
                     ELSE IF Repeats(s) THEN Accelerated(interval[s]) ELSE interval[s]
                /\ repeatIn'[s] = IF ~nudge'[s].low THEN 0
                                  ELSE IF Repeats(s) THEN interval'[s] ELSE Due(s)
                /\ sincePress'[s] =
                     IF NewPress(s) THEN 0 ELSE Lower(sincePress[s] + 1, Escrow + 1)
                /\ sinceStep'[s] =
                     IF stepped[s] # NoStep THEN 1 ELSE Lower(sinceStep[s] + 1, RepeatMin)
                /\ disturbed'[s] \in BOOLEAN
                /\ disturbed'[s] <=>
                     IF NewPress(s) THEN nudge'[-s].low
                     ELSE sincePress'[s] <= Escrow /\ (disturbed[s] \/ NewPress(-s))
                /\ NewPress(s) /\ ~Both => escrowDir' = s /\ escrowed' = 0
           /\ (\A s \in Sides : ~NewPress(s)) \/ Both =>
                /\ escrowDir' = IF Both \/ Leaves THEN 0 ELSE escrowDir
                /\ escrowed' = IF escrowDir' = 0 THEN 0 ELSE escrowed + 1
<1>1. PICK level \in [Sides -> BOOLEAN] :
        LET now == [s \in Sides |-> Debounced(nudge[s], level[s])]
            low == [s \in Sides |-> now[s].low]
            press == [s \in Sides |-> Pressed(nudge[s], level[s])]
            both == \A s \in Sides : low[s]
            alone == {s \in Sides : low[s] /\ ~both}
            first == {s \in alone : press[s]}
            due == [s \in Sides |-> IF press[s] THEN RepeatDelay ELSE Until(repeatIn[s])]
            repeats == {s \in alone \ first : due[s] = 0}
            leaves == LeavesEscrow(both, low)
        IN  /\ nudge' = now
            /\ escrowDir' = IF first # {} THEN CHOOSE s \in first : TRUE
                            ELSE IF both \/ leaves THEN 0 ELSE escrowDir
            /\ escrowed' = IF first # {} \/ escrowDir' = 0 THEN 0 ELSE escrowed + 1
            /\ stepped' = [s \in Sides |-> IF leaves /\ escrowDir = s THEN "press"
                                           ELSE IF s \in repeats THEN "repeat" ELSE NoStep]
            /\ interval' = [s \in Sides |->
                 IF ~low[s] \/ press[s] THEN RepeatStart
                 ELSE IF s \in repeats THEN Accelerated(interval[s]) ELSE interval[s]]
            /\ repeatIn' = [s \in Sides |->
                 IF ~low[s] THEN 0 ELSE IF s \in repeats THEN interval'[s] ELSE due[s]]
            /\ sincePress' = [s \in Sides |->
                 IF press[s] THEN 0 ELSE Lower(sincePress[s] + 1, Escrow + 1)]
            /\ sinceStep' = [s \in Sides |->
                 IF stepped[s] # NoStep THEN 1 ELSE Lower(sinceStep[s] + 1, RepeatMin)]
            /\ disturbed' = [s \in Sides |->
                 IF press[s] THEN low[-s]
                 ELSE sincePress'[s] <= Escrow /\ (disturbed[s] \/ press[-s])]
    BY DEF PollNudge
<1> DEFINE now == [s \in Sides |-> Debounced(nudge[s], level[s])]
           low == [s \in Sides |-> now[s].low]
           press == [s \in Sides |-> Pressed(nudge[s], level[s])]
           both == \A s \in Sides : low[s]
           alone == {s \in Sides : low[s] /\ ~both}
           first == {s \in alone : press[s]}
           due == [s \in Sides |-> IF press[s] THEN RepeatDelay ELSE Until(repeatIn[s])]
           repeats == {s \in alone \ first : due[s] = 0}
           leaves == LeavesEscrow(both, low)
<1>2. nudge' \in [Sides -> ContactType]
    BY <1>1, NudgeContacts
<1>3. ASSUME NEW s \in Sides
      PROVE  /\ low[s] \in BOOLEAN /\ press[s] \in BOOLEAN
             /\ low[s] <=> nudge'[s].low
             /\ press[s] <=> NewPress(s)
  <2>1. /\ Debounced(nudge[s], level[s]) = nudge'[s]
        /\ Pressed(nudge[s], level[s]) <=> NewPress(s)
      BY <1>1, NudgeContacts
  <2>2. low[s] = Debounced(nudge[s], level[s]).low /\ press[s] = Pressed(nudge[s], level[s])
      OBVIOUS
  <2>3. nudge'[s].low \in BOOLEAN
      BY <1>2 DEF ContactType
  <2>4. Pressed(nudge[s], level[s]) \in BOOLEAN
      BY Zenon DEF Pressed
  <2> HIDE DEF low, press
  <2> QED BY <2>1, <2>2, <2>3, <2>4, Zenon
<1>4. both <=> Both
    BY <1>3 DEF Both
<1>5. \A s \in Sides : due[s] = Due(s)
    BY <1>3 DEF Due
<1>6. \A s \in Sides : s \in first <=> NewPress(s) /\ ~Both
    BY <1>3, <1>4 DEF NewPress
<1>7. \A s \in Sides : s \in repeats <=> Repeats(s)
    BY <1>3, <1>4, <1>5, <1>6 DEF Repeats
<1>8. leaves <=> Leaves
    BY <1>4 DEF LeavesEscrow, Leaves
<1>9. \A s \in Sides : -s \in Sides
    BY DEF Sides
<1>10. /\ stepped' = [s \in Sides |-> IF leaves /\ escrowDir = s THEN "press"
                                      ELSE IF s \in repeats THEN "repeat" ELSE NoStep]
       /\ interval' = [s \in Sides |->
            IF ~low[s] \/ press[s] THEN RepeatStart
            ELSE IF s \in repeats THEN Accelerated(interval[s]) ELSE interval[s]]
       /\ repeatIn' = [s \in Sides |->
            IF ~low[s] THEN 0 ELSE IF s \in repeats THEN interval'[s] ELSE due[s]]
       /\ sincePress' = [s \in Sides |->
            IF press[s] THEN 0 ELSE Lower(sincePress[s] + 1, Escrow + 1)]
       /\ sinceStep' = [s \in Sides |->
            IF stepped[s] # NoStep THEN 1 ELSE Lower(sinceStep[s] + 1, RepeatMin)]
       /\ disturbed' = [s \in Sides |->
            IF press[s] THEN low[-s]
            ELSE sincePress'[s] <= Escrow /\ (disturbed[s] \/ press[-s])]
    BY <1>1
<1>11. /\ escrowDir' = IF first # {} THEN CHOOSE s \in first : TRUE
                       ELSE IF both \/ leaves THEN 0 ELSE escrowDir
       /\ escrowed' = IF first # {} \/ escrowDir' = 0 THEN 0 ELSE escrowed + 1
    BY <1>1
<1>12. first \subseteq Sides
    OBVIOUS
<1> HIDE DEF now, low, press, both, alone, first, due, repeats, leaves
<1>13. \A f \in {stepped', interval', repeatIn', sincePress', sinceStep', disturbed'} :
         f = [s \in Sides |-> f[s]]
    BY <1>10
<1>14. ASSUME NEW s \in Sides
       PROVE  /\ stepped'[s] = IF Leaves /\ escrowDir = s THEN "press"
                               ELSE IF Repeats(s) THEN "repeat" ELSE NoStep
              /\ interval'[s] =
                   IF ~nudge'[s].low \/ NewPress(s) THEN RepeatStart
                   ELSE IF Repeats(s) THEN Accelerated(interval[s]) ELSE interval[s]
              /\ repeatIn'[s] = IF ~nudge'[s].low THEN 0
                                ELSE IF Repeats(s) THEN interval'[s] ELSE Due(s)
              /\ sincePress'[s] =
                   IF NewPress(s) THEN 0 ELSE Lower(sincePress[s] + 1, Escrow + 1)
              /\ sinceStep'[s] =
                   IF stepped[s] # NoStep THEN 1 ELSE Lower(sinceStep[s] + 1, RepeatMin)
    BY <1>3, <1>5, <1>7, <1>8, <1>10
<1>15. ASSUME NEW s \in Sides
       PROVE  /\ disturbed'[s] \in BOOLEAN
              /\ disturbed'[s] <=>
                   IF NewPress(s) THEN nudge'[-s].low
                   ELSE sincePress'[s] <= Escrow /\ (disturbed[s] \/ NewPress(-s))
  <2>1. disturbed'[s] = IF press[s] THEN low[-s]
                        ELSE sincePress'[s] <= Escrow /\ (disturbed[s] \/ press[-s])
      BY <1>10
  <2> QED BY <1>3, <1>9, <2>1, Zenon
<1>16. ASSUME NEW s \in Sides, NewPress(s), ~Both
       PROVE  escrowDir' = s /\ escrowed' = 0
  <2>1. \A t \in Sides : NewPress(t) => t = s
      BY <1>16 DEF Both, NewPress, Sides
  <2>2. first = {s}
      BY <1>6, <1>12, <1>16, <2>1
  <2> QED BY <1>11, <2>2
<1>17. ASSUME (\A s \in Sides : ~NewPress(s)) \/ Both
       PROVE  /\ escrowDir' = IF Both \/ Leaves THEN 0 ELSE escrowDir
              /\ escrowed' = IF escrowDir' = 0 THEN 0 ELSE escrowed + 1
  <2>1. first = {}
      BY <1>6, <1>12, <1>17
  <2> QED BY <1>4, <1>8, <1>11, <2>1
<1> QED BY <1>2, <1>13, <1>14, <1>15, <1>16, <1>17

\* The nudge buttons keep their types: a step's interval stays between the fastest and
\* the slowest, and a step is held back for less than the escrow.
LEMMA NudgeTypeNext == NudgeTypeOK /\ [Next]_vars => NudgeTypeOK'
<1> SUFFICES ASSUME NudgeTypeOK, [Next]_vars PROVE NudgeTypeOK'
    OBVIOUS
<1>1. CASE PollNudge
  <2>1. nudge' \in [Sides -> ContactType]
      BY <1>1, NudgeStep
  <2>2. stepped' \in [Sides -> {NoStep, "press", "repeat"}]
      BY <1>1, NudgeStep
  <2>3. interval' \in [Sides -> RepeatMin..RepeatStart]
    <3>1. ASSUME NEW s \in Sides PROVE interval'[s] \in RepeatMin..RepeatStart
      <4>1. interval[s] \in RepeatMin..RepeatStart
          BY DEF NudgeTypeOK
      <4>2. RepeatStart \in RepeatMin..RepeatStart
          BY NudgeBounds
      <4> QED BY <1>1, <4>1, <4>2, NudgeStep, AcceleratedType
    <3> QED BY <1>1, <3>1, NudgeStep
  <2>4. repeatIn' \in [Sides -> 0..RepeatDelay]
    <3>1. ASSUME NEW s \in Sides PROVE repeatIn'[s] \in 0..RepeatDelay
      <4>1. repeatIn[s] \in 0..RepeatDelay /\ interval'[s] \in 0..RepeatDelay
          BY <2>3, NudgeBounds DEF NudgeTypeOK
      <4>2. Due(s) \in 0..RepeatDelay /\ 0 \in 0..RepeatDelay
          BY <4>1, NudgeBounds DEF Due, Until
      <4> QED BY <1>1, <4>1, <4>2, NudgeStep
    <3> QED BY <1>1, <3>1, NudgeStep
  <2>5. sincePress' \in [Sides -> 0..(Escrow + 1)]
    <3>1. ASSUME NEW s \in Sides PROVE sincePress'[s] \in 0..(Escrow + 1)
      <4>1. sincePress[s] \in 0..(Escrow + 1)
          BY DEF NudgeTypeOK
      <4>2. Lower(sincePress[s] + 1, Escrow + 1) \in 0..(Escrow + 1) /\ 0 \in 0..(Escrow + 1)
          BY <4>1, NudgeBounds DEF Lower
      <4> QED BY <1>1, <4>2, NudgeStep
    <3> QED BY <1>1, <3>1, NudgeStep
  <2>6. sinceStep' \in [Sides -> 0..RepeatMin]
    <3>1. ASSUME NEW s \in Sides PROVE sinceStep'[s] \in 0..RepeatMin
      <4>1. sinceStep[s] \in 0..RepeatMin
          BY DEF NudgeTypeOK
      <4>2. Lower(sinceStep[s] + 1, RepeatMin) \in 0..RepeatMin /\ 1 \in 0..RepeatMin
          BY <4>1, NudgeBounds DEF Lower
      <4> QED BY <1>1, <4>2, NudgeStep
    <3> QED BY <1>1, <3>1, NudgeStep
  <2>7. disturbed' \in [Sides -> BOOLEAN]
      BY <1>1, NudgeStep
  <2>8. escrowDir' \in {-1, 0, 1} /\ escrowed' \in 0..(Escrow - 1)
    <3>1. escrowDir \in {-1, 0, 1} /\ escrowed \in 0..(Escrow - 1)
        BY DEF NudgeTypeOK
    <3>2. CASE \E s \in Sides : NewPress(s) /\ ~Both
        BY <1>1, <3>2, NudgeStep, NudgeBounds DEF Sides
    <3>3. CASE (\A s \in Sides : ~NewPress(s)) \/ Both
      <4>1. /\ escrowDir' = IF Both \/ Leaves THEN 0 ELSE escrowDir
            /\ escrowed' = IF escrowDir' = 0 THEN 0 ELSE escrowed + 1
          BY <1>1, <3>3, NudgeStep
      <4> QED BY <3>1, <4>1, NudgeBounds DEF Leaves
    <3> QED BY <3>2, <3>3
  <2> QED BY <2>1, <2>2, <2>3, <2>4, <2>5, <2>6, <2>7, <2>8 DEF NudgeTypeOK
<1>2. CASE UNCHANGED nudgeVars
    BY <1>2 DEF nudgeVars, NudgeTypeOK
<1> QED BY <1>1, <1>2 DEF Next, vars, PollEncoder, TakeSteps, PollButton

\* And they start with them.
LEMMA NudgeTypeInit == Init => NudgeTypeOK
<1> SUFFICES ASSUME Init PROVE NudgeTypeOK
    OBVIOUS
<1>1. Idle \in ContactType
    BY NudgeBounds, 0 \in 0..Debounce DEF Idle, ContactType
<1>2. /\ 0 \in 0..RepeatDelay /\ RepeatStart \in RepeatMin..RepeatStart
      /\ 0 \in 0..(Escrow - 1) /\ Escrow + 1 \in 0..(Escrow + 1)
      /\ RepeatMin \in 0..RepeatMin
    BY NudgeBounds
<1> QED BY <1>1, <1>2 DEF Init, NudgeTypeOK

-----------------------------------------------------------------------------
\* The step of a combo never leaves, whenever the second button comes in and however
\* the two bounce: a press leaves only in a poll that does not see both.
THEOREM ComboKeepsPress == Spec => []ComboPressNeverEscapes
<1>1. Init => ComboPressNeverEscapes
    BY DEF Init, ComboPressNeverEscapes, NoStep
<1>2. NudgeTypeOK /\ ComboPressNeverEscapes /\ [Next]_vars => ComboPressNeverEscapes'
  <2> SUFFICES ASSUME NudgeTypeOK, ComboPressNeverEscapes, [Next]_vars
               PROVE  ComboPressNeverEscapes'
      OBVIOUS
  <2>1. CASE PollNudge
      BY <2>1, NudgeStep DEF Both, Leaves, ComboPressNeverEscapes, NoStep
  <2>2. CASE UNCHANGED nudgeVars
      BY <2>2 DEF nudgeVars, ComboPressNeverEscapes
  <2> QED BY <2>1, <2>2 DEF Next, vars, PollEncoder, TakeSteps, PollButton
<1> QED BY <1>1, <1>2, NudgeTypeInit, NudgeTypeNext, PTL DEF Spec

-----------------------------------------------------------------------------
\* The invariant behind the presses that step.  Until its escrow is over, a press that
\* nothing disturbed is the one held back, for as long as it is old, and the other
\* button is up: a combo, or a press of the other, would have taken its place.
HeldBack ==
    \A s \in Sides :
        sincePress[s] < Escrow /\ ~disturbed[s] =>
            escrowDir = s /\ escrowed = sincePress[s] /\ ~nudge[-s].low

PressInv == HeldBack /\ UndisturbedPressSteps

\* A poll keeps it, for one button.
LEMMA HeldBackPoll ==
    ASSUME NudgeTypeOK, HeldBack, PollNudge, NEW s \in Sides, ~disturbed'[s]
    PROVE  /\ sincePress'[s] < Escrow =>
                  escrowDir' = s /\ escrowed' = sincePress'[s] /\ ~nudge'[-s].low
           /\ sincePress'[s] = Escrow => stepped'[s] = "press"
<1>1. /\ s # 0 /\ -s \in Sides /\ -(-s) = s /\ \A t \in Sides : t = s \/ t = -s
      /\ sincePress[s] \in 0..(Escrow + 1)
    BY DEF Sides, NudgeTypeOK
<1>2. CASE NewPress(s)
  <2>1. sincePress'[s] = 0 /\ ~nudge'[-s].low
      BY <1>2, NudgeStep
  <2>2. ~Both
      BY <1>1, <2>1 DEF Both
  <2>3. escrowDir' = s /\ escrowed' = 0
      BY <1>2, <2>2, NudgeStep
  <2> QED BY <2>1, <2>3, NudgeBounds
<1>3. CASE ~NewPress(s) /\ sincePress[s] >= Escrow
  <2>1. sincePress'[s] = Escrow + 1
      BY <1>1, <1>3, NudgeStep, NudgeBounds DEF Lower
  <2> QED BY <2>1, NudgeBounds
<1>4. CASE ~NewPress(s) /\ sincePress[s] < Escrow
  <2>1. sincePress'[s] = sincePress[s] + 1
      BY <1>1, <1>4, NudgeStep, NudgeBounds DEF Lower
  <2>2. ~disturbed[s] /\ ~NewPress(-s)
      BY <1>1, <1>4, <2>1, NudgeStep, NudgeBounds
  <2>3. escrowDir = s /\ escrowed = sincePress[s] /\ ~nudge[-s].low
      BY <1>4, <2>2 DEF HeldBack
  <2>4. ~nudge'[-s].low
      BY <2>2, <2>3 DEF NewPress
  <2>5. ~Both /\ \A t \in Sides : ~NewPress(t)
      BY <1>1, <1>4, <2>2, <2>4 DEF Both
  <2>6. Leaves <=> sincePress'[s] >= Escrow
      BY <1>1, <2>1, <2>3, <2>5 DEF Leaves
  <2>7. /\ escrowDir' = IF Leaves THEN 0 ELSE s
        /\ escrowed' = IF escrowDir' = 0 THEN 0 ELSE escrowed + 1
        /\ stepped'[s] = IF Leaves THEN "press" ELSE IF Repeats(s) THEN "repeat" ELSE NoStep
      BY <2>3, <2>5, NudgeStep
  <2> QED BY <1>1, <2>1, <2>3, <2>4, <2>6, <2>7, NudgeBounds
<1> QED BY <1>1, <1>2, <1>3, <1>4, NudgeBounds

\* A press that no other press disturbs steps when its escrow is over, for any bounce
\* of the contacts, and also when the button has been released by then.
THEOREM PressSteps == Spec => []UndisturbedPressSteps
<1>1. Init => PressInv
  <2> SUFFICES ASSUME Init PROVE PressInv
      OBVIOUS
  <2>1. \A s \in Sides : sincePress[s] = Escrow + 1
      BY DEF Init
  <2> QED BY <2>1, NudgeBounds DEF PressInv, HeldBack, UndisturbedPressSteps
<1>2. NudgeTypeOK /\ PressInv /\ [Next]_vars => PressInv'
  <2> SUFFICES ASSUME NudgeTypeOK, PressInv, [Next]_vars PROVE PressInv'
      OBVIOUS
  <2>1. CASE PollNudge
      BY <2>1, HeldBackPoll DEF PressInv, HeldBack, UndisturbedPressSteps
  <2>2. CASE UNCHANGED nudgeVars
      BY <2>2 DEF nudgeVars, PressInv, HeldBack, UndisturbedPressSteps
  <2> QED BY <2>1, <2>2 DEF Next, vars, PollEncoder, TakeSteps, PollButton
<1>3. PressInv => UndisturbedPressSteps
    BY DEF PressInv
<1> QED BY <1>1, <1>2, <1>3, NudgeTypeInit, NudgeTypeNext, PTL DEF Spec

-----------------------------------------------------------------------------
\* The invariant behind the spacing of the steps.  A press held back has seen no step of
\* its button since, and its first repeat is a whole delay away from it; and a button
\* that is down repeats no sooner than the fastest interval after its last step.
Spaced ==
    \A s \in Sides :
        /\ escrowDir = s => SinceStep(s) >= Lower(escrowed, RepeatMin)
        /\ escrowDir = s /\ nudge[s].low => repeatIn[s] >= RepeatDelay - escrowed
        /\ nudge[s].low => repeatIn[s] + SinceStep(s) >= RepeatMin

SpacingInv == Spaced /\ RepeatsStayApart

\* A poll keeps it, for one button.
LEMMA SpacedPoll ==
    ASSUME NudgeTypeOK, SpacingInv, PollNudge, NEW s \in Sides
    PROVE  /\ stepped'[s] # NoStep => sinceStep'[s] >= RepeatMin
           /\ escrowDir' = s => SinceStep(s)' >= Lower(escrowed', RepeatMin)
           /\ escrowDir' = s /\ nudge'[s].low => repeatIn'[s] >= RepeatDelay - escrowed'
           /\ nudge'[s].low => repeatIn'[s] + SinceStep(s)' >= RepeatMin
<1>1. /\ s # 0 /\ -s # s
      /\ SinceStep(s) \in 0..RepeatMin /\ repeatIn[s] \in 0..RepeatDelay
      /\ escrowed \in 0..(Escrow - 1) /\ sinceStep[s] \in 0..RepeatMin
    BY NudgeBounds DEF Sides, NudgeTypeOK, SinceStep
<1>2. /\ escrowDir = s => SinceStep(s) >= Lower(escrowed, RepeatMin)
      /\ escrowDir = s /\ nudge[s].low => repeatIn[s] >= RepeatDelay - escrowed
      /\ nudge[s].low => repeatIn[s] + SinceStep(s) >= RepeatMin
    BY DEF SpacingInv, Spaced
<1>3. sinceStep'[s] = IF SinceStep(s) = RepeatMin THEN RepeatMin ELSE SinceStep(s) + 1
  <2>1. sinceStep'[s] = IF stepped[s] # NoStep THEN 1 ELSE Lower(sinceStep[s] + 1, RepeatMin)
      BY NudgeStep
  <2> QED BY <1>1, <2>1, NudgeBounds DEF SinceStep, Lower
<1>4. /\ stepped'[s] = IF Leaves /\ escrowDir = s THEN "press"
                       ELSE IF Repeats(s) THEN "repeat" ELSE NoStep
      /\ repeatIn'[s] = IF ~nudge'[s].low THEN 0
                        ELSE IF Repeats(s) THEN interval'[s] ELSE Due(s)
      /\ SinceStep(s)' = IF stepped'[s] # NoStep THEN 0 ELSE sinceStep'[s]
    BY NudgeStep DEF SinceStep
<1>5. interval'[s] \in Nat /\ interval'[s] >= RepeatMin
  <2>1. NudgeTypeOK'
      BY NudgeTypeNext DEF Next
  <2> QED BY <2>1, NudgeBounds DEF NudgeTypeOK
<1>6. Lower(escrowed, RepeatMin) = IF escrowed < RepeatMin THEN escrowed ELSE RepeatMin
    BY DEF Lower
\* The step held back.
<1>7. CASE Leaves /\ escrowDir = s
  <2>1. escrowed = Escrow - 1
      BY <1>1, <1>7, NudgeBounds DEF Leaves
  <2>2. sinceStep'[s] >= RepeatMin
      BY <1>1, <1>2, <1>3, <1>6, <1>7, <2>1, NudgeBounds
  <2>3. nudge'[s].low => repeatIn'[s] \in Nat /\ repeatIn'[s] >= RepeatMin
    <3>1. CASE NewPress(s)
        BY <1>1, <1>4, <1>5, <3>1, NudgeBounds DEF Due, Repeats
    <3>2. CASE nudge[s].low
        BY <1>1, <1>2, <1>4, <1>5, <1>7, <2>1, <3>2, NudgeBounds DEF Due, Until, NewPress
    <3> QED BY <3>1, <3>2 DEF NewPress
  <2>4. escrowDir' = s => escrowed' = 0 /\ NewPress(s)
      BY <1>1, <1>7, NudgeStep DEF Sides
  <2>5. NewPress(s) /\ nudge'[s].low => repeatIn'[s] = RepeatDelay
      BY <1>4 DEF Due, Repeats
  <2> QED BY <1>4, <1>7, <2>2, <2>3, <2>4, <2>5, NudgeBounds DEF Lower, NoStep, NewPress
\* A repeat.
<1>8. CASE ~(Leaves /\ escrowDir = s) /\ Repeats(s)
  <2>1. nudge[s].low /\ nudge'[s].low /\ ~NewPress(s) /\ ~Both /\ repeatIn[s] <= 1
      BY <1>1, <1>8 DEF Repeats, NewPress, Due, Until
  <2>2. sinceStep'[s] >= RepeatMin
      BY <1>1, <1>2, <1>3, <2>1, NudgeBounds
  <2>3. escrowDir # s
      BY <1>1, <1>2, <2>1, NudgeBounds
  <2>4. escrowDir' # s
      BY <1>1, <2>1, <2>3, NudgeStep DEF Sides
  <2> QED BY <1>4, <1>5, <1>8, <2>1, <2>2, <2>4 DEF NoStep
\* Neither.
<1>9. CASE ~(Leaves /\ escrowDir = s) /\ ~Repeats(s)
  <2>1. stepped'[s] = NoStep /\ SinceStep(s)' = sinceStep'[s]
      BY <1>4, <1>9
  <2>2. CASE NewPress(s)
    <3>1. nudge'[s].low /\ repeatIn'[s] = RepeatDelay
        BY <1>4, <1>9, <2>2 DEF Due, NewPress
    <3>2. escrowDir' = s => escrowed' = 0
        BY <1>1, <2>2, NudgeStep DEF Sides
    <3> QED BY <1>1, <1>3, <2>1, <3>1, <3>2, NudgeBounds DEF Lower
  <2>3. CASE ~NewPress(s)
    <3>1. nudge'[s].low => nudge[s].low /\ repeatIn'[s] = Until(repeatIn[s])
        BY <1>4, <1>9, <2>3 DEF Due, NewPress
    <3>2. escrowDir' = s => escrowDir = s /\ escrowed' = escrowed + 1
        BY <1>1, <2>3, NudgeStep DEF Sides
    <3>3. escrowDir' = s => SinceStep(s)' >= Lower(escrowed', RepeatMin)
        BY <1>1, <1>2, <1>3, <1>6, <2>1, <3>2, NudgeBounds DEF Lower
    <3>4. nudge'[s].low => repeatIn'[s] + SinceStep(s)' >= RepeatMin
        BY <1>1, <1>2, <1>3, <2>1, <3>1, NudgeBounds DEF Until
    <3>5. escrowDir' = s /\ nudge'[s].low => repeatIn'[s] >= RepeatDelay - escrowed'
        BY <1>1, <1>2, <3>1, <3>2, NudgeBounds DEF Until
    <3> QED BY <2>1, <3>3, <3>4, <3>5
  <2> QED BY <2>2, <2>3
<1> QED BY <1>7, <1>8, <1>9

\* Two steps of one button are never closer than the fastest repeat, whatever presses,
\* combos and releases lie between them: the escrow is at least that long, and ends at
\* least that long before the first repeat.
THEOREM StepsStayApart == Spec => []RepeatsStayApart
<1>1. Init => SpacingInv
  <2> SUFFICES ASSUME Init PROVE SpacingInv
      OBVIOUS
  <2>1. \A s \in Sides : stepped[s] = NoStep /\ escrowDir # s /\ nudge[s].low = FALSE
      BY DEF Init, Sides, Idle
  <2> QED BY <2>1 DEF SpacingInv, Spaced, RepeatsStayApart
<1>2. NudgeTypeOK /\ SpacingInv /\ [Next]_vars => SpacingInv'
  <2> SUFFICES ASSUME NudgeTypeOK, SpacingInv, [Next]_vars PROVE SpacingInv'
      OBVIOUS
  <2>1. CASE PollNudge
      BY <2>1, SpacedPoll DEF SpacingInv, Spaced, RepeatsStayApart
  <2>2. CASE UNCHANGED nudgeVars
      BY <2>2 DEF nudgeVars, SpacingInv, Spaced, SinceStep, RepeatsStayApart
  <2> QED BY <2>1, <2>2 DEF Next, vars, PollEncoder, TakeSteps, PollButton
<1>3. SpacingInv => RepeatsStayApart
    BY DEF SpacingInv
<1> QED BY <1>1, <1>2, <1>3, NudgeTypeInit, NudgeTypeNext, PTL DEF Spec
=============================================================================
