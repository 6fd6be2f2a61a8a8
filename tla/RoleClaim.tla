----------------------------- MODULE RoleClaim ------------------------------
(***************************************************************************)
(* The device-number handshake of the bridge and its keep-alives, running  *)
(* beside the tempo-master role: every change of the number presented      *)
(* restarts the handshake, wherever in the loop it happens, and the loop   *)
(* steps it after the role's requests.  The intervals between packets and  *)
(* the period of the keep-alives are left out: a packet goes out in any    *)
(* round of the loop, or not in that round.                                *)
(*                                                                         *)
(* Variants named ..._Mut are wrong on purpose; MasterRole says why.       *)
(***************************************************************************)
EXTENDS MasterRole

CONSTANTS BootRepeats,   \* packets per stage at startup
          FastRepeats    \* packets per stage after a switch

ASSUME ClaimAssumption ==
    /\ BootRepeats \in Nat \ {0}
    /\ FastRepeats \in Nat \ {0}

VARIABLES
    claimStep,      \* claim_step_
    claimDone,      \* claim_done_
    claimRepeats,   \* claim_repeats_
    aired,          \* what the last round sent to the keep-alive port
    made            \* history: the handshake packets sent since the number changed

claimVars == <<claimStep, claimDone, claimRepeats, aired, made>>

Stages == 0..3      \* hello, claim 1, claim 2, claim 3

ClaimInit ==
    /\ Init
    /\ claimStep = 0 /\ claimDone = FALSE /\ claimRepeats = BootRepeats
    /\ aired = {} /\ made = <<>>

\* The handshake: the next step, whether it is over, the packets per stage.
Claim == [step |-> claimStep, done |-> claimDone, reps |-> claimRepeats]

\* Wrong on purpose: the keep-alives are not held back again.
Restart_MutDone == [step |-> 0, done |-> claimDone, reps |-> FastRepeats]

\* restart_device_claim(), called with another number; called with the number
\* already presented it returns early.
Restart == [step |-> 0, done |-> FALSE, reps |-> FastRepeats]

Restarted == IF activeNum' # activeNum THEN Restart ELSE Claim

\* step_device_claim(): the packet of step c.step.
ClaimPacket(c) == [type |-> "claim", stage |-> c.step \div c.reps, dev |-> activeNum']

StepDeviceClaim(c) ==
    [step |-> c.step + 1, done |-> c.step + 1 >= 4 * c.reps, reps |-> c.reps]

KeepAlive == [type |-> "keepalive", dev |-> activeNum']

Becomes(c) ==
    /\ claimStep' = c.step
    /\ claimDone' = c.done
    /\ claimRepeats' = c.reps

Before == IF activeNum' # activeNum THEN <<>> ELSE made

\* The loop's round reaches the handshake: one packet of it, when its interval
\* is over, then a keep-alive, when its period is over and the number claimed.
ClaimRound ==
    \E packet, alive \in BOOLEAN :
        LET c == Restarted
            d == IF packet THEN StepDeviceClaim(c) ELSE c
        IN  /\ packet => ~c.done
            /\ alive => d.done
            /\ Becomes(d)
            /\ made' = IF packet THEN Append(Before, ClaimPacket(c)) ELSE Before
            /\ aired' = (IF packet THEN {ClaimPacket(c)} ELSE {})
                        \cup (IF alive THEN {KeepAlive} ELSE {})

\* Any other step of the two threads: at most the handshake is restarted.
ClaimElsewhere ==
    /\ Becomes(Restarted)
    /\ made' = Before
    /\ aired' = {}

ClaimNext ==
    \/ (ApplyNothing \/ ApplyEnter \/ ApplyRelease) /\ ClaimRound
    \/ /\ \/ UiThread
          \/ \E p \in BeatIn : RecvBeat(p)
          \/ RecvBeatTimeout
          \/ \E p \in AckIn \cup StatusIn : RecvStatus(p)
          \/ RecvStatusTimeout
          \/ ReleaseTimeout \/ BroadcastStatus \/ BroadcastNothing
          \/ MoveFlags
          \/ DeadlinePasses
       /\ ClaimElsewhere

ClaimSpec == ClaimInit /\ [][ClaimNext]_<<vars, claimVars>>

-----------------------------------------------------------------------------
\* A keep-alive names a number only after the whole handshake was made for it:
\* since the box last took that number every stage went out, in order, the
\* packets that carry a number carrying this one ("the bridge performs the
\* documented sequence before any keep-alive goes out",
\* docs/architecture.md:220-221), whatever switches of the role cut in.
KeepAliveIsEarned ==
    \A m \in aired : m.type = "keepalive" =>
        /\ m.dev = activeNum
        /\ {made[k].stage : k \in DOMAIN made} = Stages
        /\ \A j, k \in DOMAIN made : j < k => made[j].stage <= made[k].stage
        /\ \A k \in DOMAIN made : made[k].dev = activeNum
=============================================================================
