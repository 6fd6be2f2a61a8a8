---------------------------- MODULE TempoMaster -----------------------------
(***************************************************************************)
(* What the box promises the link about the tempo-master role, without the *)
(* threads, datagrams and timers of lib/prolink/bridge.cpp.  MasterRole    *)
(* implements it.                                                          *)
(*                                                                         *)
(*    idle       follows the link                                          *)
(*    asking     wants the role, and does not assert the master flag       *)
(*    holding    asserts the master flag                                   *)
(*    yielding   asserts it, and names an heir                             *)
(***************************************************************************)
CONSTANTS Devs, NoDev

VARIABLES
    role,
    heir,      \* the device named as successor, NoDev if none
    known,     \* the box knows a deck, and its address, to hand the role to
    wanted,    \* the operator has the master source selected
    yielded    \* the step just made read a datagram that yields the role to the box

vars == <<role, heir, known, wanted, yielded>>

Init ==
    /\ role = "idle" /\ heir = NoDev
    /\ known = FALSE /\ wanted = FALSE /\ yielded = FALSE

\* The operator wants the role: from wherever it is, the box asks for it anew,
\* and any successor it had named is no longer one.
Claim ==
    /\ role' = "asking"
    /\ heir' = NoDev

\* The present master yields to a box that wants the role.  It may do so before the
\* box has begun to ask: a datagram can be older than the claim.
Obtain ==
    /\ role \in {"idle", "asking"}
    /\ wanted /\ yielded'
    /\ role' = "holding"
    /\ UNCHANGED <<heir, wanted>>

\* A deck asks for the role, or is appointed to it: only a holder can promise it.
Promise(d) ==
    /\ role \in {"holding", "yielding"}
    /\ role' = "yielding"
    /\ heir' = d
    /\ UNCHANGED wanted

\* The role ends, and with it the wish for it.  A holder that knows a successor names
\* it first.
GiveUp ==
    /\ role \in {"asking", "yielding"} \/ (role = "holding" /\ ~known)
    /\ role' = "idle"
    /\ heir' = NoDev
    /\ wanted' = FALSE

\* The role stays as it is.  A box that has it goes on wanting it.
Stay ==
    /\ UNCHANGED <<role, heir>>
    /\ role \in {"holding", "yielding"} => wanted'

\* What the box knows of the decks, what it reads, and, outside the steps above, what
\* the operator wants change at any time.
Next ==
    /\ \/ Claim \/ Obtain \/ GiveUp \/ Stay
       \/ \E d \in Devs : Promise(d)
    /\ {known', wanted', yielded'} \subseteq BOOLEAN

Spec == Init /\ [][Next]_vars
=============================================================================
