---------------------------- MODULE HandoffLink ----------------------------
(***************************************************************************)
(* The tempo-master role closed with the link it lives on: the decks, and  *)
(* the two socket queues the run loop drains one datagram at a time.       *)
(*                                                                         *)
(* The decks are external.  They follow the hand-off as the bridge expects *)
(* it (the comments of bridge.cpp): the deck holding the master flag       *)
(* answers a 0x26 with a 0x27 and names the asker in its Mh, and drops the *)
(* flag when the asker asserts; an appointed deck (0x2a), or one whose     *)
(* MASTER key is pressed, asks the box with 0x26 and asserts once the box  *)
(* answers or names it.  Decks settle the flag among themselves in one     *)
(* step.  A datagram from the box reaches the decks at once or is lost;    *)
(* one to the box waits in a queue, and the box's own broadcasts loop back *)
(* into it.                                                                *)
(***************************************************************************)
EXTENDS MasterRole

CONSTANTS Decks,      \* device numbers of the decks; deck d has address d
          BoxIp,      \* the source address of the box's own datagrams
          QueueMax,   \* datagrams a socket buffers (bound of the model)
          MaxAsks     \* 0x26 a deck sends before giving up (bound of the model)

ASSUME LinkAssumption ==
    /\ Decks \subseteq Devs \ {IdleNum, MasterNum}
    /\ Ips = Decks \cup {BoxIp}
    /\ BoxIp \notin Decks
    /\ 0..(SyncnMod - 1) \subseteq Syncns     \* the box may hear its own counter
    /\ QueueMax \in Nat /\ MaxAsks \in Nat

VARIABLES
    beatQ,       \* datagrams waiting on the beat socket
    statusQ,     \* datagrams waiting on the status socket
    deckMaster,  \* the deck that asserts the master flag, NoDev if none
    offered,     \* the device that deck names in its Mh, NoDev if none
    asker,       \* the deck asking the box for the role, NoDev if none
    asks,        \* the requests it may still send
    stale        \* history: the present claim began with a stale offer unread

deckVars == <<deckMaster, offered, asker, asks>>
linkVars == <<vars, beatQ, statusQ, deckVars, stale>>

LinkInit ==
    /\ Init
    /\ beatQ = <<>> /\ statusQ = <<>>
    /\ deckMaster \in Decks \cup {NoDev}
    /\ offered = NoDev /\ asker = NoDev /\ asks = 0
    /\ stale = FALSE

-----------------------------------------------------------------------------
\* What the decks do with the datagrams of the box that reach them.

DeckStatus(d) ==
    [type |-> "status", dev |-> d, ip |-> d, master |-> d = deckMaster,
     mh |-> IF d = deckMaster /\ offered # NoDev THEN offered ELSE NoHandoff,
     syncn |-> 0]

\* The flag is released to the box, or taken over from it.
DecksHear(got) ==
    LET released == \E m \in got : m.type = "status" /\ m.master /\ m.dev = offered
        asked == {m \in got : m.type = "handoffReq" /\ m.to = deckMaster}
        taken == asker # NoDev /\ \E m \in got :
                    \/ m.type = "ack" /\ m.to = asker
                    \/ m.type = "status" /\ m.master /\ m.mh = asker
        appointed == {m.to : m \in {x \in got : x.type = "appoint"}} \cap Decks
    IN  /\ deckMaster' = IF taken THEN asker ELSE IF released THEN NoDev ELSE deckMaster
        /\ offered' = IF released \/ taken THEN NoDev
                      ELSE IF asked # {} THEN (CHOOSE m \in asked : TRUE).dev
                      ELSE offered
        /\ IF appointed # {}
           THEN asker' \in appointed /\ asks' = MaxAsks
           ELSE /\ asker' = IF taken THEN NoDev ELSE asker
                /\ asks' = IF taken THEN 0 ELSE asks

\* What the bridge's step leaves on the status socket, after queue q: the 0x27
\* of a deck that heard a request, and the loopback of our own broadcast.
Answers(got) == [type : {"ack"}, ip : {m.to : m \in {x \in got :
                    x.type = "handoffReq" /\ x.to = deckMaster}}]
Loopback == {[type |-> "status", dev |-> m.dev, ip |-> BoxIp, master |-> m.master,
              mh |-> m.mh, syncn |-> m.syncn] : m \in {x \in sent' : x.type = "status"}}

Deliver(q) ==
    \E got \in SUBSET sent' :
        /\ DecksHear(got)
        /\ \/ statusQ' = q
           \/ /\ Len(q) < QueueMax
              /\ \E m \in Answers(got) \cup Loopback : statusQ' = Append(q, m)
           \/ /\ Len(q) + 1 < QueueMax
              /\ \E m \in Answers(got), n \in Loopback : statusQ' = q \o <<n, m>>

-----------------------------------------------------------------------------
\* Offers.

\* A datagram that gives the role to the box that asks for it.
IsOffer(m) == m.type = "ack" \/ m.mh \in {IdleNum, MasterNum}
OfferQueued == \E k \in DOMAIN statusQ : IsOffer(statusQ[k])

\* The box begins to claim the role when the operator selects it, and again when
\* the loop takes the request.  An offer read later is stale if it waits on the
\* socket now and no deck stands by it.
BeginsClaim ==
    \/ masterMode' /\ ~masterMode
    \/ request = "enter" /\ request' = "none"
NoteStale == stale' = IF BeginsClaim THEN OfferQueued /\ offered # MasterNum ELSE stale

-----------------------------------------------------------------------------
\* The run loop on the queues.

LinkRecvBeat ==
    /\ \/ /\ beatQ = <<>>
          /\ RecvBeatTimeout
          /\ UNCHANGED beatQ
       \/ /\ beatQ # <<>>
          /\ RecvBeat(Head(beatQ))
          /\ beatQ' = Tail(beatQ)
    /\ Deliver(statusQ)
    /\ UNCHANGED stale

LinkRecvStatus ==
    /\ \/ /\ statusQ = <<>>
          /\ RecvStatusTimeout
          /\ Deliver(statusQ)
       \/ /\ statusQ # <<>>
          /\ RecvStatus(Head(statusQ))
          /\ Deliver(Tail(statusQ))
    /\ UNCHANGED <<beatQ, stale>>

LinkLoop == Loop /\ Deliver(statusQ) /\ NoteStale /\ UNCHANGED beatQ

\* What happens beside the loop leaves the link alone.
Beside(A) == A /\ NoteStale /\ UNCHANGED <<beatQ, statusQ, deckVars>>

-----------------------------------------------------------------------------
\* The decks.

\* A deck broadcasts its status.
DeckSendsStatus(d) ==
    /\ Len(statusQ) < QueueMax
    /\ statusQ' = Append(statusQ, DeckStatus(d))
    /\ UNCHANGED <<vars, beatQ, deckVars, stale>>

\* The deck that wants the role asks the box for it.
DeckAsks ==
    /\ asker # NoDev /\ asks > 0
    /\ Len(beatQ) < QueueMax
    /\ beatQ' = Append(beatQ, [type |-> "yieldReq", dev |-> asker, ip |-> asker])
    /\ asks' = asks - 1
    /\ UNCHANGED <<vars, statusQ, deckMaster, offered, asker, stale>>

DeckGivesUp ==
    /\ asker # NoDev
    /\ asker' = NoDev /\ asks' = 0
    /\ UNCHANGED <<vars, beatQ, statusQ, deckMaster, offered, stale>>

\* The DJ presses MASTER on deck d: it asks the box if the box has the role,
\* and takes it from a deck, or from nobody, at once.  A hand is slower than the
\* loop: what the decks sent before the press has been read.
PressMaster(d) ==
    /\ d # deckMaster /\ asker = NoDev /\ offered = NoDev /\ statusQ = <<>>
    /\ IF deckMaster = NoDev /\ masterMode /\ confirmed
       THEN asker' = d /\ asks' = MaxAsks /\ UNCHANGED deckMaster
       ELSE deckMaster' = d /\ UNCHANGED <<asker, asks>>
    /\ UNCHANGED <<vars, beatQ, statusQ, offered, stale>>

\* The deck that offered the role sees the box give up asking.  That takes it
\* seconds: what it sent before has been read by then.
DeckWithdraws ==
    /\ offered # NoDev /\ ~masterMode /\ statusQ = <<>>
    /\ offered' = NoDev
    /\ UNCHANGED <<vars, beatQ, statusQ, deckMaster, asker, asks, stale>>

Link ==
    \/ \E d \in Decks : DeckSendsStatus(d) \/ PressMaster(d)
    \/ DeckAsks \/ DeckGivesUp \/ DeckWithdraws

LinkNext ==
    \/ LinkRecvBeat
    \/ LinkRecvStatus
    \/ LinkLoop
    \/ Beside(UiThread) \/ Beside(DeadlinePasses)
    \/ Link

LinkSpec == LinkInit /\ [][LinkNext]_linkVars

-----------------------------------------------------------------------------
LinkTypeOK ==
    /\ TypeOK
    /\ beatQ \in Seq(BeatIn) /\ Len(beatQ) <= QueueMax
    /\ statusQ \in Seq(AckIn \cup StatusIn) /\ Len(statusQ) <= QueueMax
    /\ deckMaster \in Decks \cup {NoDev}
    /\ offered \in Devs \cup {NoDev}
    /\ asker \in Decks \cup {NoDev}
    /\ asks \in 0..MaxAsks
    /\ stale \in BOOLEAN

\* The source flags and the histories of MasterRole decide no step, here or in it: in
\* the view of TLC, states that differ in nothing else are one.
LinkView == <<roleVars, request, trackVars, access, uiVars, pc, sent, beatQ, statusQ,
              deckVars, stale>>

\* The box and a deck hold the master flag together only while the deck is
\* handing it to the box, or while the box runs down a release: two tempo
\* masters are never left standing.  The exception is a claim that begins while
\* an offer that no deck stands by any more waits to be read (a 0x27 or an Mh
\* carries nothing that says which claim it answers).
TwoMastersAreTemporary ==
    confirmed /\ deckMaster # NoDev =>
        offered = MasterNum \/ deadline # "off" \/ stale

\* The scheduling of the bridge and UI threads, and the passing of time.  Nothing
\* is assumed of the decks, and any datagram of the box may be lost.
LinkFairness ==
    /\ WF_linkVars(LinkRecvBeat)
    /\ WF_linkVars(LinkRecvStatus)
    /\ WF_linkVars(LinkLoop)
    /\ WF_linkVars(Beside(UiCall))
    /\ WF_linkVars(Beside(DeadlinePasses))

FairLinkSpec == LinkSpec /\ LinkFairness

\* Eventually nobody picks another source or presses another MASTER key.
HandsOff == <>[][~(ui = <<>> /\ ui' # <<>>) /\ asks' <= asks]_linkVars

\* A role the box has promised away is given up, whether or not the deck it
\* went to ever claims it: the 3 s deadline is the fallback.
YieldEnds == HandsOff => (yieldingTo # NoDev ~> yieldingTo = NoDev)

-----------------------------------------------------------------------------
\* Properties the repository states and the code does not keep.

\* The player slot is occupied only in master mode, and handed back on every
\* exit path (docs/architecture.md, "Front-panel Master mode").
SlotOnlyInMasterMode == activeNum = MasterNum => masterMode

\* While it asserts the master flag the box is the tempo authority, and follows
\* no deck (bridge.cpp, apply_tempo_ and handle_beat_packet).
AuthorityIgnoresDecks ==
    \A m \in sent : m.type = "status" /\ m.master => ignore

\* The box never tracks itself as master through its own broadcasts looped back
\* to its sockets (bridge.cpp, handle_status_packet).
NeverTracksItself == currentMaster \notin {IdleNum, MasterNum}

\* The deck told to become master is the one named in our Mh, the one whose claim
\* ends the release (bridge.cpp, apply_master_mode_request).
AppointReachesTarget ==
    \A m \in sent : m.type = "appoint" => m.to = yieldingTo

\* Until the master has answered its request the box "never simply declares itself
\* master" (docs/architecture.md:440-441): it never does beside a deck that keeps
\* the flag.
OffersAnswerThisClaim ==
    confirmed /\ deckMaster # NoDev => offered = MasterNum \/ deadline # "off"

\* Once it holds the role the box asserts the master flag until it leaves the role:
\* the link is never left without a tempo master (docs/ui.md, Source-select).
FlagKeptUntilLeaving == [][confirmed /\ ~confirmed' => ~masterMode']_linkVars
=============================================================================
