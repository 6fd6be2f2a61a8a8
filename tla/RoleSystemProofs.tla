-------------------------- MODULE RoleSystemProofs --------------------------
(***************************************************************************)
(* Theorems about the two systems the tempo-master role lives in: with its *)
(* handshake (RoleClaim), for any devices and any number of packets per    *)
(* stage, and with the decks and the sockets (HandoffLink), for any decks, *)
(* queues of any length and any losses.                                    *)
(***************************************************************************)
EXTENDS RoleClaim, HandoffLink, MasterRoleProofs

\* The handshake adds no behaviour to the role: what MasterRoleProofs shows of Spec
\* holds here too.
THEOREM ClaimImplementsRole == ClaimSpec => Spec
<1>1. ClaimInit => Init
    BY DEF ClaimInit
<1>2. [ClaimNext]_<<vars, claimVars>> => [Next]_vars
    BY DEF ClaimNext, Next, Loop, claimVars
<1> QED BY <1>1, <1>2, PTL DEF ClaimSpec, Spec

-----------------------------------------------------------------------------
\* Where a packet lies in the handshake.
LEMMA StageOf ==
    ASSUME NEW r \in Nat \ {0}, NEW n \in Nat, NEW q \in Nat, q * r <= n, n < q * r + r
    PROVE  n \div r = q
BY SMT

\* The stages follow one another.
LEMMA StagesInOrder ==
    ASSUME NEW r \in Nat \ {0}, NEW m \in Nat, NEW n \in Nat, m <= n
    PROVE  m \div r <= n \div r
BY SMT

-----------------------------------------------------------------------------
\* A handshake that is under way, or over, for number n, and the packets it made.
Handshake(c, m, n) ==
    /\ c.reps \in Nat \ {0}
    /\ c.step \in 0..(4 * c.reps)
    /\ c.done = (c.step = 4 * c.reps)
    /\ m = [k \in 1..c.step |->
               [type |-> "claim", stage |-> (k - 1) \div c.reps, dev |-> n]]

\* The packets made are those of the handshake so far, and a keep-alive on the
\* wire says that the handshake is over.
ClaimInv ==
    /\ Handshake(Claim, made, activeNum)
    /\ \A m \in aired : m.type = "keepalive" => m.dev = activeNum /\ claimDone

\* A handshake of which nothing has been made.
LEMMA FreshHandshake ==
    ASSUME NEW c, NEW n, c.step = 0, c.done = FALSE, c.reps \in Nat \ {0}
    PROVE  Handshake(c, <<>>, n)
<1>1. c.step \in 0..(4 * c.reps)
    OBVIOUS
<1>2. FALSE = (c.step = 4 * c.reps)
    OBVIOUS
<1>3. <<>> = [k \in 1..c.step |->
                 [type |-> "claim", stage |-> (k - 1) \div c.reps, dev |-> n]]
    OBVIOUS
<1> QED BY <1>1, <1>2, <1>3 DEF Handshake

\* Restarting leaves a handshake with nothing made.
LEMMA RestartBegins ==
    ASSUME ClaimInv
    PROVE  Handshake(Restarted, Before, activeNum')
<1> USE ClaimAssumption
<1>1. CASE activeNum' = activeNum
    BY <1>1 DEF Restarted, Before, ClaimInv
<1>2. CASE activeNum' # activeNum
  <2>1. Restarted.step = 0 /\ Restarted.done = FALSE /\ Restarted.reps = FastRepeats
      BY <1>2 DEF Restarted, Restart
  <2>2. Before = <<>>
      BY <1>2 DEF Before
  <2> QED BY <2>1, <2>2, FreshHandshake
<1> QED BY <1>1, <1>2

\* A packet carries the handshake one step on.
LEMMA PacketAdvances ==
    ASSUME NEW c \in [step : Int, done : BOOLEAN, reps : Int], NEW m,
           Handshake(c, m, activeNum'), ~c.done
    PROVE  Handshake(StepDeviceClaim(c), Append(m, ClaimPacket(c)), activeNum')
<1> DEFINE e == StepDeviceClaim(c)
           f(n) == [k \in 1..n |-> [type  |-> "claim", stage |-> (k - 1) \div c.reps,
                                    dev   |-> activeNum']]
<1>1. e.step = c.step + 1 /\ e.reps = c.reps /\ e.done = (c.step + 1 >= 4 * c.reps)
    BY DEF StepDeviceClaim
<1>2. c.reps \in Nat \ {0} /\ c.step \in Nat /\ c.step < 4 * c.reps
    BY DEF Handshake
<1>3. Append(m, ClaimPacket(c)) = f(c.step + 1)
  <2>1. m = f(c.step)
      BY DEF Handshake
  <2>2. Append(f(c.step), ClaimPacket(c)) = f(c.step + 1)
    <3> DEFINE S == [type : {"claim"}, stage : Int, dev : {activeNum'}]
    <3>1. f(c.step) \in Seq(S) /\ Len(f(c.step)) = c.step
      <4>1. \A k \in 1..c.step : (k - 1) \div c.reps \in Int
          BY <1>2
      <4>2. f(c.step) \in [1..c.step -> S]
          BY <4>1
      <4> HIDE DEF f, S
      <4> QED BY <1>2, <4>2
    <3>2. ClaimPacket(c) \in S /\ ClaimPacket(c) = f(c.step + 1)[c.step + 1]
        BY <1>2 DEF ClaimPacket
    <3> HIDE DEF f, S
    <3>3. /\ Append(f(c.step), ClaimPacket(c)) \in Seq(S)
          /\ Len(Append(f(c.step), ClaimPacket(c))) = c.step + 1
          /\ \A k \in 1..c.step : Append(f(c.step), ClaimPacket(c))[k] = f(c.step)[k]
          /\ Append(f(c.step), ClaimPacket(c))[c.step + 1] = ClaimPacket(c)
        BY <3>1, <3>2, <1>2, AppendProperties
    <3>4. \A k \in 1..c.step : f(c.step)[k] = f(c.step + 1)[k]
        BY <1>2 DEF f
    <3>5. f(c.step + 1) = [k \in 1..(c.step + 1) |-> f(c.step + 1)[k]]
        BY DEF f
    <3> QED BY <1>2, <3>2, <3>3, <3>4, <3>5
  <2> QED BY <2>1, <2>2
<1>4. e.done = (e.step = 4 * e.reps)
  <2>1. (c.step + 1 >= 4 * c.reps) <=> (e.step = 4 * e.reps)
      BY <1>1, <1>2
  <2> QED BY <1>1, <2>1
<1>5. e.step \in 0..(4 * e.reps)
    BY <1>1, <1>2
<1> QED BY <1>1, <1>2, <1>3, <1>4, <1>5 DEF Handshake

\* Every step keeps the handshake whole.
LEMMA HandshakeKept == ClaimInv /\ [ClaimNext]_<<vars, claimVars>> => ClaimInv'
<1> SUFFICES ASSUME ClaimInv, [ClaimNext]_<<vars, claimVars>>
             PROVE  ClaimInv'
    OBVIOUS
<1>1. Handshake(Restarted, Before, activeNum')
    BY RestartBegins
<1>2. CASE ClaimRound
  <2>1. PICK packet \in BOOLEAN, alive \in BOOLEAN :
           LET c == Restarted
               d == IF packet THEN StepDeviceClaim(c) ELSE c
           IN  /\ packet => ~c.done
               /\ alive => d.done
               /\ Becomes(d)
               /\ made' = IF packet THEN Append(Before, ClaimPacket(c)) ELSE Before
               /\ aired' = (IF packet THEN {ClaimPacket(c)} ELSE {})
                           \cup (IF alive THEN {KeepAlive} ELSE {})
      BY <1>2 DEF ClaimRound
  <2> DEFINE c == Restarted
             d == IF packet THEN StepDeviceClaim(c) ELSE c
  <2>2. c \in [step : Int, done : BOOLEAN, reps : Int]
      BY ClaimAssumption DEF Restarted, Restart, Claim, ClaimInv, Handshake
  <2>3. Handshake(d, made', activeNum')
      BY <1>1, <2>1, <2>2, PacketAdvances
  <2>4. claimStep' = d.step /\ claimDone' = d.done /\ claimRepeats' = d.reps
      BY <2>1 DEF Becomes
  <2>5. Handshake(Claim', made', activeNum')
      BY <2>3, <2>4 DEF Handshake, Claim
  <2>6. \A m \in aired' : m.type = "keepalive" => m.dev = activeNum' /\ claimDone'
      BY <2>1, <2>4 DEF ClaimPacket, KeepAlive
  <2> QED BY <2>5, <2>6 DEF ClaimInv
<1>3. CASE ClaimElsewhere
  <2>1. Handshake(Claim', made', activeNum')
      BY <1>1, <1>3 DEF ClaimElsewhere, Becomes, Handshake, Claim
  <2> QED BY <1>3, <2>1 DEF ClaimElsewhere, ClaimInv
<1>4. CASE UNCHANGED <<vars, claimVars>>
    BY <1>4 DEF vars, roleVars, claimVars, ClaimInv, Claim, Handshake
<1> QED BY <1>2, <1>3, <1>4 DEF ClaimNext

\* A handshake that is over made every stage, in order, for its number.
LEMMA WholeHandshake ==
    ASSUME NEW c, NEW m, NEW n, Handshake(c, m, n), c.done
    PROVE  /\ {m[k].stage : k \in DOMAIN m} = Stages
           /\ \A j, k \in DOMAIN m : j < k => m[j].stage <= m[k].stage
           /\ \A k \in DOMAIN m : m[k].dev = n
<1>1. c.reps \in Nat \ {0} /\ c.step = 4 * c.reps
    BY DEF Handshake
<1>2. DOMAIN m = 1..(4 * c.reps)
    BY <1>1 DEF Handshake
<1>3. \A k \in 1..(4 * c.reps) : m[k].stage = (k - 1) \div c.reps /\ m[k].dev = n
    BY <1>1 DEF Handshake
<1>4. \A k \in 1..(4 * c.reps) : (k - 1) \div c.reps \in Stages
  <2> TAKE k \in 1..(4 * c.reps)
  <2>1. CASE k - 1 < c.reps
      BY <1>1, <2>1, StageOf, 0 * c.reps = 0 DEF Stages
  <2>2. CASE c.reps <= k - 1 /\ k - 1 < 2 * c.reps
      BY <1>1, <2>2, StageOf, 1 * c.reps = c.reps DEF Stages
  <2>3. CASE 2 * c.reps <= k - 1 /\ k - 1 < 3 * c.reps
      BY <1>1, <2>3, StageOf DEF Stages
  <2>4. CASE 3 * c.reps <= k - 1
      BY <1>1, <2>4, StageOf DEF Stages
  <2> QED BY <1>1, <2>1, <2>2, <2>3, <2>4
<1>5. \A s \in Stages : \E k \in 1..(4 * c.reps) : (k - 1) \div c.reps = s
  <2> TAKE s \in Stages
  <2> DEFINE p == s * c.reps
  <2>1. p \in Nat /\ p + c.reps <= 4 * c.reps
    <3>1. s = 0 \/ s = 1 \/ s = 2 \/ s = 3
        BY DEF Stages
    <3> QED BY <3>1, <1>1
  <2>2. p \div c.reps = s
    <3>1. s \in Nat /\ s * c.reps <= p /\ p < s * c.reps + c.reps
        BY <2>1, <1>1 DEF Stages
    <3> HIDE DEF p
    <3> QED BY <3>1, <2>1, <1>1, StageOf
  <2> HIDE DEF p
  <2>3. p + 1 \in 1..(4 * c.reps) /\ (p + 1) - 1 = p
      BY <2>1, <1>1
  <2> QED BY <2>2, <2>3
<1>6. \A j, k \in 1..(4 * c.reps) : j < k => (j - 1) \div c.reps <= (k - 1) \div c.reps
  <2> TAKE j, k \in 1..(4 * c.reps)
  <2> HAVE j < k
  <2>1. j - 1 \in Nat /\ k - 1 \in Nat /\ j - 1 <= k - 1
      BY <1>1
  <2> QED BY <1>1, <2>1, StagesInOrder
<1>7. {m[k].stage : k \in DOMAIN m} = Stages
    BY <1>2, <1>3, <1>4, <1>5
<1> QED BY <1>2, <1>3, <1>6, <1>7

\* No keep-alive names a number before the whole handshake was made for it, for
\* any number of packets per stage.
THEOREM KeepAlivesAreEarned == ClaimSpec => []KeepAliveIsEarned
<1>1. ClaimInit => ClaimInv
  <2> SUFFICES ASSUME ClaimInit PROVE ClaimInv
      OBVIOUS
  <2>1. Claim.step = 0 /\ Claim.done = FALSE /\ Claim.reps \in Nat \ {0} /\ made = <<>>
      BY ClaimAssumption DEF ClaimInit, Claim
  <2> QED BY <2>1, FreshHandshake DEF ClaimInit, ClaimInv
<1>2. ClaimInv => KeepAliveIsEarned
  <2> SUFFICES ASSUME ClaimInv, NEW m \in aired, m.type = "keepalive"
               PROVE  /\ m.dev = activeNum
                      /\ {made[k].stage : k \in DOMAIN made} = Stages
                      /\ \A j, k \in DOMAIN made : j < k => made[j].stage <= made[k].stage
                      /\ \A k \in DOMAIN made : made[k].dev = activeNum
      BY DEF KeepAliveIsEarned
  <2>1. Handshake(Claim, made, activeNum) /\ Claim.done /\ m.dev = activeNum
      BY DEF ClaimInv, Claim
  <2> QED BY <2>1, WholeHandshake
<1> QED BY <1>1, <1>2, HandshakeKept, PTL DEF ClaimSpec

-----------------------------------------------------------------------------
\* What a datagram of the box holds, by its type.
LEMMA SentFields ==
    ASSUME NEW m \in Out
    PROVE  /\ m.type \in {"appoint", "ack", "handoffReq", "status"}
           /\ m.type = "handoffReq" => m.dev \in Devs /\ m.to \in Ips
           /\ m.type = "status" => /\ m.dev \in Devs /\ m.master \in BOOLEAN
                                   /\ m.mh \in Devs \cup {NoHandoff}
                                   /\ m.syncn \in 0..(SyncnMod - 1)
BY DEF Out

\* A deck's status is a datagram the bridge parses.
LEMMA DeckStatusType ==
    ASSUME LinkTypeOK, NEW d \in Decks
    PROVE  DeckStatus(d) \in StatusIn
<1>1. d \in Devs /\ d \in Ips /\ 0 \in Syncns
    BY LinkAssumption, ConstantFacts
<1>2. (IF d = deckMaster /\ offered # NoDev THEN offered ELSE NoHandoff)
        \in Devs \cup {NoHandoff}
    BY DEF LinkTypeOK
<1>3. (d = deckMaster) \in BOOLEAN
    OBVIOUS
<1> QED BY <1>1, <1>2, <1>3 DEF DeckStatus, StatusIn

\* So are the answers of a deck, and the box's own broadcasts when they loop back.
LEMMA EchoTypes ==
    ASSUME sent' \in SUBSET Out, NEW got \in SUBSET sent'
    PROVE  Answers(got) \subseteq AckIn /\ Loopback \subseteq StatusIn
<1>1. Answers(got) \subseteq AckIn
  <2>1. {m.to : m \in {x \in got : x.type = "handoffReq" /\ x.to = deckMaster}} \subseteq Ips
      BY SentFields
  <2> QED BY <2>1 DEF Answers, AckIn
<1>2. ASSUME NEW m \in {x \in sent' : x.type = "status"}
      PROVE  [type |-> "status", dev |-> m.dev, ip |-> BoxIp, master |-> m.master,
              mh |-> m.mh, syncn |-> m.syncn] \in StatusIn
  <2>1. /\ m.dev \in Devs /\ m.master \in BOOLEAN /\ m.mh \in Devs \cup {NoHandoff}
        /\ m.syncn \in Syncns
      BY <1>2, SentFields, LinkAssumption
  <2>2. BoxIp \in Ips
      BY LinkAssumption
  <2> QED BY <2>1, <2>2 DEF StatusIn
<1>3. Loopback \subseteq StatusIn
    BY <1>2 DEF Loopback
<1> QED BY <1>1, <1>3

\* The parts of the link that a delivery changes.
LinkParts ==
    /\ statusQ \in Seq(AckIn \cup StatusIn) /\ Len(statusQ) <= QueueMax
    /\ deckMaster \in Decks \cup {NoDev}
    /\ offered \in Devs \cup {NoDev}
    /\ asker \in Decks \cup {NoDev}
    /\ asks \in 0..MaxAsks

\* Delivering what the box sent keeps the types of these parts.
LEMMA DeliverTypes ==
    ASSUME LinkTypeOK, sent' \in SUBSET Out,
           NEW q \in Seq(AckIn \cup StatusIn), Len(q) <= QueueMax, Deliver(q)
    PROVE  LinkParts'
<1>1. PICK got \in SUBSET sent' :
          /\ DecksHear(got)
          /\ \/ statusQ' = q
             \/ /\ Len(q) < QueueMax
                /\ \E m \in Answers(got) \cup Loopback : statusQ' = Append(q, m)
             \/ /\ Len(q) + 1 < QueueMax
                /\ \E m \in Answers(got), n \in Loopback : statusQ' = q \o <<n, m>>
    BY DEF Deliver
<1>2. Answers(got) \subseteq AckIn /\ Loopback \subseteq StatusIn
    BY EchoTypes
<1>3. QueueMax \in Nat /\ MaxAsks \in Nat
    BY LinkAssumption
<1>4. statusQ' \in Seq(AckIn \cup StatusIn) /\ Len(statusQ') <= QueueMax
  <2>1. CASE statusQ' = q
      BY <2>1
  <2>2. CASE Len(q) < QueueMax /\ \E m \in Answers(got) \cup Loopback : statusQ' = Append(q, m)
      BY <2>2, <1>2, <1>3
  <2>3. CASE Len(q) + 1 < QueueMax
             /\ \E m \in Answers(got), n \in Loopback : statusQ' = q \o <<n, m>>
    <3>1. PICK m \in AckIn, n \in StatusIn : statusQ' = q \o <<n, m>>
        BY <2>3, <1>2
    <3>2. <<n, m>> \in Seq(AckIn \cup StatusIn) /\ Len(<<n, m>>) = 2
        OBVIOUS
    <3> QED BY <2>3, <3>1, <3>2, <1>3, ConcatProperties
  <2> QED BY <1>1, <2>1, <2>2, <2>3
<1>5. deckMaster' \in Decks \cup {NoDev}
    BY <1>1 DEF DecksHear, LinkTypeOK
<1>6. offered' \in Devs \cup {NoDev}
  <2> DEFINE asked == {m \in got : m.type = "handoffReq" /\ m.to = deckMaster}
  <2>1. asked # {} => (CHOOSE m \in asked : TRUE) \in asked
      OBVIOUS
  <2>2. asked # {} => (CHOOSE m \in asked : TRUE).dev \in Devs
      BY <2>1, SentFields
  <2>3. \/ offered' \in {NoDev, offered}
        \/ asked # {} /\ offered' = (CHOOSE m \in asked : TRUE).dev
      BY <1>1 DEF DecksHear
  <2> QED BY <2>2, <2>3 DEF LinkTypeOK
<1>7. asker' \in Decks \cup {NoDev} /\ asks' \in 0..MaxAsks
    BY <1>1, <1>3 DEF DecksHear, LinkTypeOK
<1> QED BY <1>4, <1>5, <1>6, <1>7 DEF LinkParts

-----------------------------------------------------------------------------
\* Every step on the link is one of the role, or leaves it alone.
LEMMA LinkStepsRole == LinkTypeOK /\ [LinkNext]_linkVars => [Next]_vars
<1> SUFFICES ASSUME LinkTypeOK, [LinkNext]_linkVars PROVE [Next]_vars
    OBVIOUS
<1>1. CASE LinkRecvBeat
  <2>1. CASE beatQ # <<>> /\ RecvBeat(Head(beatQ))
    <3>1. Head(beatQ) \in BeatIn
        BY <2>1, HeadTailProperties DEF LinkTypeOK
    <3> QED BY <2>1, <3>1 DEF Next
  <2> QED BY <1>1, <2>1 DEF LinkRecvBeat, Next
<1>2. CASE LinkRecvStatus
  <2>1. CASE statusQ # <<>> /\ RecvStatus(Head(statusQ))
    <3>1. Head(statusQ) \in AckIn \cup StatusIn
        BY <2>1, HeadTailProperties DEF LinkTypeOK
    <3> QED BY <2>1, <3>1 DEF Next
  <2> QED BY <1>2, <2>1 DEF LinkRecvStatus, Next
<1>3. CASE LinkLoop
    BY <1>3 DEF LinkLoop, Next
<1>4. CASE Beside(UiThread) \/ Beside(DeadlinePasses)
    BY <1>4 DEF Beside, Next
<1>5. CASE Link
    BY <1>5 DEF Link, DeckSendsStatus, PressMaster, DeckAsks, DeckGivesUp, DeckWithdraws
<1>6. CASE UNCHANGED linkVars
    BY <1>6 DEF linkVars
<1> QED BY <1>1, <1>2, <1>3, <1>4, <1>5, <1>6 DEF LinkNext

\* Every step keeps the types: the lengths of the queues, and what is in them.
LEMMA LinkTypeNext == LinkTypeOK /\ [LinkNext]_linkVars => LinkTypeOK'
<1> SUFFICES ASSUME LinkTypeOK, [LinkNext]_linkVars PROVE LinkTypeOK'
    OBVIOUS
<1>1. TypeOK' /\ sent' \in SUBSET Out
  <2>1. TypeOK'
      BY LinkStepsRole, TypeNext DEF LinkTypeOK
  <2> QED BY <2>1 DEF TypeOK
<1>2. LinkTypeOK' <=> LinkParts' /\ beatQ' \in Seq(BeatIn) /\ Len(beatQ') <= QueueMax
                                 /\ stale' \in BOOLEAN
    BY <1>1 DEF LinkTypeOK, LinkParts
<1>3. QueueMax \in Nat /\ MaxAsks \in Nat
    BY LinkAssumption
<1>4. LinkParts /\ stale \in BOOLEAN /\ beatQ \in Seq(BeatIn) /\ Len(beatQ) <= QueueMax
      /\ statusQ \in Seq(AckIn \cup StatusIn) /\ Len(statusQ) <= QueueMax
    BY DEF LinkTypeOK, LinkParts
<1>5. CASE LinkRecvBeat
  <2>1. LinkParts'
      BY <1>1, <1>4, <1>5, DeliverTypes DEF LinkRecvBeat
  <2>2. beatQ' \in Seq(BeatIn) /\ Len(beatQ') <= QueueMax
      BY <1>3, <1>4, <1>5, HeadTailProperties DEF LinkRecvBeat
  <2> QED BY <1>2, <1>4, <1>5, <2>1, <2>2 DEF LinkRecvBeat
<1>6. CASE LinkRecvStatus
  <2>1. statusQ # <<>> => Tail(statusQ) \in Seq(AckIn \cup StatusIn)
                          /\ Len(Tail(statusQ)) <= QueueMax
      BY <1>3, <1>4, HeadTailProperties
  <2>2. LinkParts'
      BY <1>1, <1>4, <1>6, <2>1, DeliverTypes DEF LinkRecvStatus
  <2> QED BY <1>2, <1>4, <1>6, <2>2 DEF LinkRecvStatus
<1>7. CASE LinkLoop
  <2>1. LinkParts'
      BY <1>1, <1>4, <1>7, DeliverTypes DEF LinkLoop
  <2>2. stale' \in BOOLEAN
      BY <1>4, <1>7 DEF LinkLoop, NoteStale, OfferQueued
  <2> QED BY <1>2, <1>4, <1>7, <2>1, <2>2 DEF LinkLoop
<1>8. CASE Beside(UiThread) \/ Beside(DeadlinePasses)
  <2>1. UNCHANGED <<beatQ, statusQ, deckVars>> /\ NoteStale
      BY <1>8 DEF Beside
  <2>2. stale' \in BOOLEAN
      BY <1>4, <2>1 DEF NoteStale, OfferQueued
  <2>3. LinkParts'
      BY <1>4, <2>1 DEF LinkParts, deckVars
  <2> QED BY <1>2, <1>4, <2>1, <2>2, <2>3
<1>9. CASE Link
  <2>1. ASSUME NEW d \in Decks, DeckSendsStatus(d) PROVE LinkTypeOK'
    <3>1. DeckStatus(d) \in AckIn \cup StatusIn
        BY DeckStatusType
    <3>2. statusQ' \in Seq(AckIn \cup StatusIn) /\ Len(statusQ') <= QueueMax
        BY <1>3, <1>4, <2>1, <3>1 DEF DeckSendsStatus
    <3> QED BY <1>2, <1>4, <2>1, <3>2 DEF DeckSendsStatus, LinkParts, deckVars
  <2>2. ASSUME NEW d \in Decks, PressMaster(d) PROVE LinkTypeOK'
      BY <1>2, <1>3, <1>4, <2>2 DEF PressMaster, LinkParts
  <2>3. CASE DeckAsks
    <3>1. [type |-> "yieldReq", dev |-> asker, ip |-> asker] \in BeatIn
        BY <1>4, <2>3, LinkAssumption DEF DeckAsks, LinkParts, BeatIn
    <3>2. beatQ' \in Seq(BeatIn) /\ Len(beatQ') <= QueueMax
        BY <1>3, <1>4, <2>3, <3>1 DEF DeckAsks
    <3>3. asks' \in 0..MaxAsks
        BY <1>3, <1>4, <2>3 DEF DeckAsks, LinkParts
    <3> QED BY <1>2, <1>4, <2>3, <3>2, <3>3 DEF DeckAsks, LinkParts
  <2>4. CASE DeckGivesUp \/ DeckWithdraws
      BY <1>2, <1>3, <1>4, <2>4 DEF DeckGivesUp, DeckWithdraws, LinkParts
  <2> QED BY <1>9, <2>1, <2>2, <2>3, <2>4 DEF Link
<1>10. CASE UNCHANGED linkVars
    BY <1>2, <1>4, <1>10 DEF linkVars, deckVars, LinkParts
<1> QED BY <1>5, <1>6, <1>7, <1>8, <1>9, <1>10 DEF LinkNext

\* They hold at the start.
LEMMA LinkTypeInit == LinkInit => LinkTypeOK
<1> SUFFICES ASSUME LinkInit PROVE LinkTypeOK
    OBVIOUS
<1>1. TypeOK
    BY TypeInit DEF LinkInit
<1>2. <<>> \in Seq(BeatIn) /\ <<>> \in Seq(AckIn \cup StatusIn) /\ Len(<<>>) = 0
    OBVIOUS
<1>3. 0 \in 0..MaxAsks /\ 0 <= QueueMax
    BY LinkAssumption
<1>4. stale \in BOOLEAN /\ deckMaster \in Decks \cup {NoDev}
    BY DEF LinkInit
<1> QED BY <1>1, <1>2, <1>3, <1>4 DEF LinkInit, LinkTypeOK

\* Whatever the decks do and the link loses, the box is only given datagrams it
\* parses, its own included, and the queues stay within their bound.
THEOREM LinkTypes == LinkSpec => []LinkTypeOK
BY LinkTypeInit, LinkTypeNext, PTL DEF LinkSpec

\* The closed system adds no behaviour to the role: what MasterRoleProofs shows of
\* Spec, its contract included, holds of the box among the decks.
THEOREM LinkImplementsRole == LinkSpec => Spec
<1>1. LinkInit => Init
    BY DEF LinkInit
<1> QED BY <1>1, LinkTypes, LinkStepsRole, PTL DEF LinkSpec, Spec

-----------------------------------------------------------------------------
\* Why two masters are temporary: a claim not yet granted reads no offer but the one
\* a deck stands by, unless it began with another one unread; and a deck
\* offers the role only to the number that may hold it.
OffersStand ==
    masterMode /\ ~confirmed /\ OfferQueued => offered = MasterNum \/ stale

OfferInv ==
    /\ offered \in {NoDev, MasterNum}
    /\ OffersStand
    /\ TwoMastersAreTemporary

\* Nothing sent, nothing heard.
LEMMA QuietStep ==
    ASSUME NEW q, sent' = {}, Deliver(q)
    PROVE  statusQ' = q /\ UNCHANGED deckVars
<1>1. PICK got \in SUBSET sent' :
          /\ DecksHear(got)
          /\ \/ statusQ' = q
             \/ \E m \in Answers(got) \cup Loopback : statusQ' = Append(q, m)
             \/ \E m \in Answers(got), n \in Loopback : statusQ' = q \o <<n, m>>
    BY DEF Deliver
<1>2. got = {}
    BY <1>1
<1>3. Answers(got) = {} /\ Loopback = {}
    BY <1>2 DEF Answers, Loopback
<1>4. statusQ' = q
    BY <1>1, <1>3
<1>5. UNCHANGED deckVars
    BY <1>1, <1>2 DEF DecksHear, deckVars
<1> QED BY <1>4, <1>5

\* An offer left on the socket once the first datagram is read was there before.
LEMMA OfferInTail ==
    ASSUME statusQ \in Seq(AckIn \cup StatusIn), statusQ # <<>>,
           statusQ' = Tail(statusQ), OfferQueued'
    PROVE  OfferQueued
<1>1. PICK k \in DOMAIN Tail(statusQ) : IsOffer(Tail(statusQ)[k])
    BY DEF OfferQueued
<1>2. k + 1 \in DOMAIN statusQ /\ statusQ[k + 1] = Tail(statusQ)[k]
    BY <1>1
<1> QED BY <1>1, <1>2 DEF OfferQueued

\* The box is granted the role only by an offer at the head of its socket.
LEMMA GrantedByOffer ==
    ASSUME TypeOK, RoleInv, NEW p \in AckIn \cup StatusIn, RecvStatus(p),
           ~confirmed, confirmed'
    PROVE  masterMode /\ masterMode' /\ IsOffer(p)
<1>1. CASE HandleAck(p)
    BY <1>1 DEF HandleAck, IsOffer
<1>2. CASE HandleStatus(p)
  <2>1. ~LeaveMasterMode
      BY DEF LeaveMasterMode
  <2>2. GrantsRole(p) /\ masterMode' = masterMode
      BY <1>2, <2>1 DEF HandleStatus
  <2>3. activeNum \in {IdleNum, MasterNum}
      BY DEF RoleInv, SlotFollowsRole
  <2> QED BY <2>2, <2>3 DEF GrantsRole, IsOffer
<1> QED BY <1>1, <1>2 DEF RecvStatus

\* A deck makes an offer only when it is asked.
LEMMA OfferNotMade ==
    ASSUME NEW q, Deliver(q), OfferInv, \A m \in sent' : m.type # "handoffReq"
    PROVE  offered' \in {NoDev, MasterNum}
<1>1. PICK got \in SUBSET sent' : DecksHear(got)
    BY DEF Deliver
<1>2. {m \in got : m.type = "handoffReq" /\ m.to = deckMaster} = {}
    BY <1>1
<1> QED BY <1>1, <1>2 DEF DecksHear, OfferInv

\* Outside the role the invariant asks for nothing more.
LEMMA OutsideRole ==
    ASSUME ~confirmed', ~masterMode', offered' \in {NoDev, MasterNum}
    PROVE  OfferInv'
BY DEF OfferInv, OffersStand, TwoMastersAreTemporary

\* A step that leaves alone what the invariant relates keeps it.
LEMMA QuietKeeps ==
    ASSUME OfferInv,
           UNCHANGED <<masterMode, confirmed, deadline, stale, statusQ, deckMaster, offered>>
    PROVE  OfferInv'
BY DEF OfferInv, OffersStand, TwoMastersAreTemporary, OfferQueued

\* The box's broadcast: while it asks, the deck that answers stands by its offer;
\* while it holds the role, a deck takes the flag over only if it was named.
LEMMA BroadcastKeeps ==
    ASSUME LinkTypeOK, RoleInv, OfferInv, BroadcastStatus, Deliver(statusQ), UNCHANGED stale
    PROVE  OfferInv'
<1>1. PICK got \in SUBSET sent' :
          /\ DecksHear(got)
          /\ \/ statusQ' = statusQ
             \/ \E m \in Answers(got) \cup Loopback : statusQ' = Append(statusQ, m)
             \/ \E m \in Answers(got), n \in Loopback : statusQ' = statusQ \o <<n, m>>
    BY DEF Deliver
<1>2. UNCHANGED <<masterMode, confirmed, deadline, yieldingTo, activeNum>>
    BY DEF BroadcastStatus
<1>3. confirmed \in BOOLEAN
    BY DEF LinkTypeOK, TypeOK
<1>4. \A m \in got : \/ m = StatusOut
                     \/ /\ ~confirmed /\ StillAsking
                        /\ m = [type |-> "handoffReq", dev |-> activeNum, to |-> masterIp]
    BY <1>1 DEF BroadcastStatus, StillAsking
<1>5. StillAsking => activeNum = MasterNum
    BY DEF StillAsking, RoleInv, SlotFollowsRole
<1> DEFINE asked == {m \in got : m.type = "handoffReq" /\ m.to = deckMaster}
<1>6. \A m \in asked : ~confirmed /\ m.dev = MasterNum
    BY <1>4, <1>5 DEF StatusOut
<1>7. asked # {} => (CHOOSE m \in asked : TRUE).dev = MasterNum
    BY <1>6
<1>8. offered' \in {NoDev, MasterNum}
    BY <1>1, <1>7 DEF DecksHear, OfferInv
<1>9. CASE confirmed
  <2>1. CASE deckMaster' = deckMaster /\ offered' = offered
      BY <1>2, <1>8, <1>9, <2>1 DEF OfferInv, OffersStand, TwoMastersAreTemporary
  <2>2. CASE deckMaster' = NoDev
      BY <1>2, <1>8, <1>9, <2>2 DEF OfferInv, OffersStand, TwoMastersAreTemporary
  <2>3. CASE \E m \in got : \/ m.type = "ack"
                            \/ m.type = "status" /\ asker # NoDev /\ m.mh = asker
    <3>1. StatusOut.mh = asker /\ asker # NoDev
        BY <1>4, <1>9, <2>3 DEF StatusOut
    <3>2. asker # NoHandoff
        BY RoleAssumption, LinkAssumption DEF LinkTypeOK, NoHandoff, NoDev
    <3>3. yieldingTo # NoDev
        BY <3>1, <3>2 DEF StatusOut
    <3>4. deadline # "off"
        BY <3>3 DEF RoleInv, YieldIsBounded
    <3> QED BY <1>2, <1>8, <1>9, <3>4 DEF OfferInv, OffersStand, TwoMastersAreTemporary
  <2>4. asked = {}
      BY <1>6, <1>9
  <2> QED BY <1>1, <2>1, <2>2, <2>3, <2>4 DEF DecksHear
<1>10. CASE ~confirmed
  <2>1. \A m \in got : m.type # "ack" /\ (m.type = "status" => ~m.master)
      BY <1>4, <1>10 DEF StatusOut
  <2>2. offered' = IF asked # {} THEN (CHOOSE m \in asked : TRUE).dev ELSE offered
      BY <1>1, <2>1 DEF DecksHear
  <2>3. Answers(got) # {} => offered' = MasterNum
      BY <1>7, <2>2 DEF Answers
  <2>4. \A n \in Loopback : ~IsOffer(n)
    <3>1. yieldingTo = NoDev
        BY <1>10 DEF RoleInv, YieldIsBounded
    <3>2. StatusOut.mh = NoHandoff
        BY <3>1 DEF StatusOut
    <3>3. NoHandoff \notin {IdleNum, MasterNum}
        BY RoleAssumption DEF NoHandoff
    <3>4. \A m \in sent' : m.type = "status" => m = StatusOut
        BY DEF BroadcastStatus
    <3> QED BY <3>2, <3>3, <3>4 DEF Loopback, IsOffer
  <2>5. OfferQueued' => OfferQueued \/ Answers(got) # {}
    <3>1. statusQ \in Seq(AckIn \cup StatusIn)
        BY DEF LinkTypeOK
    <3>2. CASE statusQ' = statusQ
        BY <3>2 DEF OfferQueued
    <3>3. ASSUME NEW m \in Loopback, statusQ' = Append(statusQ, m) PROVE OfferQueued' => OfferQueued
        BY <3>1, <3>3, <2>4, AppendProperties DEF OfferQueued
    <3> QED BY <1>1, <3>2, <3>3
  <2> QED BY <1>2, <1>8, <1>10, <2>2, <2>3, <2>5, <1>7
        DEF OfferInv, OffersStand, TwoMastersAreTemporary
<1> QED BY <1>3, <1>9, <1>10

\* The other phases of the loop: one claims the role anew, one answers nothing, and
\* those that leave it or promise it are covered by what they leave behind.
LEMMA LoopKeeps ==
    ASSUME LinkTypeOK, RoleInv, OfferInv, LinkLoop
    PROVE  OfferInv'
<1>1. Deliver(statusQ) /\ NoteStale
    BY DEF LinkLoop
<1>2. CASE BroadcastStatus
  <2>1. UNCHANGED stale
      BY <1>1, <1>2 DEF BroadcastStatus, NoteStale, BeginsClaim
  <2> QED BY <1>1, <1>2, <2>1, BroadcastKeeps
<1>3. CASE ApplyNothing \/ BroadcastNothing \/ MoveFlags
  <2>1. UNCHANGED <<masterMode, confirmed, deadline, request>> /\ sent' = {}
      BY <1>3 DEF ApplyNothing, BroadcastNothing, MoveFlags, LoadPre, RestorePre,
                  RestoreIgnore, LoadIgnore, CapturePre, ForceIgnore, Accesses, Silent,
                  roleVars
  <2>2. UNCHANGED stale
      BY <1>1, <2>1 DEF NoteStale, BeginsClaim
  <2> QED BY <1>1, <2>1, <2>2, QuietStep, QuietKeeps DEF deckVars
<1>4. CASE ApplyEnter
  <2>1. /\ sent' = {} /\ ~confirmed' /\ request = "enter" /\ request' = "none"
      BY <1>4 DEF ApplyEnter, Silent
  <2>2. statusQ' = statusQ /\ offered' = offered
      BY <1>1, <2>1, QuietStep DEF deckVars
  <2>3. stale' = (OfferQueued /\ offered # MasterNum)
      BY <1>1, <2>1 DEF NoteStale, BeginsClaim
  <2>4. OfferQueued' = OfferQueued
      BY <2>2 DEF OfferQueued
  <2> QED BY <2>1, <2>2, <2>3, <2>4 DEF OfferInv, OffersStand, TwoMastersAreTemporary
<1>5. CASE (ApplyRelease \/ ReleaseTimeout) /\ LeaveMasterMode
  <2>1. ~confirmed' /\ ~masterMode'
      BY <1>5 DEF LeaveMasterMode
  <2>2. \A m \in sent' : m.type = "appoint"
      BY <1>5 DEF ApplyRelease, ReleaseTimeout, Silent
  <2> QED BY <1>1, <2>1, <2>2, OutsideRole, OfferNotMade
<1>6. CASE ApplyRelease /\ ~LeaveMasterMode
  <2>1. /\ confirmed /\ confirmed' = confirmed /\ deadline' = "armed"
        /\ sent' = {[type |-> "appoint", to |-> masterIp]}
      BY <1>6 DEF ApplyRelease, CanAppoint
  <2>2. offered' \in {NoDev, MasterNum}
      BY <1>1, <2>1, OfferNotMade
  <2> QED BY <2>1, <2>2 DEF OfferInv, OffersStand, TwoMastersAreTemporary
<1> QED BY <1>2, <1>3, <1>4, <1>5, <1>6 DEF LinkLoop, Loop, ReleaseTimeout

\* A setter or the deadline: a claim that begins notes the offers it finds.
LEMMA BesideKeeps ==
    ASSUME LinkTypeOK, RoleInv, OfferInv, Beside(UiThread) \/ Beside(DeadlinePasses)
    PROVE  OfferInv'
<1>1. NoteStale /\ UNCHANGED <<statusQ, deckMaster, offered>>
    BY DEF Beside, deckVars
<1>2. OfferQueued' = OfferQueued
    BY <1>1 DEF OfferQueued
<1>3. CASE DeadlinePasses
    BY <1>1, <1>2, <1>3 DEF DeadlinePasses, NoteStale, BeginsClaim,
        OfferInv, OffersStand, TwoMastersAreTemporary
<1>4. CASE UiThread /\ masterMode' = masterMode
  <2>1. UNCHANGED <<confirmed, deadline>> /\ (request' = request \/ request' # "none")
      BY <1>4 DEF UiThread, SelectSource, UiCall, StoreMasterMode, StoreRequest,
                  StorePreIgnore, StoreIgnore, SetForceMasterDevice, roleVars
  <2>2. UNCHANGED stale
      BY <1>1, <1>4, <2>1 DEF NoteStale, BeginsClaim
  <2> QED BY <1>1, <1>4, <2>1, <2>2, QuietKeeps
<1>5. CASE UiThread /\ masterMode' # masterMode
  <2>1. masterMode' /\ UNCHANGED confirmed
      BY <1>5 DEF UiThread, SelectSource, UiCall, StoreMasterMode, StoreRequest,
                  StorePreIgnore, StoreIgnore, SetForceMasterDevice, roleVars
  <2>2. ~masterMode
      BY <1>5, <2>1 DEF LinkTypeOK, TypeOK
  <2>3. ~confirmed /\ ~confirmed'
      BY <2>1, <2>2 DEF RoleInv
  <2>4. stale' = (OfferQueued /\ offered # MasterNum)
      BY <1>1, <2>1, <2>2 DEF NoteStale, BeginsClaim
  <2> QED BY <1>1, <1>2, <2>3, <2>4 DEF OfferInv, OffersStand, TwoMastersAreTemporary
<1> QED BY <1>3, <1>4, <1>5 DEF Beside

\* What the box reads: a datagram is an offer that stands, or changes neither flag
\* nor promise, or ends the role; a 0x26 arms the deadline before it is answered.
LEMMA ReadKeeps ==
    ASSUME LinkTypeOK, RoleInv, OfferInv, LinkRecvBeat \/ LinkRecvStatus
    PROVE  OfferInv'
<1>1. CASE LinkRecvBeat
  <2>1. Deliver(statusQ) /\ UNCHANGED stale
      BY <1>1 DEF LinkRecvBeat
  <2>2. CASE sent' = {}
    <3>1. UNCHANGED <<masterMode, confirmed, deadline>>
        BY <1>1, <2>2 DEF LinkRecvBeat, RecvBeatTimeout, RecvBeat, HandleBeat,
            HandleYieldRequest, YieldRequested, roleVars
    <3> QED BY <2>1, <2>2, <3>1, QuietStep, QuietKeeps DEF deckVars
  <2>3. CASE sent' # {}
    <3>1. PICK p : YieldRequested(p) /\ confirmed' = confirmed
        BY <1>1, <2>3 DEF LinkRecvBeat, RecvBeatTimeout, RecvBeat, HandleBeat,
            HandleYieldRequest, Silent
    <3>2. confirmed /\ confirmed' /\ deadline' = "armed" /\ \A m \in sent' : m.type = "ack"
        BY <3>1 DEF YieldRequested
    <3>3. offered' \in {NoDev, MasterNum}
        BY <2>1, <3>2, OfferNotMade
    <3> QED BY <3>2, <3>3 DEF OfferInv, OffersStand, TwoMastersAreTemporary
  <2> QED BY <2>2, <2>3
<1>2. CASE LinkRecvStatus
  <2>1. CASE statusQ = <<>>
    <3>1. /\ Deliver(statusQ) /\ sent' = {}
          /\ UNCHANGED <<masterMode, confirmed, deadline, stale>>
        BY <1>2, <2>1 DEF LinkRecvStatus, RecvStatusTimeout, Silent, roleVars
    <3> QED BY <3>1, QuietStep, QuietKeeps DEF deckVars
  <2>2. CASE statusQ # <<>>
    <3>1. /\ RecvStatus(Head(statusQ)) /\ Deliver(Tail(statusQ)) /\ UNCHANGED stale
        BY <1>2, <2>2 DEF LinkRecvStatus
    <3>2. statusQ \in Seq(AckIn \cup StatusIn) /\ Head(statusQ) \in AckIn \cup StatusIn
        BY <2>2, HeadTailProperties DEF LinkTypeOK
    <3>3. sent' = {}
        BY <3>1 DEF RecvStatus
    <3>4. statusQ' = Tail(statusQ) /\ UNCHANGED <<deckMaster, offered>>
        BY <3>1, <3>3, QuietStep DEF deckVars
    <3>5. OfferQueued' => OfferQueued
        BY <2>2, <3>2, <3>4, OfferInTail
    <3>6. \/ ~confirmed' /\ ~masterMode'
          \/ UNCHANGED <<masterMode, deadline>> /\ (confirmed => confirmed')
        BY <3>1 DEF RecvStatus, HandleAck, HandleStatus, LeaveMasterMode
    <3>7. CASE ~confirmed' /\ ~masterMode'
        BY <3>4, <3>7, OutsideRole DEF OfferInv
    <3>8. CASE UNCHANGED <<masterMode, deadline>> /\ (confirmed => confirmed')
      <4>1. CASE confirmed \/ ~confirmed'
          BY <3>1, <3>4, <3>5, <3>8, <4>1 DEF OfferInv, OffersStand, TwoMastersAreTemporary
      <4>2. CASE ~confirmed /\ confirmed'
        <5>1. masterMode /\ IsOffer(Head(statusQ))
            BY <3>1, <3>2, <4>2, GrantedByOffer DEF LinkTypeOK
        <5>2. OfferQueued
          <6>1. 1 \in DOMAIN statusQ /\ statusQ[1] = Head(statusQ)
              BY <2>2, <3>2
          <6> QED BY <5>1, <6>1 DEF OfferQueued
        <5>3. offered = MasterNum \/ stale
            BY <4>2, <5>1, <5>2 DEF OfferInv, OffersStand
        <5> QED BY <3>1, <3>4, <4>2, <5>3 DEF OfferInv, OffersStand, TwoMastersAreTemporary
      <4> QED BY <4>1, <4>2
    <3> QED BY <3>6, <3>7, <3>8
  <2> QED BY <2>1, <2>2
<1> QED BY <1>1, <1>2

\* What the decks do by themselves: only one with an offer out repeats it.
LEMMA DecksKeep ==
    ASSUME LinkTypeOK, RoleInv, OfferInv, Link
    PROVE  OfferInv'
<1>1. ASSUME NEW d \in Decks, DeckSendsStatus(d) PROVE OfferInv'
  <2>1. UNCHANGED <<masterMode, confirmed, deadline, stale, deckMaster, offered>>
        /\ statusQ' = Append(statusQ, DeckStatus(d))
      BY <1>1 DEF DeckSendsStatus, vars, roleVars, deckVars
  <2>2. IsOffer(DeckStatus(d)) => offered = MasterNum
    <3>1. NoHandoff \notin {IdleNum, MasterNum} /\ IdleNum # NoDev
        BY RoleAssumption DEF NoHandoff, NoDev
    <3>2. DeckStatus(d).type # "ack"
        BY DEF DeckStatus
    <3>3. DeckStatus(d).mh \in {offered, NoHandoff} /\ (offered = NoDev => DeckStatus(d).mh = NoHandoff)
        BY DEF DeckStatus
    <3> QED BY <3>1, <3>2, <3>3 DEF IsOffer, OfferInv
  <2>3. OfferQueued' => OfferQueued \/ IsOffer(DeckStatus(d))
    <3>1. statusQ \in Seq(AckIn \cup StatusIn) /\ DeckStatus(d) \in AckIn \cup StatusIn
        BY DeckStatusType DEF LinkTypeOK
    <3> QED BY <2>1, <3>1, AppendProperties DEF OfferQueued
  <2> QED BY <2>1, <2>2, <2>3 DEF OfferInv, OffersStand, TwoMastersAreTemporary
<1>2. ASSUME NEW d \in Decks, PressMaster(d) PROVE OfferInv'
  <2>1. /\ UNCHANGED <<masterMode, confirmed, deadline, stale, offered>>
        /\ statusQ' = <<>> /\ offered = NoDev
      BY <1>2 DEF PressMaster, vars, roleVars
  <2>2. ~OfferQueued'
      BY <2>1 DEF OfferQueued
  <2>3. confirmed => deckMaster' = deckMaster \/ deckMaster # NoDev
      BY <1>2 DEF PressMaster, RoleInv
  <2>4. OffersStand' /\ offered' \in {NoDev, MasterNum}
      BY <2>1, <2>2 DEF OffersStand
  <2>5. TwoMastersAreTemporary'
      BY <2>1, <2>3 DEF OfferInv, TwoMastersAreTemporary
  <2> QED BY <2>4, <2>5 DEF OfferInv
<1>3. CASE DeckAsks \/ DeckGivesUp
    BY <1>3, QuietKeeps DEF DeckAsks, DeckGivesUp, vars, roleVars
<1>4. CASE DeckWithdraws
  <2>1. ~masterMode' /\ ~confirmed' /\ offered' = NoDev
      BY <1>4 DEF DeckWithdraws, vars, roleVars, RoleInv
  <2> QED BY <2>1, OutsideRole
<1> QED BY <1>1, <1>2, <1>3, <1>4 DEF Link

\* Every step on the link keeps the invariant.
LEMMA OfferNext == LinkTypeOK /\ RoleInv /\ OfferInv /\ [LinkNext]_linkVars => OfferInv'
<1> SUFFICES ASSUME LinkTypeOK, RoleInv, OfferInv, [LinkNext]_linkVars PROVE OfferInv'
    OBVIOUS
<1>1. CASE UNCHANGED linkVars
    BY <1>1, QuietKeeps DEF linkVars, vars, roleVars, deckVars
<1> QED BY <1>1, LoopKeeps, BesideKeeps, ReadKeeps, DecksKeep DEF LinkNext

\* No offer waits at the start, and the box holds no role.
LEMMA OfferInit == LinkInit => OfferInv
BY DEF LinkInit, Init, OfferInv, OffersStand, TwoMastersAreTemporary, OfferQueued

\* With any decks, queues of any length and any losses, the box and a deck hold the
\* flag together only during a hand-off, or after a claim that began with a stale
\* offer unread (handle_status_packet, maybe_broadcast_master_status).
THEOREM TwoMastersTemporary == LinkSpec => []TwoMastersAreTemporary
<1>1. OfferInv => TwoMastersAreTemporary
    BY DEF OfferInv
<1>2. LinkSpec => []RoleInv
    BY LinkImplementsRole, RoleInvariant, PTL
<1> QED BY <1>1, <1>2, LinkTypes, OfferInit, OfferNext, PTL DEF LinkSpec
=============================================================================
