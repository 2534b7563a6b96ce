--------------------------- MODULE MobileIPProofs ---------------------------
(***************************************************************************)
(* Invariants of the composition, for every choice of numbers, lifetimes   *)
(* and bounds.                                                             *)
(***************************************************************************)
EXTENDS MobileIP, ClickLemmas

\* What may be in flight: requests of the node, requests that fa forwards,
\* answers of ha and replies to the node.
Asks ==
  [kind : {"request"}, dest : {fa}, lifetime : {RegLifetime}, coa : {"foreign"},
   port : Number, id : Number]
    \cup
  [kind : {"request"}, dest : {ha}, lifetime : {0}, coa : {"home"}, port : Number, id : Number]
Forwards ==
  [to : {"home"}, dst : {ha}, home_address : {mn}, lifetime : {RegLifetime}, id : Number,
   flags : {{}}]
Grants == [from : {ha}, dst : {fa}, id : Number, lifetime : {RegLifetime}]
Releases == [from : {ha}, dst : {mn}, port : Number, id : Number, lifetime : {0}]
Replies ==
  [to : {"mobile"}, dst : {mn}, port : Number, code : {0, 78}, lifetime : {0, RegLifetime},
   id : Number \cup {Node!htons(i) : i \in Number}]

InOut(S) == \E p \in S : out = <<p>>

\* The requests that fa may have on its list, as its module types them.
Listed ==
  [ip_src : {mn}, udp_src : Number, home_agent : {ha}, id : Number,
   requested_lifetime : {RegLifetime}, remaining_lifetime : Word]

\* The inductive invariant behind Composes.
Fitting ==
  /\ out = << >> \/ InOut(Asks) \/ InOut(Forwards) \/ InOut(Grants) \/ InOut(Releases)
     \/ InOut(Replies)
  /\ late = None \/ late \in Forwards
  /\ requests \in Seq(Listed)
  /\ down \in {ha, fa, None} /\ up \in {ha, fa}

\* The fields tell the packets in flight apart.
LEMMA FittingPacket ==
  ASSUME Fitting
  PROVE  /\ Request => out[1] \in Asks
         /\ Relayed => out[1] \in Forwards
         /\ HomeAnswer /\ out[1].dst = fa => out[1] \in Grants
         /\ HomeAnswer /\ out[1].dst = mn => out[1] \in Releases
         /\ Answer => out[1] \in Replies
<1> USE MobileIPAssumption DEF Request, Relayed, HomeAnswer, Answer, Quiet
<1>1. CASE out = << >>
  BY <1>1
<1>2. CASE InOut(Asks)
  <2>1. PICK p \in Asks : out = <<p>>
    BY <1>2 DEF InOut
  <2>2. out # << >> /\ out[1] = p /\ "to" \notin DOMAIN p /\ "from" \notin DOMAIN p
    BY <2>1 DEF Asks
  <2> QED  BY <2>1, <2>2
<1>3. CASE InOut(Forwards)
  <2>1. PICK p \in Forwards : out = <<p>>
    BY <1>3 DEF InOut
  <2>2. /\ out # << >> /\ out[1] = p /\ "kind" \notin DOMAIN p /\ "from" \notin DOMAIN p
        /\ p.to # "mobile"
    BY <2>1 DEF Forwards
  <2> QED  BY <2>1, <2>2
<1>4. CASE InOut(Grants)
  <2>1. PICK p \in Grants : out = <<p>>
    BY <1>4 DEF InOut
  <2>2. /\ out # << >> /\ out[1] = p /\ "kind" \notin DOMAIN p /\ "to" \notin DOMAIN p
        /\ p.dst = fa
    BY <2>1 DEF Grants
  <2> QED  BY <2>1, <2>2
<1>5. CASE InOut(Releases)
  <2>1. PICK p \in Releases : out = <<p>>
    BY <1>5 DEF InOut
  <2>2. /\ out # << >> /\ out[1] = p /\ "kind" \notin DOMAIN p /\ "to" \notin DOMAIN p
        /\ p.dst = mn
    BY <2>1 DEF Releases
  <2> QED  BY <2>1, <2>2
<1>6. CASE InOut(Replies)
  <2>1. PICK p \in Replies : out = <<p>>
    BY <1>6 DEF InOut
  <2>2. /\ out # << >> /\ out[1] = p /\ "kind" \notin DOMAIN p /\ "from" \notin DOMAIN p
        /\ p.to # "home"
    BY <2>1 DEF Replies
  <2> QED  BY <2>1, <2>2
<1> QED
  BY <1>1, <1>2, <1>3, <1>4, <1>5, <1>6 DEF Fitting

\* RegReq::push sends what it may, to either agent.
LEMMA FittingRequest ==
  ASSUME NEW a, NEW lt, Node!RegReq_push(a, lt)
  PROVE  out' = << >> \/ InOut(Asks)'
<1>1. ASSUME NEW d, NEW l, NEW coa, Node!make_packet(d, l, coa)
      PROVE  \E port, id \in Number : out' = <<[kind |-> "request", dest |-> d, lifetime |-> l,
                                               coa |-> coa, port |-> port, id |-> id]>>
  BY <1>1 DEF Node!make_packet
<1>2. CASE Node!make_packet(fa, RegLifetime, "foreign")
  <2>1. PICK port, id \in Number :
          out' = <<[kind |-> "request", dest |-> fa, lifetime |-> RegLifetime,
                    coa |-> "foreign", port |-> port, id |-> id]>>
    BY <1>1, <1>2
  <2> QED  BY <2>1 DEF InOut, Asks
<1>3. CASE Node!make_packet(ha, 0, "home")
  <2>1. PICK port, id \in Number :
          out' = <<[kind |-> "request", dest |-> ha, lifetime |-> 0,
                    coa |-> "home", port |-> port, id |-> id]>>
    BY <1>1, <1>3
  <2> QED  BY <2>1 DEF InOut, Asks
<1> QED
  BY <1>2, <1>3 DEF Node!RegReq_push

\* A step that is, for each part, a step of its own or none.
Fits ==
  /\ UNCHANGED nodeVars \/ Node!Next
  /\ UNCHANGED relayVars \/ Relay!Next
  /\ UNCHANGED route \/ Home!Next

\* The node's own steps.
LEMMA NodeFits ==
  ASSUME Fitting,
         \/ \E n \in SeqNr : Advertise(n)
         \/ AdvertisementAges \/ PendingAges \/ RegistrationAges \/ AttemptAges
  PROVE  Fitting' /\ Fits
<1>1. UNCHANGED <<relayVars, route, late, placeVars>>
  BY DEF Advertise, AdvertisementAges, PendingAges, RegistrationAges, AttemptAges, NodeStep
<1>2. Node!Next
  <2>1. ASSUME NEW n \in SeqNr, Advertise(n) PROVE Node!Next
    <3>1. PICK ad : /\ ad = [address |-> down, seq_nr |-> n, busy |-> FALSE]
                    /\ Node!ProcessAdvertisements_push(ad) /\ down # None
      BY <2>1, Zenon DEF Advertise
    <3>2. ad \in Node!Advertisement
      BY <3>1 DEF Fitting, Node!Advertisement
    <3> QED  BY <3>1, <3>2, Zenon DEF Node!Next
  <2>2. CASE AdvertisementAges
    BY <2>2, Zenon DEF AdvertisementAges, Node!Next
  <2>3. CASE PendingAges
    BY <2>3, Zenon DEF PendingAges, Node!Next
  <2>4. CASE RegistrationAges
    BY <2>4, Zenon DEF RegistrationAges, Node!Next
  <2>5. CASE AttemptAges
    BY <2>5, Zenon DEF AttemptAges, Node!Next
  <2> QED  BY <2>1, <2>2, <2>3, <2>4, <2>5
<1>3. out' = << >> \/ InOut(Asks)'
  <2>1. out' = << >> \/ \E a, lt : Node!RegReq_push(a, lt)
    <3>1. CASE \E n \in SeqNr : Advertise(n)
      BY <3>1, Zenon DEF Advertise, Node!ProcessAdvertisements_push
    <3>2. CASE AdvertisementAges
      BY <3>2, Zenon DEF AdvertisementAges, Node!ProcessAdvertisements_run_timer
    <3>3. CASE PendingAges
      BY <3>3, Zenon DEF PendingAges, Node!RegReq_run_timer
    <3>4. CASE RegistrationAges
      BY <3>4, Zenon DEF RegistrationAges, Node!RegNode_run_timer
    <3>5. CASE AttemptAges
      BY <3>5, Zenon DEF AttemptAges, Node!AttemptAges
    <3> QED  BY <3>1, <3>2, <3>3, <3>4, <3>5, Zenon
  <2> QED  BY <2>1, FittingRequest
<1> QED
  BY <1>1, <1>2, <1>3, Zenon DEF Fitting, Fits, relayVars, placeVars

\* The operators on vectors are the same for the node, fa and here.
LEMMA SameVectors ==
  ASSUME NEW v, NEW K
  PROVE  Node!Kept(v, K) = Kept(v, K) /\ Relay!Kept(v, K) = Kept(v, K)
<1>1. Node!Cardinality(K) = Cardinality(K) /\ Relay!Cardinality(K) = Cardinality(K)
  BY Zenon DEF Node!Cardinality, Relay!Cardinality, Cardinality
<1>2. Node!Enumeration(K) = Enumeration(K) /\ Relay!Enumeration(K) = Enumeration(K)
  BY <1>1, Zenon DEF Node!Enumeration, Relay!Enumeration, Enumeration
<1> QED  BY <1>1, <1>2, Zenon DEF Node!Kept, Relay!Kept, Kept

\* A tick keeps a request of fa's list what it is.
LEMMA TickedListed == \A e \in Listed : Relay!ticked(e) \in Listed
<1> TAKE e \in Listed
<1>1. e.remaining_lifetime \in Word
  BY DEF Listed
<1>2. htons(Minus(ntohs(e.remaining_lifetime), 1)) \in Word
  BY <1>1, SwapType, MinusType, Zenon
<1>3. \A q : Relay!ntohs(q) = ntohs(q) /\ Relay!htons(q) = htons(q) /\ Relay!Minus(q, 1) = Minus(q, 1)
  BY DEF Relay!htons, htons, Relay!ntohs, ntohs, Relay!Minus, Minus
<1>4. Relay!ticked(e) = [e EXCEPT !.remaining_lifetime = htons(Minus(ntohs(e.remaining_lifetime), 1))]
  BY <1>3, Zenon DEF Relay!ticked
<1> QED  BY <1>2, <1>4 DEF Listed

\* What fa's timer leaves on its list and sends.
LEMMA AgedListed ==
  ASSUME requests \in Seq(Listed), Relay!age_requests
  PROVE  requests' \in Seq(Listed) /\ (out' = << >> \/ InOut(Replies)')
<1>1. Len(requests) \in Nat /\ \A i \in 1 .. Len(requests) : requests[i] \in Listed
  OBVIOUS
<1>2. ASSUME NEW v \in [1 .. Len(requests) -> Listed], NEW K \in SUBSET (1 .. Len(requests)),
             requests' \in Relay!Kept(v, K)
      PROVE  requests' \in Seq(Listed)
  <2>1. v \in Seq(Listed) /\ K \in SUBSET (1 .. Len(v)) /\ requests' \in Kept(v, K)
    BY <1>1, <1>2, SameVectors
  <2> QED  BY <2>1, KeptType
<1>3. CASE /\ requests' \in Relay!Kept([i \in 1 .. Len(requests) |-> Relay!ticked(requests[i])],
                                       {i \in 1 .. Len(requests) : requests[i].requested_lifetime > 0})
           /\ out' = << >>
  <2>1. [i \in 1 .. Len(requests) |-> Relay!ticked(requests[i])] \in [1 .. Len(requests) -> Listed]
    BY <1>1, TickedListed
  <2> QED  BY <1>2, <1>3, <2>1
<1>4. ASSUME NEW t \in 1 .. Len(requests),
             requests' \in Relay!Kept([i \in 1 .. Len(requests) |->
                                         IF i < t THEN Relay!ticked(requests[i]) ELSE requests[i]],
                                      {i \in 1 .. Len(requests) :
                                         i > t \/ (i < t /\ requests[i].requested_lifetime > 0)}),
             out' = <<Relay!createRep(78, requests[t].ip_src, requests[t].udp_src,
                                      Relay!htons(requests[t].id))>>
      PROVE  requests' \in Seq(Listed) /\ InOut(Replies)'
  <2>1. [i \in 1 .. Len(requests) |-> IF i < t THEN Relay!ticked(requests[i]) ELSE requests[i]]
          \in [1 .. Len(requests) -> Listed]
    BY <1>1, TickedListed, Zenon
  <2>2. requests[t].ip_src = mn /\ requests[t].udp_src \in Number /\ requests[t].id \in Number
    BY <1>1, Zenon DEF Listed
  <2>3. Relay!htons(requests[t].id) = Node!htons(requests[t].id)
    BY Zenon DEF Relay!htons, Node!htons
  <2>4. Relay!createRep(78, requests[t].ip_src, requests[t].udp_src,
                        Relay!htons(requests[t].id)) \in Replies
    BY <2>2, <2>3, Zenon DEF Relay!createRep, Relay!ToMobile, Replies
  <2>5. requests' \in Seq(Listed)
    BY <1>2, <1>4, <2>1, Zenon
  <2> QED  BY <1>4, <2>4, <2>5, Zenon DEF InOut
<1> QED
  BY <1>3, <1>4 DEF Relay!age_requests

\* Relay::relayReq rejects no request of the node.
LEMMA RelayForwards ==
  ASSUME Fitting, RelayHearsRequest
  PROVE  Relay!Next /\ requests' \in Seq(Listed) /\ InOut(Forwards)'
<1>1. PICK p : /\ p = [intact |-> TRUE, home_address |-> mn, home_agent |-> ha,
                       port |-> out[1].port, id |-> out[1].id,
                       lifetime |-> out[1].lifetime, flags |-> {}]
               /\ Relay!relayReq(p)
  BY Zenon DEF RelayHearsRequest
<1>2. /\ out[1].port \in Number /\ out[1].id \in Number
      /\ out[1].lifetime = RegLifetime
  <2>1. out[1] \in Asks /\ out[1].dest = fa
    BY FittingPacket, Zenon DEF RelayHearsRequest
  <2> QED  BY <2>1, MobileIPAssumption, Zenon DEF Asks
<1>3. p \in Relay!Request
  BY <1>1, <1>2 DEF Relay!Request
<1>4. Relay!Next
  BY <1>1, <1>3, Zenon DEF Relay!Next, Relay!push
<1>5. p.intact /\ Relay!reject_code(p) = 0
  BY <1>1 DEF Relay!reject_code
<1>6. requests' = Append(requests, Relay!pending_entry(p)) /\ out' = <<Relay!ToHome(p)>>
  BY <1>1, <1>5, Zenon DEF Relay!relayReq
<1>7. Relay!pending_entry(p) \in Listed
  BY <1>1, <1>2, MobileIPAssumption, Zenon DEF Relay!pending_entry, Listed
<1>8. Relay!ToHome(p) \in Forwards
  BY <1>1, <1>2, Zenon DEF Relay!ToHome, Forwards
<1>9. requests' \in Seq(Listed)
  BY <1>6, <1>7 DEF Fitting
<1> QED  BY <1>4, <1>6, <1>8, <1>9, Zenon DEF InOut

\* fa's steps.
LEMMA RelayFits ==
  ASSUME Fitting, RelayAges \/ RelayHearsRequest \/ RelayHearsAnswer
  PROVE  Fitting' /\ Fits
<1>1. UNCHANGED <<nodeVars, route, late, placeVars>>
  BY DEF RelayAges, RelayHearsRequest, RelayHearsAnswer
<1>2. CASE RelayAges
  <2>1. Relay!run_timer /\ Relay!Next
    BY <1>2, Zenon DEF RelayAges, Relay!Next
  <2>2. requests' \in Seq(Listed) /\ (out' = << >> \/ InOut(Replies)')
    BY <2>1, AgedListed, Zenon DEF Relay!run_timer, Fitting
  <2> QED  BY <1>1, <2>1, <2>2, Zenon DEF Fits, Fitting, placeVars
<1>3. CASE RelayHearsRequest
  BY <1>1, <1>3, RelayForwards, Zenon DEF Fits, Fitting, placeVars
<1>4. CASE RelayHearsAnswer
  <2>1. PICK r : /\ r = [intact |-> TRUE, home_address |-> mn, code |-> 0,
                         lifetime |-> out[1].lifetime, id |-> out[1].id]
                 /\ Relay!relayRep(r)
    BY <1>4, Zenon DEF RelayHearsAnswer
  <2>2. out[1].id \in Number /\ out[1].lifetime = RegLifetime
    <3>1. out[1] \in Grants
      BY <1>4, FittingPacket, Zenon DEF RelayHearsAnswer
    <3> QED  BY <3>1, Zenon DEF Grants
  <2>3. r \in Relay!Reply
    BY <2>1, <2>2, Zenon DEF Relay!Reply
  <2>4. Relay!Next
    BY <2>1, <2>3, Zenon DEF Relay!Next, Relay!push
  <2>5. requests' \in Seq(Listed) /\ (out' = << >> \/ InOut(Replies)')
    <3>1. CASE Relay!Silent
      BY <3>1, Zenon DEF Relay!Silent, Fitting
    <3>2. ASSUME NEW i \in 1 .. Len(requests), requests' = Relay!erase(requests, i),
                 out' = <<Relay!ToMobile(r.home_address, Relay!port_of_slot(i), r.code,
                                         r.lifetime, r.id)>>
          PROVE  requests' \in Seq(Listed) /\ InOut(Replies)'
      <4>1. requests' = erase(requests, i)
        BY <3>2, Zenon DEF Relay!erase, erase
      <4>2. requests' \in Seq(Listed)
        BY <4>1, EraseType DEF Fitting
      <4>3. Relay!port_of_slot(i) \in Number
        <5>1. Len(requests) \in Nat
          BY DEF Fitting
        <5>2. PICK k \in 1 .. Len(requests) : k = IF i < Len(requests) THEN i + 1 ELSE i
          BY <5>1
        <5>3. requests[k] \in Listed
          BY DEF Fitting
        <5> QED  BY <5>2, <5>3, Zenon DEF Relay!port_of_slot, Listed
      <4>4. Relay!ToMobile(r.home_address, Relay!port_of_slot(i), r.code, r.lifetime, r.id)
              \in Replies
        BY <2>1, <2>2, <4>3, Zenon DEF Relay!ToMobile, Replies
      <4> QED  BY <3>2, <4>2, <4>4, Zenon DEF InOut
    <3> QED
      BY <2>1, <3>1, <3>2, Zenon DEF Relay!relayRep
  <2> QED  BY <1>1, <2>4, <2>5, Zenon DEF Fits, Fitting, placeVars
<1> QED  BY <1>2, <1>3, <1>4, Zenon

\* ha's steps.
LEMMA HomeFits ==
  ASSUME Fitting, HomeHearsRequest \/ HomeHearsRelayed \/ HomeHearsLate
  PROVE  Fitting' /\ Fits
<1>1. UNCHANGED <<nodeVars, relayVars, placeVars>>
  BY DEF HomeHearsRequest, HomeHearsRelayed, HomeHearsLate, Register
<1>2. CASE HomeHearsRequest
  <2>1. Home!Next
    BY <1>2, Zenon DEF HomeHearsRequest, Home!Next
  <2>2. out[1] \in Asks /\ out[1].dest = ha
    BY <1>2, FittingPacket, Zenon DEF HomeHearsRequest
  <2>3. PICK p : /\ p = [from |-> ha, dst |-> mn, port |-> out[1].port, id |-> out[1].id,
                         lifetime |-> out[1].lifetime]
                 /\ out' = <<p>> /\ late' = late
    BY <1>2, Zenon DEF HomeHearsRequest
  <2>4. p \in Releases
    BY <2>2, <2>3, MobileIPAssumption, Zenon DEF Asks, Releases
  <2>5. InOut(Releases)'
    BY <2>3, <2>4, Zenon DEF InOut
  <2> QED  BY <1>1, <2>1, <2>3, <2>5, Zenon DEF Fits, Fitting, relayVars, placeVars
<1>3. ASSUME NEW q \in Forwards, Register(q), late' \in {late, None}
      PROVE  Fitting' /\ Fits
  <2>1. Home!Next
    BY <1>3, Zenon DEF Register, Home!Next
  <2>2. PICK p : p = [from |-> ha, dst |-> fa, id |-> q.id, lifetime |-> q.lifetime]
                 /\ out' = <<p>>
    BY <1>3, Zenon DEF Register
  <2>3. p \in Grants
    BY <2>2, Zenon DEF Forwards, Grants
  <2>4. InOut(Grants)'
    BY <2>2, <2>3, Zenon DEF InOut
  <2> QED  BY <1>1, <1>3, <2>1, <2>4, Zenon DEF Fits, Fitting, relayVars, placeVars
<1>4. CASE HomeHearsRelayed
  BY <1>3, <1>4, FittingPacket, Zenon DEF HomeHearsRelayed
<1>5. CASE HomeHearsLate
  BY <1>3, <1>5, Zenon DEF HomeHearsLate, Fitting
<1> QED  BY <1>2, <1>4, <1>5

\* The node hears a reply, from either agent.
LEMMA AnswerFits ==
  ASSUME Fitting, NodeHearsAnswer
  PROVE  Fitting' /\ Fits
<1>1. UNCHANGED <<relayVars, route, late, placeVars>>
  BY DEF NodeHearsAnswer, NodeHears, NodeStep
<1>2. \E r \in Node!Reply : Node!RegNode_push(r)
  <2>1. ASSUME NEW a \in {ha, fa}, NEW c \in {0, 78}, NodeHears(a, c), out[1].port \in Number,
               out[1].id \in Number \cup {Node!htons(i) : i \in Number},
               out[1].lifetime \in {0, RegLifetime}
        PROVE  \E r \in Node!Reply : Node!RegNode_push(r)
    <3>1. PICK r : /\ r = [src |-> a, port |-> out[1].port, id |-> out[1].id, code |-> c,
                           lifetime |-> out[1].lifetime, intact |-> TRUE]
                   /\ Node!RegNode_push(r)
      BY <2>1, Zenon DEF NodeHears
    <3>2. r \in Node!Reply
      BY <2>1, <3>1, Zenon DEF Node!Reply
    <3> QED  BY <3>1, <3>2
  <2>2. CASE Answer /\ NodeHears(fa, out[1].code)
    <3>1. out[1] \in Replies
      BY <2>2, FittingPacket, Zenon
    <3> QED  BY <2>1, <2>2, <3>1, Zenon DEF Replies
  <2>3. CASE HomeAnswer /\ out[1].dst = mn /\ NodeHears(ha, 0)
    <3>1. out[1] \in Releases
      BY <2>3, FittingPacket, Zenon
    <3> QED  BY <2>1, <2>3, <3>1, Zenon DEF Releases
  <2> QED  BY <2>2, <2>3, Zenon DEF NodeHearsAnswer
<1>3. Node!Next
  BY <1>2, Zenon DEF Node!Next
<1>4. out' = << >>
  BY <1>2, Zenon DEF Node!RegNode_push
<1> QED  BY <1>1, <1>3, <1>4, Zenon DEF Fits, Fitting, relayVars, placeVars

\* Every step fits.
LEMMA StepFits ==
  ASSUME Fitting, [Next]_vars
  PROVE  Fitting' /\ Fits
<1>1. CASE Lose \/ HoldUp
  <2>1. /\ UNCHANGED <<nodeVars, relayVars, route, placeVars>> /\ out' = << >>
        /\ late' = late \/ late' \in Forwards
    BY <1>1, FittingPacket, Zenon DEF Lose, HoldUp
  <2> QED  BY <2>1, Zenon DEF Fitting, Fits, relayVars, placeVars
<1>2. CASE write_switch
  <2>1. /\ UNCHANGED <<nodeVars, relayVars, route, out, late>>
        /\ down' \in {down, up, None} /\ up' \in {up, ha, fa}
    BY <1>2, Zenon DEF write_switch
  <2> QED  BY <2>1, Zenon DEF Fitting, Fits, relayVars, InOut
<1>3. CASE UNCHANGED vars
  BY <1>3, Zenon DEF vars, Fitting, Fits, relayVars, placeVars, InOut
<1> QED
  BY <1>1, <1>2, <1>3, NodeFits, RelayFits, HomeFits, AnswerFits, Zenon
     DEF Next, Stay, Timers, Deliver

\* Fitting is inductive.
LEMMA FittingAtFirst == Init => Fitting
  BY DEF Init, Fitting, Relay!Init

LEMMA FittingStep == Fitting /\ [Next]_vars => Fitting'
  BY StepFits, Zenon

\* The parts fit together: whatever is lost or held up and however the node
\* moves, every step that changes the state of the node, of fa or of ha is a
\* step of its own module, for every choice of numbers, lifetimes and bounds.
THEOREM PartsCompose == Spec => Composes
<1>1. Init => Node!Init /\ Relay!Init /\ Home!Init
  BY Zenon DEF Init
<1>2. Fitting /\ [Next]_vars => [Node!Next]_nodeVars /\ [Relay!Next]_relayVars /\ [Home!Next]_route
  BY StepFits, Zenon DEF Fits
<1> QED
  BY <1>1, <1>2, FittingAtFirst, FittingStep, PTL DEF Spec, Composes

-----------------------------------------------------------------------------
\* The route is open behind every acceptance on its way to the node, and a
\* deregistration is on its way only from a node that has the gateway for its
\* agent.
Backed ==
  /\ route \in [{mn} -> {mn, fa}]
  /\ AgentIsTunnelled
  /\ Request /\ out[1].dest = ha => foreign_agent = ha
  /\ HomeAnswer /\ out[1].dst = fa => Tunnelled
  /\ Answer /\ out[1].code \in {0, 1} => Tunnelled

\* At the start nothing is in flight and the node has no agent.
LEMMA BackedAtFirst == Init => Backed
<1> SUFFICES ASSUME Init PROVE Backed
  OBVIOUS
<1>1. out = << >> /\ foreign_agent # fa /\ route = [h \in {mn} |-> h]
  BY MobileIPAssumption, Zenon DEF Init, Node!Init, Home!Init
<1> QED
  BY <1>1 DEF Backed, AgentIsTunnelled, Request, HomeAnswer, Answer, Quiet

\* What RegReq::push may do when it is called for agent a: a node asks fa
\* for a registration or, with ha for its agent from now on, ha for none.
LEMMA Asking ==
  ASSUME NEW a, NEW lt, Node!RegReq_push(a, lt)
  PROVE  /\ out' = << >> \/ \E lt2, coa, port, id :
                              out' = <<[kind |-> "request", dest |-> a, lifetime |-> lt2,
                                        coa |-> coa, port |-> port, id |-> id]>>
         /\ foreign_agent' \in {foreign_agent, ha}
         /\ a = ha => out' = << >> \/ foreign_agent' = ha
  BY Zenon DEF Node!RegReq_push, Node!make_packet

\* A node that asks, or sends nothing, leaves acceptances backed.
LEMMA AskingBacked ==
  ASSUME Backed, UNCHANGED route,
         \/ \E a, lt : Node!RegReq_push(a, lt)
         \/ out' = << >> /\ UNCHANGED foreign_agent
  PROVE  Backed'
<1> USE MobileIPAssumption
<1> USE DEF Backed, AgentIsTunnelled, Request, HomeAnswer, Answer, Quiet, Tunnelled
<1>1. CASE \E a, lt : Node!RegReq_push(a, lt)
  BY <1>1, Asking
<1>2. CASE out' = << >> /\ UNCHANGED foreign_agent
  BY <1>2
<1> QED  BY <1>1, <1>2

\* Every step keeps acceptances backed by a route.
LEMMA BackedStep == Backed /\ Fitting /\ [Next]_vars => Backed'
<1> SUFFICES ASSUME Backed, Fitting, [Next]_vars PROVE Backed'
  OBVIOUS
<1> USE MobileIPAssumption
<1>1. ASSUME NEW n, Advertise(n) PROVE Backed'
  BY <1>1, AskingBacked, Zenon DEF Advertise, NodeStep, Node!ProcessAdvertisements_push
<1>2. CASE AdvertisementAges
  BY <1>2, AskingBacked, Zenon DEF AdvertisementAges, NodeStep, Node!ProcessAdvertisements_run_timer
<1>3. CASE PendingAges \/ AttemptAges
  BY <1>3, AskingBacked, Zenon DEF PendingAges, AttemptAges, NodeStep, Node!RegReq_run_timer,
     Node!AttemptAges
<1>4. CASE RegistrationAges
  BY <1>4, AskingBacked, Zenon DEF RegistrationAges, NodeStep, Node!RegNode_run_timer
<1> USE DEF Backed, AgentIsTunnelled, Request, HomeAnswer, Answer, Quiet, Tunnelled
<1>5. CASE RelayAges
  <2>1. UNCHANGED <<foreign_agent, route>>
    BY <1>5, Zenon DEF RelayAges, nodeVars
  <2>2. out' = << >> \/ \E h, port, id : out' = <<Relay!createRep(78, h, port, id)>>
    BY <1>5, Zenon DEF RelayAges, Relay!run_timer, Relay!age_requests
  <2> QED  BY <2>1, <2>2 DEF Relay!createRep, Relay!ToMobile
<1>6. CASE RelayHearsRequest
  <2>1. UNCHANGED <<foreign_agent, route>>
    BY <1>6, Zenon DEF RelayHearsRequest, nodeVars
  <2>2. InOut(Forwards)'
    BY <1>6, RelayForwards, Zenon
  <2> QED  BY <2>1, <2>2 DEF InOut, Forwards
<1>7. CASE HomeHearsRequest
  BY <1>7, Zenon DEF HomeHearsRequest, nodeVars, Home!Deregister
<1>8. ASSUME NEW p, Register(p) PROVE Backed'
  BY <1>8, Zenon DEF Register, nodeVars, Home!Register
<1>9. CASE HomeHearsRelayed \/ HomeHearsLate
  BY <1>8, <1>9, Zenon DEF HomeHearsRelayed, HomeHearsLate
<1>10. CASE RelayHearsAnswer
  <2>1. UNCHANGED <<foreign_agent, route>> /\ Tunnelled
    BY <1>10, Zenon DEF RelayHearsAnswer, nodeVars
  <2>2. out' = << >> \/ \E h, port, code, lt, id : out' = <<Relay!ToMobile(h, port, code, lt, id)>>
    <3>1. ASSUME NEW r, Relay!relayRep(r)
          PROVE  \/ out' = << >>
                 \/ \E h, port, code, lt, id : out' = <<Relay!ToMobile(h, port, code, lt, id)>>
      BY ZenonT(30), <3>1 DEF Relay!relayRep, Relay!Silent
    <3> QED  BY <1>10, <3>1, Zenon DEF RelayHearsAnswer
  <2> QED  BY <2>1, <2>2 DEF Relay!ToMobile
<1>11. CASE NodeHearsAnswer
  BY <1>11, Zenon DEF NodeHearsAnswer, NodeHears, NodeStep, Node!RegNode_push, Node!accepts
<1>12. CASE Lose \/ HoldUp \/ write_switch
  BY <1>12 DEF Lose, HoldUp, write_switch, nodeVars
<1>13. CASE UNCHANGED vars
  BY <1>13, Zenon DEF vars, nodeVars
<1> QED
  BY ZenonT(30), <1>1, <1>2, <1>3, <1>4, <1>5, <1>6, <1>7, <1>9, <1>10, <1>11, <1>12, <1>13
     DEF Next, Stay, Timers, Deliver

\* While the node takes fa for its agent, its home agent tunnels to fa: through
\* losses, relayed requests that are late, timeouts and moves (RegNode::push).
THEOREM NodesAgentIsTunnelled == Spec => []AgentIsTunnelled
<1>1. Backed => AgentIsTunnelled
  BY Zenon DEF Backed
<1> QED  BY <1>1, BackedAtFirst, BackedStep, FittingAtFirst, FittingStep, PTL DEF Spec

-----------------------------------------------------------------------------
\* Every pending request of the node has one number for its port and its
\* identification (NewRequest).
PortIsId ==
  /\ pending \in Seq(Node!request)
  /\ \A i \in 1 .. Len(pending) : pending[i].port = pending[i].id

\* The node waits for fa's reply to its request number n.
Asked(n) == \E i \in 1 .. Len(pending) : pending[i].dest = fa /\ pending[i].port = n

RequestTo(a, n) ==
  \E lt, coa : out = <<[kind |-> "request", dest |-> a, lifetime |-> lt, coa |-> coa,
                        port |-> n, id |-> n]>>

\* RegReq::push in the composition: nothing is sent, fa is asked, or the node
\* takes ha for its agent and asks that.
LEMMA RequestNumbers ==
  ASSUME PortIsId, NEW a, NEW lt, Node!RegReq_push(a, lt), out' # << >> => NewRequest
  PROVE  /\ PortIsId'
         /\ \/ out' = << >> /\ UNCHANGED foreign_agent
            \/ \E n : RequestTo(fa, n)' /\ Asked(n)' /\ UNCHANGED foreign_agent
            \/ \E n : RequestTo(ha, n)' /\ foreign_agent' = ha
<1> DEFINE new(d, l, port, id) == [dest |-> d, id |-> id, req_lt |-> l, rem_lt |-> l, port |-> port]
<1>1. ASSUME NEW d \in {ha, fa}, NEW l \in Node!Word, NEW coa, Node!make_packet(d, l, coa)
      PROVE  PortIsId' /\ \E n : RequestTo(d, n)' /\ (d = fa => Asked(n)')
  <2>1. PICK port \in Number, id \in Number :
          /\ pending' = Append(pending, new(d, l, port, id))
          /\ out' = <<[kind |-> "request", dest |-> d, lifetime |-> l, coa |-> coa,
                       port |-> port, id |-> id]>>
    BY <1>1, Zenon DEF Node!make_packet
  <2>2. port = id
    BY <2>1, Zenon DEF NewRequest
  <2>3. new(d, l, port, id) \in Node!request
    BY Zenon DEF Node!request
  <2>4. /\ pending' \in Seq(Node!request) /\ Len(pending') = Len(pending) + 1 /\ Len(pending) \in Nat
        /\ \A i \in 1 .. Len(pending) : pending'[i] = pending[i]
        /\ pending'[Len(pending) + 1] = new(d, l, port, id)
    BY <2>1, <2>3 DEF PortIsId
  <2>5. PortIsId'
    BY <2>2, <2>4 DEF PortIsId
  <2>6. RequestTo(d, port)'
    BY <2>1, <2>2, Zenon DEF RequestTo
  <2>7. d = fa => Asked(port)'
    <3>1. Len(pending) + 1 \in 1 .. Len(pending')
      BY <2>4
    <3> QED  BY <2>4, <3>1 DEF Asked
  <2> QED  BY <2>5, <2>6, <2>7, Zenon
<1>2. 0 \in Node!Word /\ RegLifetime \in Node!Word
  BY ZeroWord, MobileIPAssumption DEF Word, Node!Word
<1>3. CASE a = ha /\ foreign_agent' = ha /\ Node!make_packet(a, 0, "home")
  BY <1>1, <1>2, <1>3
<1>4. CASE a = fa /\ Node!make_packet(a, RegLifetime, "foreign") /\ UNCHANGED foreign_agent
  BY <1>1, <1>2, <1>4, Zenon
<1>5. CASE out' = << >> /\ UNCHANGED <<pending, foreign_agent>>
  BY <1>5, Zenon DEF PortIsId
<1> QED  BY <1>3, <1>4, <1>5, Zenon DEF Node!RegReq_push

\* The timer of pending requests and the replies change no numbers.
LEMMA TickKeepsNumbers ==
  ASSUME PortIsId, Node!RegReq_run_timer PROVE PortIsId'
<1> DEFINE tick(q) == [q EXCEPT !.rem_lt = htons(Minus(ntohs(@), 1))]
           v == [i \in 1 .. Len(pending) |-> tick(pending[i])]
           K == {i \in 1 .. Len(pending) : ntohs(pending[i].rem_lt) > 0}
<1>1. pending \in Seq(Node!request) /\ Len(pending) \in Nat
  BY DEF PortIsId
<1>2. ASSUME NEW i \in 1 .. Len(pending)
      PROVE  tick(pending[i]) \in Node!request /\ tick(pending[i]).port = tick(pending[i]).id
  <2>1. pending[i] \in Node!request /\ pending[i].port = pending[i].id
    BY <1>1 DEF PortIsId
  <2>2. pending[i].rem_lt \in Word
    BY <2>1, Zenon DEF Node!request, Node!Word, Word
  <2>3. htons(Minus(ntohs(pending[i].rem_lt), 1)) \in Word
    BY <2>2, SwapType, MinusType, Zenon
  <2> QED  BY <2>1, <2>3, Zenon DEF Node!request, Node!Word, Word
<1>3. v \in Seq(Node!request) /\ Len(v) = Len(pending)
  BY <1>1, <1>2
<1>4. pending' \in Kept(v, K)
  <2> DEFINE w == [i \in 1 .. Len(pending) |->
                     [pending[i] EXCEPT !.rem_lt = Node!htons(Node!Minus(Node!ntohs(@), 1))]]
             L == {i \in 1 .. Len(pending) : Node!ntohs(pending[i].rem_lt) > 0}
  <2>1. pending' \in Node!Kept(w, L)
    BY Zenon DEF Node!RegReq_run_timer
  <2>2. \A q : Node!ntohs(q) = ntohs(q) /\ Node!htons(q) = htons(q) /\ Node!Minus(q, 1) = Minus(q, 1)
    BY DEF Node!htons, htons, Node!ntohs, ntohs, Node!Minus, Minus
  <2>3. w = v /\ L = K
    BY <2>2, Zenon
  <2> HIDE DEF v, w, K, L
  <2> QED  BY <2>1, <2>3, SameVectors, Zenon
<1>5. \A j \in 1 .. Len(v) : v[j].port = v[j].id
  BY <1>2, <1>3, Zenon
<1>6. K \in SUBSET (1 .. Len(v))
  BY <1>3, Zenon
<1> HIDE DEF v, K
<1>7. pending' \in Seq(Node!request) /\ \E f : Selects(f, pending', v, K)
  BY <1>3, <1>4, <1>6, KeptType, KeptPositions, Zenon
<1> QED  BY <1>5, <1>7 DEF PortIsId, Selects

\* RegNode::push erases at most one pending request, so ports and
\* identifications of the others still agree.
LEMMA ReplyKeepsNumbers ==
  ASSUME PortIsId, NEW r, Node!RegNode_push(r) PROVE PortIsId'
<1>1. CASE UNCHANGED pending
  BY <1>1, Zenon DEF PortIsId
<1>2. ASSUME NEW k \in 1 .. Len(pending), pending' = erase(pending, k)
      PROVE  PortIsId'
  <2>1. pending \in Seq(Node!request) /\ Len(pending) \in Nat
    BY DEF PortIsId
  <2>2. pending' \in Seq(Node!request)
    BY <1>2, <2>1, EraseType
  <2>3. pending' = [j \in 1 .. (Len(pending) - 1) |-> IF j < k THEN pending[j] ELSE pending[j + 1]]
    BY <1>2, Zenon DEF erase
  <2>4. Len(pending') = Len(pending) - 1
    BY <2>1, <2>3
  <2> QED  BY <2>1, <2>2, <2>3, <2>4 DEF PortIsId
<1>3. \/ UNCHANGED pending
      \/ \E k \in 1 .. Len(pending) : pending' = erase(pending, k)
  BY Zenon DEF Node!RegNode_push, Node!pending_after, Node!erase, erase
<1> QED  BY <1>1, <1>2, <1>3, Zenon

-----------------------------------------------------------------------------
\* The stages of a registration and of a deregistration while nothing goes
\* wrong; requests of fa holds the one that is on its way, if it passed fa.
Agreed == Tunnelled <=> foreign_agent = fa
Passed(n) ==
  \E ag, id, lt, rem : requests = <<[ip_src |-> mn, udp_src |-> n, home_agent |-> ag, id |-> id,
                                     requested_lifetime |-> lt, remaining_lifetime |-> rem]>>

Idle == out = << >> /\ requests = << >> /\ Agreed
Leaving == \E n : RequestTo(ha, n) /\ requests = << >> /\ foreign_agent = ha
Left ==
  /\ \E n, lt : out = <<[from |-> ha, dst |-> mn, port |-> n, id |-> n, lifetime |-> lt]>>
  /\ requests = << >> /\ Agreed
Entering(n) == RequestTo(fa, n) /\ requests = << >> /\ Agreed /\ Asked(n)
Forwarded(n) ==
  /\ \E lt : out = <<[to |-> "home", dst |-> ha, home_address |-> mn, lifetime |-> lt,
                       id |-> n, flags |-> {}]>>
  /\ Passed(n) /\ Agreed /\ Asked(n)
Granted(n) ==
  /\ \E lt : out = <<[from |-> ha, dst |-> fa, id |-> n, lifetime |-> lt]>>
  /\ Passed(n) /\ Tunnelled /\ Asked(n)
Told(n) ==
  /\ \E lt : out = <<[to |-> "mobile", dst |-> mn, port |-> n, code |-> 0, lifetime |-> lt, id |-> n]>>
  /\ requests = << >> /\ Tunnelled /\ Asked(n)

Stage ==
  \/ Idle \/ Leaving \/ Left
  \/ \E n : Entering(n) \/ Forwarded(n) \/ Granted(n) \/ Told(n)

\* The inductive invariant behind InStep.
Orderly ==
  /\ route \in [{mn} -> {mn, fa}] /\ mishap \in BOOLEAN /\ PortIsId
  /\ ~ mishap => late = None /\ Stage

\* At the start the node has no agent, the home agent no binding and the
\* relay no request.
LEMMA OrderlyAtFirst == Init => Orderly
<1> SUFFICES ASSUME Init PROVE Orderly
  OBVIOUS
<1>1. PortIsId /\ out = << >> /\ requests = << >> /\ late = None /\ mishap = FALSE
  BY DEF Init, Node!Init, Relay!Init, PortIsId
<1>2. route = [h \in {mn} |-> h] /\ foreign_agent = None
  BY Zenon DEF Init, Node!Init, Home!Init
<1> QED
  BY <1>1, <1>2, MobileIPAssumption, Zenon DEF Orderly, Stage, Idle, Agreed, Tunnelled

\* Steps of the node that start while nothing is in flight and may end with
\* a request.
LEMMA NodeStepOrderly ==
  ASSUME Orderly, Quiet, NodeStep, PortIsId',
         \/ out' = << >> /\ UNCHANGED foreign_agent
         \/ \E n : RequestTo(fa, n)' /\ Asked(n)' /\ UNCHANGED foreign_agent
         \/ \E n : RequestTo(ha, n)' /\ foreign_agent' = ha
  PROVE  Orderly'
<1>1. UNCHANGED <<requests, route, late, mishap>>
  BY Zenon DEF NodeStep, relayVars
<1> SUFFICES ASSUME ~ mishap PROVE Stage'
  BY <1>1, Zenon DEF Orderly
<1>2. Idle
  BY DEF Orderly, Stage, Quiet, Idle, Leaving, Left, Entering, Forwarded, Granted, Told, RequestTo
<1>3. CASE out' = << >> /\ UNCHANGED foreign_agent
  BY <1>1, <1>2, <1>3 DEF Stage, Idle, Agreed, Tunnelled
<1>4. ASSUME NEW n, RequestTo(fa, n)', Asked(n)', UNCHANGED foreign_agent
      PROVE  Stage'
  <2>1. Entering(n)'
    BY <1>1, <1>2, <1>4, Zenon DEF Entering, Idle, Agreed, Tunnelled
  <2> QED  BY <2>1, Zenon DEF Stage
<1>5. ASSUME NEW n, RequestTo(ha, n)', foreign_agent' = ha
      PROVE  Stage'
  <2>1. Leaving'
    BY <1>1, <1>2, <1>5, Zenon DEF Leaving, Idle
  <2> QED  BY <2>1 DEF Stage
<1> QED  BY <1>3, <1>4, <1>5

\* What is in flight tells the stage.
LEMMA StageInFlight ==
  ASSUME Stage
  PROVE  /\ Quiet => Idle
         /\ Request /\ out[1].dest = ha => Leaving
         /\ Request /\ out[1].dest = fa => \E n : Entering(n)
         /\ Relayed => \E n : Forwarded(n)
         /\ HomeAnswer /\ out[1].dst = fa => \E n : Granted(n)
         /\ HomeAnswer /\ out[1].dst = mn => Left
         /\ Answer => \E n : Told(n)
<1> USE MobileIPAssumption DEF Quiet, Request, Relayed, HomeAnswer, Answer
<1>1. CASE Idle
  BY <1>1, Zenon DEF Idle
<1>2. CASE Leaving
  <2>1. Request /\ out[1].dest = ha /\ ~ Quiet /\ ~ Relayed /\ ~ HomeAnswer /\ ~ Answer
    BY <1>2 DEF Leaving, RequestTo
  <2> QED  BY <1>2, <2>1, Zenon
<1>3. CASE Left
  <2>1. HomeAnswer /\ out[1].dst = mn /\ ~ Quiet /\ ~ Request /\ ~ Relayed /\ ~ Answer
    BY <1>3 DEF Left
  <2> QED  BY <1>3, <2>1, Zenon
<1>4. ASSUME NEW n, Entering(n) \/ Forwarded(n) \/ Granted(n) \/ Told(n)
      PROVE  /\ ~ Quiet
             /\ Request => Entering(n) /\ out[1].dest = fa
             /\ Relayed => Forwarded(n)
             /\ HomeAnswer => Granted(n) /\ out[1].dst = fa
             /\ Answer => Told(n)
  <2>1. CASE Entering(n)
    <3>1. Request /\ out[1].dest = fa /\ ~ Quiet /\ ~ Relayed /\ ~ HomeAnswer /\ ~ Answer
      BY SMTT(30), <2>1 DEF Entering, RequestTo
    <3> QED  BY <2>1, <3>1, Zenon
  <2>2. CASE Forwarded(n)
    <3>1. ~ Quiet /\ ~ Request /\ ~ HomeAnswer /\ ~ Answer
      BY SMTT(30), <2>2 DEF Forwarded
    <3> QED  BY <2>2, <3>1, Zenon
  <2>3. CASE Granted(n)
    <3>1. out[1].dst = fa /\ ~ Quiet /\ ~ Request /\ ~ Relayed /\ ~ Answer
      BY SMTT(30), <2>3 DEF Granted
    <3> QED  BY <2>3, <3>1, Zenon
  <2>4. CASE Told(n)
    <3>1. Answer /\ ~ Quiet /\ ~ Request /\ ~ Relayed /\ ~ HomeAnswer
      BY <2>4 DEF Told
    <3> QED  BY <2>4, <3>1, Zenon
  <2> QED  BY SMTT(30), <1>4, <2>1, <2>2, <2>3, <2>4
<1> QED  BY <1>1, <1>2, <1>3, <1>4, Zenon DEF Stage

\* The relay takes a request over, and hands its answer on to the port it
\* came from: no other request of the node is on its list.
LEMMA RelayStep ==
  ASSUME Orderly, ~ mishap, RelayHearsRequest \/ RelayHearsAnswer \/ RelayAges
  PROVE  Orderly'
<1>1. UNCHANGED <<pending, foreign_agent, route, late, mishap>>
  BY Zenon DEF RelayHearsRequest, RelayHearsAnswer, RelayAges, nodeVars
<1>2. PortIsId' /\ \A n : Asked(n)' <=> Asked(n)
  BY <1>1, Zenon DEF Orderly, PortIsId, Asked
<1>3. SUFFICES Stage'
  BY <1>1, <1>2, Zenon DEF Orderly
<1>4. CASE RelayHearsRequest
  <2>1. PICK n : Entering(n)
    BY <1>4, StageInFlight, Zenon DEF Orderly, RelayHearsRequest
  <2>2. requests = << >> /\ out[1].id = n /\ out[1].port = n
    BY <2>1 DEF Entering, RequestTo
  <2> DEFINE p == [intact |-> TRUE, home_address |-> mn, home_agent |-> ha, port |-> n,
                   id |-> n, lifetime |-> out[1].lifetime, flags |-> {}]
  <2>3. Relay!relayReq(p)
    BY <1>4, <2>2, Zenon DEF RelayHearsRequest
  <2>4. Relay!reject_code(p) = 0 /\ p.intact
    BY SMTT(30) DEF Relay!reject_code
  <2>5. requests' = Append(<< >>, Relay!pending_entry(p)) /\ out' = <<Relay!ToHome(p)>>
    BY <2>2, <2>3, <2>4, Zenon DEF Relay!relayReq
  <2>6. requests' = <<Relay!pending_entry(p)>>
    BY SMTT(30), <2>5
  <2>7. Passed(n)'
    BY <2>6, Zenon DEF Passed, Relay!pending_entry
  <2>8. Forwarded(n)'
    BY <1>1, <1>2, <2>1, <2>5, <2>7, Zenon DEF Forwarded, Entering, Relay!ToHome, Agreed, Tunnelled
  <2> QED  BY <2>8, Zenon DEF Stage
<1>5. CASE RelayHearsAnswer
  <2>1. PICK n : Granted(n)
    BY <1>5, StageInFlight, Zenon DEF Orderly, RelayHearsAnswer
  <2>2. Passed(n) /\ out[1].id = n
    BY <2>1 DEF Granted
  <2> DEFINE r == [intact |-> TRUE, home_address |-> mn, code |-> 0,
                   lifetime |-> out[1].lifetime, id |-> n]
             at == {i \in 1 .. Len(requests) : requests[i].ip_src = mn}
  <2>3. Relay!relayRep(r)
    BY <1>5, <2>2, Zenon DEF RelayHearsAnswer
  <2>4. Len(requests) = 1 /\ requests[1].ip_src = mn /\ requests[1].udp_src = n
    BY <2>2 DEF Passed
  <2>5. at = {1}
    BY <2>4
  <2>6. /\ requests' = Relay!erase(requests, 1)
        /\ out' = <<Relay!ToMobile(mn, Relay!port_of_slot(1), 0, out[1].lifetime, n)>>
    BY <2>3, <2>5, Zenon DEF Relay!relayRep
  <2>7. requests' = << >>
    BY <2>4, <2>6 DEF Relay!erase
  <2>8. Relay!port_of_slot(1) = n
    BY <2>4 DEF Relay!port_of_slot
  <2>9. Told(n)'
    BY <1>1, <1>2, <2>1, <2>6, <2>7, <2>8, Zenon DEF Told, Granted, Relay!ToMobile, Tunnelled
  <2> QED  BY <2>9, Zenon DEF Stage
<1>6. CASE RelayAges
  <2>1. Idle
    BY <1>6, StageInFlight DEF Orderly, RelayAges
  <2>2. requests = << >> /\ Relay!age_requests
    BY <1>6, <2>1, Zenon DEF Idle, RelayAges, Relay!run_timer
  <2>3. /\ requests' \in Relay!Kept([i \in 1 .. 0 |-> Relay!ticked(requests[i])], {})
        /\ out' = << >>
    BY <2>2 DEF Relay!age_requests
  <2>4. Cardinality({}) = 0
    BY FS_EmptySet, Zenon
  <2>5. requests' = << >>
    BY <2>3, <2>4, SameVectors DEF Kept
  <2>6. Idle'
    BY <1>1, <2>1, <2>3, <2>5, Zenon DEF Idle, Agreed, Tunnelled
  <2> QED  BY <2>6, Zenon DEF Stage
<1> QED  BY <1>4, <1>5, <1>6, Zenon

\* The steps of the node that may ask an agent.
LEMMA AskingStep ==
  ASSUME Orderly,
         \/ \E n \in SeqNr : Advertise(n)
         \/ AdvertisementAges \/ PendingAges \/ RegistrationAges \/ AttemptAges
  PROVE  Orderly'
<1>1. Quiet /\ NodeStep /\ (out' # << >> => NewRequest) /\ PortIsId
  BY DEF Advertise, AdvertisementAges, PendingAges, RegistrationAges, AttemptAges, NodeStep, Orderly
<1>2. \/ \E a, lt : Node!RegReq_push(a, lt)
      \/ out' = << >> /\ UNCHANGED foreign_agent /\ (UNCHANGED pending \/ Node!RegReq_run_timer)
  <2>1. CASE \E n \in SeqNr : Advertise(n)
    BY <2>1, Zenon DEF Advertise, Node!ProcessAdvertisements_push
  <2>2. CASE AdvertisementAges
    BY <2>2 DEF AdvertisementAges, Node!ProcessAdvertisements_run_timer
  <2>3. CASE PendingAges
    BY <2>3, Zenon DEF PendingAges, Node!RegReq_run_timer
  <2>4. CASE RegistrationAges
    BY <2>4, Zenon DEF RegistrationAges, Node!RegNode_run_timer
  <2>5. CASE AttemptAges
    BY <2>5, Zenon DEF AttemptAges, Node!AttemptAges
  <2> QED  BY <2>1, <2>2, <2>3, <2>4, <2>5, Zenon
<1>3. CASE \E a, lt : Node!RegReq_push(a, lt)
  BY <1>1, <1>3, RequestNumbers, NodeStepOrderly, Zenon
<1>4. CASE out' = << >> /\ UNCHANGED foreign_agent /\ (UNCHANGED pending \/ Node!RegReq_run_timer)
  <2>1. PortIsId'
    BY <1>1, <1>4, TickKeepsNumbers DEF PortIsId
  <2> QED  BY <1>1, <1>4, <2>1, NodeStepOrderly, Zenon
<1> QED  BY <1>2, <1>3, <1>4, Zenon

\* The home agent's steps open and close the tunnel.
LEMMA HomeStep ==
  ASSUME Orderly, HomeHearsRequest \/ HomeHearsRelayed \/ HomeHearsLate
  PROVE  Orderly'
<1>1. UNCHANGED <<pending, foreign_agent, requests, mishap>>
  <2>1. UNCHANGED <<nodeVars, relayVars, mishap>>
    BY Zenon DEF HomeHearsRequest, HomeHearsRelayed, HomeHearsLate, Register
  <2> QED  BY <2>1, Zenon DEF nodeVars, relayVars
<1>2. PortIsId' /\ \A n : (Asked(n)' <=> Asked(n)) /\ (Passed(n)' <=> Passed(n))
  BY <1>1, Zenon DEF Orderly, PortIsId, Asked, Passed
<1>3. CASE HomeHearsRequest
  <2>1. route' = [route EXCEPT ![mn] = mn] /\ UNCHANGED late
    BY <1>3 DEF HomeHearsRequest, Home!Deregister
  <2>2. route' \in [{mn} -> {mn, fa}] /\ ~ Tunnelled'
    BY <2>1, MobileIPAssumption, Zenon DEF Orderly, Tunnelled
  <2>3. ASSUME ~ mishap PROVE Stage'
    <3>1. Leaving
      BY <1>3, <2>3, StageInFlight, Zenon DEF Orderly, HomeHearsRequest
    <3>2. requests = << >> /\ foreign_agent = ha /\ out[1].port = out[1].id
      BY SMTT(30), <3>1 DEF Leaving, RequestTo
    <3>3. Left'
      BY <1>1, <1>3, <2>2, <3>2, MobileIPAssumption, Zenon DEF HomeHearsRequest, Left, Agreed
    <3> QED  BY <3>3, Zenon DEF Stage
  <2> QED  BY <1>1, <1>2, <2>1, <2>2, <2>3, Zenon DEF Orderly
<1>4. ASSUME NEW p, Register(p)
      PROVE  route' \in [{mn} -> {mn, fa}] /\ Tunnelled'
  BY <1>4, Zenon DEF Register, Home!Register, Orderly, Tunnelled
<1>5. CASE HomeHearsRelayed
  <2>1. route' \in [{mn} -> {mn, fa}] /\ Tunnelled' /\ UNCHANGED late
    BY <1>4, <1>5 DEF HomeHearsRelayed
  <2>2. ASSUME ~ mishap PROVE Stage'
    <3>1. PICK n : Forwarded(n)
      BY <1>5, <2>2, StageInFlight, Zenon DEF Orderly, HomeHearsRelayed
    <3>2. out[1].id = n
      BY SMTT(30), <3>1 DEF Forwarded
    <3>3. Granted(n)'
      BY <1>2, <1>5, <2>1, <3>1, <3>2, Zenon DEF Granted, Forwarded, HomeHearsRelayed, Register
    <3> QED  BY <3>3, Zenon DEF Stage
  <2> QED  BY <1>1, <1>2, <2>1, <2>2, Zenon DEF Orderly
<1>6. CASE HomeHearsLate
  <2>1. mishap
    BY <1>6, Zenon DEF HomeHearsLate, Orderly
  <2> QED  BY <1>1, <1>2, <1>4, <1>6, <2>1, Zenon DEF HomeHearsLate, Orderly
<1> QED  BY <1>3, <1>5, <1>6, Zenon

\* The node accepts the reply to what it asked for.
LEMMA ReplyStep ==
  ASSUME Orderly, NodeHearsAnswer PROVE Orderly'
<1>1. UNCHANGED <<requests, route, late, mishap>> /\ out' = << >>
  BY ZenonT(30) DEF NodeHearsAnswer, NodeHears, NodeStep, relayVars, Node!RegNode_push
<1>2. PortIsId'
  BY ReplyKeepsNumbers, Zenon DEF Orderly, NodeHearsAnswer, NodeHears
<1> SUFFICES ASSUME ~ mishap PROVE Idle'
  BY <1>1, <1>2, Zenon DEF Orderly, Stage
<1>3. CASE Answer /\ NodeHears(fa, out[1].code)
  <2>1. PICK n : Told(n)
    BY <1>3, StageInFlight, Zenon DEF Orderly
  <2>2. out[1].port = n /\ out[1].id = n /\ out[1].code = 0 /\ Asked(n)
    BY SMTT(30), <2>1 DEF Told
  <2>3. foreign_agent' = fa
    <3> DEFINE r == [src |-> fa, port |-> n, id |-> n, code |-> 0,
                     lifetime |-> out[1].lifetime, intact |-> TRUE]
               at == {i \in 1 .. Len(pending) : pending[i].dest = fa /\ pending[i].port = n}
    <3>1. Node!RegNode_push(r)
      BY <1>3, <2>2, Zenon DEF NodeHears
    <3>2. at # {} /\ \A i \in at : pending[i].id = n
      BY <2>2, Zenon DEF Asked, Orderly, PortIsId
    <3> QED  BY ZenonT(30), <3>1, <3>2, MobileIPAssumption DEF Node!RegNode_push, Node!accepts
  <2> QED  BY <1>1, <2>1, <2>3, Zenon DEF Told, Idle, Agreed, Tunnelled
<1>4. CASE HomeAnswer /\ out[1].dst = mn /\ NodeHears(ha, 0)
  <2>1. Left
    BY ZenonT(30), <1>4, StageInFlight DEF Orderly
  <2>2. UNCHANGED foreign_agent
    BY <1>4, Zenon DEF NodeHears, Node!RegNode_push
  <2> QED  BY <1>1, <2>1, <2>2, Zenon DEF Left, Idle, Agreed, Tunnelled
<1> QED  BY <1>3, <1>4, Zenon DEF NodeHearsAnswer

\* Every step takes an exchange to its next stage or, with a mishap, out of
\* the invariant's reach.
LEMMA OrderlyStep == Orderly /\ [Next]_vars => Orderly'
<1> SUFFICES ASSUME Orderly, [Next]_vars PROVE Orderly'
  OBVIOUS
<1>1. CASE RelayHearsRequest \/ RelayHearsAnswer \/ RelayAges
  <2>1. CASE mishap
    <3>1. UNCHANGED <<pending, route, mishap>>
      BY <1>1, Zenon DEF RelayHearsRequest, RelayHearsAnswer, RelayAges, nodeVars
    <3> QED  BY <2>1, <3>1, Zenon DEF Orderly, PortIsId
  <2> QED  BY <1>1, <2>1, RelayStep, Zenon
<1>2. CASE Lose \/ HoldUp
  <2>1. UNCHANGED <<pending, foreign_agent, requests, route>> /\ out' = << >>
    BY <1>2 DEF Lose, HoldUp, nodeVars, relayVars
  <2>2. PortIsId' /\ mishap' \in BOOLEAN /\ (mishap => mishap')
    BY <1>2, <2>1, Zenon DEF Orderly, PortIsId, Lose, HoldUp
  <2>3. ASSUME ~ mishap' PROVE Idle' /\ UNCHANGED late /\ ~ mishap
    <3>1. Lose /\ Request /\ out[1].dest = fa /\ ~ mishap
      BY <1>2, <2>3, Zenon DEF Lose, HoldUp
    <3>2. PICK n : Entering(n)
      BY <3>1, StageInFlight, Zenon DEF Orderly
    <3> QED  BY <2>1, <3>1, <3>2, Zenon DEF Entering, Idle, Agreed, Tunnelled, Lose
  <2> QED  BY <2>1, <2>2, <2>3, Zenon DEF Orderly, Stage
<1>3. CASE UNCHANGED <<nodeVars, relayVars, route, out, late, mishap>>
  <2>1. UNCHANGED <<pending, foreign_agent, requests, route, out, late, mishap>>
    BY <1>3, Zenon DEF nodeVars, relayVars
  <2>2. PortIsId' <=> PortIsId
    BY <2>1, Zenon DEF PortIsId
  <2>3. (Idle' <=> Idle) /\ (Leaving' <=> Leaving) /\ (Left' <=> Left)
    BY <2>1, Zenon DEF Idle, Leaving, Left, RequestTo, Agreed, Tunnelled
  <2>4. ASSUME NEW n
        PROVE  /\ Entering(n)' <=> Entering(n)
               /\ Forwarded(n)' <=> Forwarded(n)
               /\ Granted(n)' <=> Granted(n)
               /\ Told(n)' <=> Told(n)
    <3>1. /\ (Asked(n)' <=> Asked(n)) /\ (Passed(n)' <=> Passed(n))
          /\ RequestTo(fa, n)' <=> RequestTo(fa, n)
      BY <2>1, Zenon DEF Asked, Passed, RequestTo
    <3> QED  BY ZenonT(30), <2>1, <3>1 DEF Entering, Forwarded, Granted, Told, Agreed, Tunnelled
  <2>5. Stage' <=> Stage
    BY <2>3, <2>4, Zenon DEF Stage
  <2> QED  BY <2>1, <2>2, <2>5 DEF Orderly
<1>4. CASE write_switch
  BY <1>3, <1>4, Zenon DEF write_switch
<1>5. CASE UNCHANGED vars
  BY <1>3, <1>5, Zenon DEF vars
<1> QED
  BY SMTT(30), <1>1, <1>2, <1>4, <1>5, AskingStep, HomeStep, ReplyStep DEF Next, Stay, Timers, Deliver

\* Until a packet other than a request to fa is lost or held up, node and
\* home agent agree on the tunnel whenever nothing is in flight: the reply
\* that Relay::relayRep forwards finds the request it answers.
THEOREM NodeAndHomeAgentAgree == Spec => []InStep
<1>1. Orderly => InStep
  BY StageInFlight, Zenon DEF Orderly, InStep, Idle, Agreed
<1> QED  BY <1>1, OrderlyAtFirst, OrderlyStep, PTL DEF Spec

-----------------------------------------------------------------------------
\* What TypeOK needs besides Orderly and Fitting.
Typed ==
  /\ down \in {up, None}
  /\ foreign_agent \in {ha, fa, None} /\ lifetime \in Word

\* RegReq::push gives up the agent for none but the home agent.
LEMMA AskingTyped ==
  ASSUME NEW a, NEW lt \in Word, foreign_agent \in {ha, fa, None}, Node!RegReq_push(a, lt)
  PROVE  foreign_agent' \in {ha, fa, None} /\ lifetime' \in Word
<1>1. 0 \in Word
  BY ZeroWord, Zenon
<1> QED  BY <1>1, Zenon DEF Node!RegReq_push

\* RegNode::push computes the lifetime in sixteen bits.
LEMMA ReplyTyped ==
  ASSUME PortIsId, Typed, NEW r \in Node!Reply, Node!RegNode_push(r)
  PROVE  foreign_agent' \in {ha, fa, None} /\ lifetime' \in Word
<1>1. CASE UNCHANGED <<foreign_agent, lifetime>>
  BY <1>1, Zenon DEF Typed
<1>2. ASSUME NEW i \in 1 .. Len(pending), foreign_agent' = r.src,
             lifetime' = Node!granted_lifetime(pending[i], r)
      PROVE  foreign_agent' \in {ha, fa, None} /\ lifetime' \in Word
  <2>1. pending[i] \in Node!request
    BY DEF PortIsId
  <2>2. pending[i].rem_lt \in Word /\ pending[i].req_lt \in Word
    BY <2>1, Zenon DEF Node!request, Node!Word, Word
  <2>3. \A w, x : Node!Minus(w, x) = Minus(w, x)
    BY Zenon DEF Node!Minus, Minus
  <2>4. lifetime' = Minus(pending[i].rem_lt, Minus(pending[i].req_lt, r.lifetime))
    BY <1>2, <2>3, Zenon DEF Node!granted_lifetime
  <2>5. r.src \in {ha, fa} /\ r.lifetime \in Word
    BY ZeroWord, MobileIPAssumption DEF Node!Reply
  <2> QED  BY <1>2, <2>2, <2>4, <2>5, MinusWord, Zenon
<1>3. \/ UNCHANGED <<foreign_agent, lifetime>>
      \/ \E i \in 1 .. Len(pending) :
           foreign_agent' = r.src /\ lifetime' = Node!granted_lifetime(pending[i], r)
  BY ZenonT(30) DEF Node!RegNode_push
<1> QED  BY <1>1, <1>2, <1>3, Zenon

\* Every step of the node keeps its types.
LEMMA NodeTyped ==
  ASSUME PortIsId, Typed, Node!Next
  PROVE  foreign_agent' \in {ha, fa, None} /\ lifetime' \in Word
<1>1. foreign_agent \in {ha, fa, None} /\ lifetime \in Word
  BY Zenon DEF Typed
<1>2. ASSUME NEW ad, Node!ProcessAdvertisements_push(ad)
      PROVE  foreign_agent' \in {ha, fa, None} /\ lifetime' \in Word
  <2>1. \/ \E a : Node!RegReq_push(a, lifetime)
        \/ UNCHANGED <<foreign_agent, lifetime>>
    BY <1>2, Zenon DEF Node!ProcessAdvertisements_push
  <2> QED  BY <1>1, <2>1, AskingTyped, Zenon
<1>3. ASSUME NEW i, Node!ProcessAdvertisements_run_timer(i)
      PROVE  foreign_agent' \in {ha, fa, None} /\ lifetime' \in Word
  BY <1>1, <1>3, AskingTyped, Zenon DEF Node!ProcessAdvertisements_run_timer
<1>4. CASE Node!RegReq_run_timer \/ Node!Solicitation_run_timer \/ Node!MNInfo_push \/ Node!AttemptAges
  BY <1>1, <1>4, Zenon DEF Node!RegReq_run_timer, Node!Solicitation_run_timer, Node!MNInfo_push,
     Node!AttemptAges
<1>5. CASE Node!RegNode_run_timer
  <2>1. lifetime > 0 => lifetime - 1 \in Word
    BY SMTT(30), <1>1, ByteAssumption DEF Word
  <2> QED  BY <1>1, <1>5, <2>1, AskingTyped, Zenon DEF Node!RegNode_run_timer
<1> QED
  BY <1>2, <1>3, <1>4, <1>5, ReplyTyped, Zenon DEF Node!Next

\* Every step of the composition keeps the types: what changes the node's
\* state is a step of the node.
LEMMA TypedStep == Orderly /\ Fitting /\ Typed /\ [Next]_vars => Typed'
<1> SUFFICES ASSUME Orderly, Fitting, Typed, [Next]_vars PROVE Typed'
  OBVIOUS
<1>1. foreign_agent' \in {ha, fa, None} /\ lifetime' \in Word
  <2>1. CASE UNCHANGED nodeVars
    BY <2>1 DEF nodeVars, Typed
  <2> QED  BY <2>1, StepFits, NodeTyped, Zenon DEF Fits, Orderly
<1>2. down' \in {up', None}
  <2>1. CASE write_switch
    BY <2>1 DEF write_switch, Typed
  <2>2. CASE UNCHANGED placeVars
    BY <2>2 DEF placeVars, Typed
  <2>3. write_switch \/ UNCHANGED placeVars
    <3>1. CASE (\E n \in SeqNr : Advertise(n)) \/ Timers
      BY <3>1, Zenon DEF Advertise, Timers, AdvertisementAges, PendingAges, RegistrationAges,
                         AttemptAges, RelayAges, NodeStep
    <3>2. CASE Deliver \/ HomeHearsLate \/ Lose \/ HoldUp
      BY <3>2, Zenon DEF Deliver, RelayHearsRequest, HomeHearsRequest, HomeHearsRelayed,
                         RelayHearsAnswer, NodeHearsAnswer, NodeHears, NodeStep, HomeHearsLate,
                         Register, Lose, HoldUp
    <3>3. CASE UNCHANGED vars
      BY <3>3, Zenon DEF vars
    <3> QED  BY <3>1, <3>2, <3>3, Zenon DEF Next, Stay
  <2> QED  BY <2>1, <2>2, <2>3, Zenon
<1> QED  BY <1>1, <1>2, Zenon DEF Typed

\* Type correctness of the composition: one packet at a time, and the lifetime
\* that RegNode::push computes from a reply stays within its sixteen bits.
THEOREM TypeCorrect == Spec => []TypeOK
<1>1. Init => Typed
  BY ZeroWord DEF Init, Node!Init, Typed
<1>2. Orderly /\ Fitting /\ Typed => TypeOK
  <2>1. Fitting => Len(out) <= 1 /\ up \in {ha, fa}
    <3>1. Len(<< >>) <= 1 /\ \A p : Len(<<p>>) <= 1
      OBVIOUS
    <3> QED  BY <3>1, Zenon DEF Fitting, InOut
  <2> QED  BY <2>1, Zenon DEF Orderly, Typed, TypeOK
<1> QED
  BY <1>1, <1>2, OrderlyAtFirst, OrderlyStep, FittingAtFirst, FittingStep, TypedStep, PTL DEF Spec
=============================================================================
