-------------------------- MODULE MobileNodeProofs --------------------------
(***************************************************************************)
(* Proofs about the mobile node, for any set of agents, ports,             *)
(* identifications and lifetimes.                                          *)
(***************************************************************************)
EXTENDS MobileNode, ClickLemmas

Timer == [address : Agent, scheduled : BOOLEAN]

-----------------------------------------------------------------------------
\* Sending a request keeps pending and out well formed (RegReq::make_packet).
LEMMA MakePacketType ==
  ASSUME TypeOK, NEW dest \in Agent, NEW lt \in Word, NEW coa \in {"home", "foreign"},
         make_packet(dest, lt, coa)
  PROVE  pending' \in Seq(request) /\ out' \in Seq(Packet)
<1>1. PICK port \in Port, id \in Id :
        /\ pending' = Append(pending, [dest |-> dest, id |-> id, req_lt |-> lt,
                                       rem_lt |-> lt, port |-> port])
        /\ out' = <<[kind |-> "request", dest |-> dest, lifetime |-> lt,
                     coa |-> coa, port |-> port, id |-> id]>>
  BY DEF make_packet
<1>2. [dest |-> dest, id |-> id, req_lt |-> lt, rem_lt |-> lt, port |-> port] \in request
  BY DEF request
<1>3. [kind |-> "request", dest |-> dest, lifetime |-> lt,
       coa |-> coa, port |-> port, id |-> id] \in Packet
  BY DEF Packet
<1> QED
  BY <1>1, <1>2, <1>3 DEF TypeOK

\* The part of the type invariant that RegReq::push settles.
RegReqTyped ==
  /\ pending \in Seq(request)
  /\ out \in Seq(Packet)
  /\ foreign_agent \in Agent \cup {NoAgent}
  /\ lifetime \in Word

\* RegReq::push keeps that part, and never makes an agent no agent.
LEMMA RegReqPushType ==
  ASSUME TypeOK, NEW a \in Agent, NEW lt \in Word, RegReq_push(a, lt)
  PROVE  RegReqTyped' /\ (foreign_agent \in Agent => foreign_agent' \in Agent)
<1>1. CASE /\ foreign_agent' = Gateway
           /\ lifetime' = 0
           /\ make_packet(a, 0, "home")
  BY <1>1, MakePacketType, ZeroWord, MobileNodeAssumption DEF RegReqTyped, TypeOK
<1>2. CASE /\ make_packet(a, RegLifetime, "foreign")
           /\ lifetime' = lt
           /\ UNCHANGED foreign_agent
  BY <1>2, MakePacketType, MobileNodeAssumption DEF RegReqTyped, TypeOK
<1>3. CASE /\ lifetime' = lt
           /\ out' = << >>
           /\ UNCHANGED <<pending, foreign_agent>>
  BY <1>3 DEF RegReqTyped, TypeOK
<1> QED
  BY <1>1, <1>2, <1>3 DEF RegReq_push

\* The timers left once an agent's has been looked for: the old ones, or all
\* but that agent's, each with its address.
LEMMA WithoutTimer ==
  ASSUME TypeOK, NEW a \in Agent, NEW ts \in without_timer(a)
  PROVE  /\ ts \in Seq(Timer)
         /\ \/ ts = timers
            \/ \E i \in 1 .. Len(timers) : timers[i].address = a /\ ts = erase_timer(timers, i)
<1>1. timers \in Seq(Timer)
  BY DEF TypeOK, Timer
<1>2. \/ ts = timers
      \/ \E i \in 1 .. Len(timers) : timers[i].address = a /\ ts = erase_timer(timers, i)
  BY DEF without_timer
<1>3. ASSUME NEW i \in 1 .. Len(timers)
      PROVE  erase_timer(timers, i) \in Seq(Timer)
  <2>1. Len(timers) - 1 \in Nat
    BY <1>1
  <2>2. ASSUME NEW j \in 1 .. (Len(timers) - 1)
        PROVE  /\ timers[j] \in Timer
               /\ [timers[j + 1] EXCEPT !.scheduled = FALSE] \in Timer
    <3>1. timers[j] \in Timer /\ timers[j + 1] \in Timer
      BY <1>1, <2>1
    <3> QED
      BY <3>1 DEF Timer
  <2> QED
    BY <2>1, <2>2 DEF erase_timer
<1> QED
  BY <1>1, <1>2, <1>3

\* Adding a timer keeps the type, whether or not the vector grows, and
\* keeps the addresses of the timers before it.
LEMMA PushTimer ==
  ASSUME NEW ts \in Seq(Timer), NEW a \in Agent
  PROVE  /\ push_timer(ts, a) \in Seq(Timer)
         /\ Len(push_timer(ts, a)) = Len(ts) + 1
         /\ \A j \in 1 .. Len(ts) : push_timer(ts, a)[j].address = ts[j].address
         /\ push_timer(ts, a)[Len(ts) + 1].address = a
<1> DEFINE moved == [j \in 1 .. Len(ts) |-> [ts[j] EXCEPT !.scheduled = FALSE]]
           old == IF Len(ts) < capacity THEN ts ELSE moved
           new == [address |-> a, scheduled |-> TRUE]
<1>1. new \in Timer
  BY DEF Timer
<1>2. ASSUME NEW j \in 1 .. Len(ts)
      PROVE  /\ [ts[j] EXCEPT !.scheduled = FALSE] \in Timer
             /\ [ts[j] EXCEPT !.scheduled = FALSE].address = ts[j].address
  <2>1. ts[j] \in Timer
    OBVIOUS
  <2> QED
    BY <2>1 DEF Timer
<1>3. moved \in Seq(Timer) /\ Len(moved) = Len(ts)
  <2>1. Len(ts) \in Nat
    OBVIOUS
  <2> QED
    BY <1>2, <2>1
<1>4. old \in Seq(Timer) /\ Len(old) = Len(ts)
  BY <1>3
<1>5. \A j \in 1 .. Len(ts) : old[j].address = ts[j].address
  BY <1>2
<1>6. push_timer(ts, a) = Append(old, new)
  BY DEF push_timer
<1>7. new.address = a
  OBVIOUS
<1> HIDE DEF old, new
<1> QED
  BY <1>1, <1>4, <1>5, <1>6, <1>7

-----------------------------------------------------------------------------
\* ProcessAdvertisements::push keeps the types.
LEMMA PushType ==
  ASSUME TypeOK, NEW ad \in Advertisement, ProcessAdvertisements_push(ad)
  PROVE  TypeOK'
<1>1. ad.address \in Agent /\ ad.seq_nr \in SeqNr
  BY DEF Advertisement
<1>2. advertisements' \in [Agent -> Stored \cup {NoAd}]
  <2>1. [seq_nr |-> ad.seq_nr, lifetime |-> AdLifetime] \in Stored
    BY <1>1, MobileNodeAssumption DEF Stored
  <2> QED
    BY <1>1, <2>1 DEF ProcessAdvertisements_push, TypeOK
<1>3. timers' \in Seq(Timer) /\ capacity' \in Nat
  <2>1. PICK ts \in without_timer(ad.address) :
          IF ad.busy
          THEN timers' = ts /\ UNCHANGED capacity
          ELSE /\ timers' = push_timer(ts, ad.address)
               /\ capacity' = IF Len(ts) < capacity THEN capacity
                              ELSE IF capacity = 0 THEN InitialCapacity ELSE 2 * capacity
    BY DEF ProcessAdvertisements_push
  <2>2. ts \in Seq(Timer)
    BY <1>1, WithoutTimer
  <2>3. push_timer(ts, ad.address) \in Seq(Timer)
    BY <1>1, <2>2, PushTimer
  <2>4. capacity' \in Nat
    BY <2>1, MobileNodeAssumption DEF TypeOK
  <2> QED
    BY <2>1, <2>2, <2>3, <2>4
<1>4. recent' \in BOOLEAN /\ RegReqTyped' /\ (foreign_agent \in Agent => foreign_agent' \in Agent)
  <2>1. CASE recent' = TRUE /\ RegReq_push(ad.address, lifetime)
    BY <1>1, <2>1, RegReqPushType DEF TypeOK
  <2>2. CASE out' = << >> /\ UNCHANGED <<recent, pending, foreign_agent, lifetime>>
    BY <2>2 DEF TypeOK, RegReqTyped
  <2> QED
    BY <2>1, <2>2 DEF ProcessAdvertisements_push
<1>5. UNCHANGED <<connected, reg_timer, consequent_messages>>
  BY DEF ProcessAdvertisements_push
<1> QED
  BY <1>2, <1>3, <1>4, <1>5 DEF TypeOK, RegReqTyped, Timer

\* ProcessAdvertisements::run_timer keeps the types.
LEMMA AdTimerType ==
  ASSUME TypeOK, NEW i \in 1 .. Len(timers), ProcessAdvertisements_run_timer(i)
  PROVE  TypeOK'
<1> DEFINE a == timers[i].address
           idle == out' = << >> /\ UNCHANGED <<recent, pending, foreign_agent, lifetime>>
<1>1. timers \in Seq(Timer) /\ timers[i] \in Timer /\ a \in Agent
  <2>1. timers \in Seq(Timer)
    BY DEF TypeOK, Timer
  <2>2. timers[i] \in Timer
    BY <2>1
  <2> QED
    BY <2>1, <2>2 DEF Timer
<1>2. UNCHANGED <<connected, capacity, reg_timer, consequent_messages>>
  BY DEF ProcessAdvertisements_run_timer
<1>3. CASE /\ advertisements[a] # NoAd /\ advertisements[a].lifetime > 0
           /\ advertisements' = [advertisements EXCEPT ![a].lifetime = @ - 1]
           /\ \/ recent' = TRUE /\ \E b \in Known : RegReq_push(b, lifetime)
              \/ idle
           /\ UNCHANGED timers
  <2>1. advertisements[a] \in Stored
    BY <1>1, <1>3 DEF TypeOK
  <2>2. [advertisements[a] EXCEPT !.lifetime = @ - 1] \in Stored
    BY <1>3, <2>1, MobileNodeAssumption DEF Stored
  <2>3. advertisements' \in [Agent -> Stored \cup {NoAd}]
    BY <1>1, <1>3, <2>2 DEF TypeOK
  <2>4. recent' \in BOOLEAN /\ RegReqTyped' /\ (foreign_agent \in Agent => foreign_agent' \in Agent)
    <3>1. CASE idle
      BY <3>1 DEF TypeOK, RegReqTyped
    <3>2. CASE recent' = TRUE /\ \E b \in Known : RegReq_push(b, lifetime)
      BY <3>2, RegReqPushType DEF TypeOK, Known
    <3> QED
      BY <1>3, <3>1, <3>2
  <2> QED
    BY <1>2, <1>3, <2>3, <2>4 DEF TypeOK, RegReqTyped
<1>4. CASE /\ timers' = [timers EXCEPT ![i].scheduled = FALSE]
           /\ idle
           /\ UNCHANGED advertisements
  <2>1. [timers[i] EXCEPT !.scheduled = FALSE] \in Timer
    BY <1>1 DEF Timer
  <2>2. timers' \in Seq(Timer)
    BY <1>1, <1>4, <2>1
  <2> QED
    BY <1>2, <1>4, <2>2 DEF TypeOK, Timer
<1> QED
  BY <1>3, <1>4 DEF ProcessAdvertisements_run_timer

\* RegReq::run_timer keeps the types.
LEMMA RequestTimerType ==
  ASSUME TypeOK, RegReq_run_timer
  PROVE  TypeOK'
<1> DEFINE v == [i \in 1 .. Len(pending) |->
                   [pending[i] EXCEPT !.rem_lt = htons(Minus(ntohs(@), 1))]]
           K == {i \in 1 .. Len(pending) : ntohs(pending[i].rem_lt) > 0}
<1>1. pending \in Seq(request) /\ Len(pending) \in Nat
  BY DEF TypeOK
<1>2. ASSUME NEW i \in 1 .. Len(pending)
      PROVE  [pending[i] EXCEPT !.rem_lt = htons(Minus(ntohs(@), 1))] \in request
  <2>1. pending[i] \in request
    BY <1>1
  <2>2. htons(Minus(ntohs(pending[i].rem_lt), 1)) \in Word
    BY <2>1, SwapType, MinusType DEF request
  <2> QED
    BY <2>1, <2>2 DEF request
<1>3. v \in Seq(request) /\ Len(v) = Len(pending)
  BY <1>1, <1>2
<1>4. K \in SUBSET (1 .. Len(v)) /\ pending' \in Kept(v, K)
  BY <1>3 DEF RegReq_run_timer
<1> HIDE DEF v, K
<1>5. pending' \in Seq(request)
  BY <1>3, <1>4, KeptType
<1> QED
  BY <1>5 DEF RegReq_run_timer, TypeOK

\* RegNode::push keeps the types.
LEMMA ReplyType ==
  ASSUME TypeOK, NEW r \in Reply, RegNode_push(r)
  PROVE  TypeOK'
<1>1. r.src \in Agent /\ r.lifetime \in Word
  BY MobileNodeAssumption DEF Reply
<1>2. /\ UNCHANGED <<advertisements, timers, capacity, recent, consequent_messages>>
      /\ out' = << >>
  BY DEF RegNode_push
<1>3. CASE UNCHANGED <<pending, connected, foreign_agent, lifetime, reg_timer>>
  BY <1>2, <1>3 DEF TypeOK
<1>4. ASSUME NEW i \in 1 .. Len(pending), pending' = pending_after(i, r),
             \/ /\ reg_timer' = (r.src # Gateway)
                /\ IF r.src # Gateway
                   THEN /\ connected' = TRUE
                        /\ foreign_agent' = r.src
                        /\ lifetime' = granted_lifetime(pending[i], r)
                   ELSE UNCHANGED <<connected, foreign_agent, lifetime>>
             \/ UNCHANGED <<connected, foreign_agent, lifetime, reg_timer>>
      PROVE  TypeOK'
  <2>1. pending \in Seq(request) /\ pending[i] \in request
    BY DEF TypeOK
  <2>2. pending' \in Seq(request)
    BY <1>4, <2>1, EraseType DEF pending_after
  <2>3. granted_lifetime(pending[i], r) \in Word
    <3>1. pending[i].rem_lt \in Word /\ pending[i].req_lt \in Word
      BY <2>1 DEF request
    <3> QED
      BY <1>1, <3>1, MinusWord DEF granted_lifetime
  <2>4. /\ connected' \in BOOLEAN /\ reg_timer' \in BOOLEAN
        /\ foreign_agent' \in Agent \cup {NoAgent} /\ lifetime' \in Word
        /\ connected' => foreign_agent' \in Agent
    <3>1. CASE UNCHANGED <<connected, foreign_agent, lifetime>> /\ reg_timer' \in BOOLEAN
      BY <3>1 DEF TypeOK
    <3>2. CASE /\ connected' = TRUE /\ foreign_agent' = r.src
               /\ lifetime' = granted_lifetime(pending[i], r) /\ reg_timer' \in BOOLEAN
      BY <1>1, <2>3, <3>2
    <3>3. reg_timer' \in BOOLEAN
      BY <1>4 DEF TypeOK
    <3> QED
      BY <1>4, <3>1, <3>2, <3>3
  <2> QED
    BY <1>2, <2>2, <2>4 DEF TypeOK
<1> QED
  BY <1>3, <1>4 DEF RegNode_push

\* RegNode::run_timer keeps the types.
LEMMA RegNodeTimerType ==
  ASSUME TypeOK, RegNode_run_timer
  PROVE  TypeOK'
<1>1. UNCHANGED <<advertisements, timers, capacity, recent, reg_timer, consequent_messages>>
  BY DEF RegNode_run_timer
<1>2. lifetime > 0 => lifetime - 1 \in Word
  <2>1. Byte * Byte \in Int
    BY ByteAssumption
  <2> QED
    BY <2>1 DEF TypeOK, Word
<1>3. /\ RegReqTyped' /\ (foreign_agent \in Agent => foreign_agent' \in Agent)
      /\ connected' \in BOOLEAN /\ (connected' => connected)
  <2>1. CASE /\ lifetime > 0 /\ connected' = (connected /\ lifetime # 1)
             /\ foreign_agent \in Known /\ RegReq_push(foreign_agent, lifetime - 1)
    BY <1>2, <2>1, RegReqPushType DEF Known, TypeOK
  <2>2. CASE /\ lifetime > 0 /\ connected' = (connected /\ lifetime # 1)
             /\ lifetime' = lifetime - 1 /\ out' = << >> /\ UNCHANGED <<pending, foreign_agent>>
    BY <1>2, <2>2 DEF RegReqTyped, TypeOK
  <2>3. CASE out' = << >> /\ UNCHANGED <<connected, lifetime, pending, foreign_agent>>
    BY <2>3 DEF RegReqTyped, TypeOK
  <2> QED
    BY <2>1, <2>2, <2>3 DEF RegNode_run_timer
<1> QED
  BY <1>1, <1>3 DEF TypeOK, RegReqTyped

\* Type correctness: whatever advertisements and replies arrive and however
\* the timers interleave, the node's state stays well formed, and a
\* connected node has an agent.
THEOREM TypeCorrect == Spec => []TypeOK
<1>1. Init => TypeOK
  <2> SUFFICES ASSUME Init PROVE TypeOK
    OBVIOUS
  <2>1. connected = FALSE /\ foreign_agent = NoAgent /\ lifetime \in Word
    BY DEF Init
  <2>2. advertisements \in [Agent -> Stored \cup {NoAd}] /\ capacity \in Nat
    BY DEF Init
  <2>3. pending \in Seq(request) /\ timers \in Seq([address : Agent, scheduled : BOOLEAN])
        /\ out \in Seq(Packet)
    BY DEF Init
  <2>4. recent \in BOOLEAN /\ reg_timer \in BOOLEAN /\ consequent_messages \in 0 .. MaxTries
    <3>1. recent \in BOOLEAN /\ reg_timer \in BOOLEAN
      BY Zenon DEF Init
    <3>2. consequent_messages = 0
      BY DEF Init
    <3>3. 0 \in 0 .. MaxTries
      BY MobileNodeAssumption
    <3> QED
      BY <3>1, <3>2, <3>3
  <2> QED
    BY <2>1, <2>2, <2>3, <2>4 DEF TypeOK
<1>2. TypeOK /\ [Next]_vars => TypeOK'
  <2> SUFFICES ASSUME TypeOK, [Next]_vars
               PROVE  TypeOK'
    OBVIOUS
  <2>1. CASE Solicitation_run_timer
    <3>1. consequent_messages' \in 0 .. MaxTries
      <4>1. \/ consequent_messages' = 0
            \/ consequent_messages < MaxTries /\ consequent_messages' = consequent_messages + 1
            \/ consequent_messages' = consequent_messages
        BY <2>1 DEF Solicitation_run_timer
      <4>2. consequent_messages \in 0 .. MaxTries
        BY DEF TypeOK
      <4> QED
        BY <4>1, <4>2, MobileNodeAssumption
    <3>2. out' \in Seq(Packet)
      <4>1. out' = << >> \/ out' = <<[kind |-> "solicitation"]>>
        BY <2>1 DEF Solicitation_run_timer
      <4>2. [kind |-> "solicitation"] \in Packet
        <5>1. [kind |-> "solicitation"] \in [kind : {"solicitation"}]
          BY Zenon
        <5> QED
          BY <5>1, Zenon DEF Packet
      <4> DEFINE p == [kind |-> "solicitation"]
      <4> HIDE DEF p
      <4>3. p \in Packet /\ (out' = << >> \/ out' = <<p>>)
        BY <4>1, <4>2, Zenon DEF p
      <4>4. << >> \in Seq(Packet) /\ <<p>> \in Seq(Packet)
        BY <4>3
      <4> QED
        BY <4>3, <4>4, Zenon
    <3> QED
      BY <2>1, <3>1, <3>2 DEF Solicitation_run_timer, TypeOK
  <2>2. CASE MNInfo_push
    <3>1. [kind |-> "datagram", via |-> IF connected THEN foreign_agent ELSE Gateway] \in Packet
      BY MobileNodeAssumption DEF Packet, TypeOK
    <3> QED
      <4>1. out' \in Seq(Packet)
        BY <2>2, <3>1 DEF MNInfo_push
      <4> QED
        BY <2>2, <4>1 DEF MNInfo_push, TypeOK
  <2>3. CASE AttemptAges
    <3>1. recent' \in BOOLEAN
      BY <2>3, Zenon DEF AttemptAges
    <3>2. out' \in Seq(Packet)
      BY <2>3 DEF AttemptAges
    <3> QED
      BY <2>3, <3>1, <3>2 DEF AttemptAges, TypeOK
  <2>4. CASE UNCHANGED vars
    BY <2>4 DEF vars, TypeOK
  <2> QED
    BY <2>1, <2>2, <2>3, <2>4, PushType, AdTimerType, RequestTimerType, ReplyType,
       RegNodeTimerType DEF Next
<1> QED
  BY <1>1, <1>2, PTL DEF Spec

-----------------------------------------------------------------------------
\* The timers ts serve exactly the agents in S, one each.
Serves(ts, S) ==
  /\ \A i \in 1 .. Len(ts) : ts[i].address \in S
  /\ \A a \in S : \E i \in 1 .. Len(ts) : ts[i].address = a
  /\ \A i, j \in 1 .. Len(ts) : ts[i].address = ts[j].address => i = j

\* Erasing the timer of agent a leaves the others their agents.
LEMMA EraseTimerServes ==
  ASSUME NEW ts \in Seq(Timer), NEW S, Serves(ts, S), NEW k \in 1 .. Len(ts)
  PROVE  Serves(erase_timer(ts, k), S \ {ts[k].address})
<1> DEFINE new == erase_timer(ts, k)
           old(j) == IF j < k THEN j ELSE j + 1
<1>1. Len(ts) \in Nat /\ \A i \in 1 .. Len(ts) : ts[i] \in Timer
  OBVIOUS
<1>2. /\ Len(new) = Len(ts) - 1
      /\ \A j \in 1 .. (Len(ts) - 1) : new[j].address = ts[old(j)].address
  <2>1. ASSUME NEW j \in 1 .. (Len(ts) - 1)
        PROVE  [ts[j + 1] EXCEPT !.scheduled = FALSE].address = ts[j + 1].address
    <3>1. ts[j + 1] \in Timer
      BY <1>1
    <3> QED
      BY <3>1 DEF Timer
  <2> QED
    BY <1>1, <2>1 DEF erase_timer
<1>3. \A j \in 1 .. (Len(ts) - 1) : old(j) \in 1 .. Len(ts) /\ old(j) # k
  BY <1>1
<1>4. \A i \in 1 .. Len(ts) : i # k => \E j \in 1 .. (Len(ts) - 1) : old(j) = i
  <2> TAKE i \in 1 .. Len(ts)
  <2> HAVE i # k
  <2>1. CASE i < k
    <3>1. i \in 1 .. (Len(ts) - 1) /\ old(i) = i
      BY <1>1, <2>1
    <3> QED
      BY <3>1
  <2>2. CASE i > k
    <3>1. i - 1 \in 1 .. (Len(ts) - 1) /\ old(i - 1) = i
      BY <1>1, <2>2
    <3> QED
      BY <3>1
  <2> QED
    BY <1>1, <2>1, <2>2
<1>5. \A i, j \in 1 .. (Len(ts) - 1) : old(i) = old(j) => i = j
  BY <1>1
<1> HIDE DEF new, old
<1>6. \A j \in 1 .. Len(new) : new[j].address \in S \ {ts[k].address}
  <2> TAKE j \in 1 .. Len(new)
  <2>1. /\ new[j].address = ts[old(j)].address
        /\ old(j) \in 1 .. Len(ts) /\ old(j) # k
    BY <1>2, <1>3
  <2>2. ts[old(j)].address \in S /\ ts[old(j)].address # ts[k].address
    BY <2>1 DEF Serves
  <2> QED
    BY <2>1, <2>2
<1>7. \A a \in S \ {ts[k].address} : \E j \in 1 .. Len(new) : new[j].address = a
  <2> TAKE a \in S \ {ts[k].address}
  <2>1. PICK i \in 1 .. Len(ts) : ts[i].address = a
    BY DEF Serves
  <2>2. PICK j \in 1 .. (Len(ts) - 1) : old(j) = i
    BY <1>4, <2>1
  <2> QED
    BY <1>2, <2>1, <2>2
<1>8. \A i, j \in 1 .. Len(new) : new[i].address = new[j].address => i = j
  <2> TAKE i, j \in 1 .. Len(new)
  <2> HAVE new[i].address = new[j].address
  <2>1. /\ i \in 1 .. (Len(ts) - 1) /\ j \in 1 .. (Len(ts) - 1)
        /\ old(i) \in 1 .. Len(ts) /\ old(j) \in 1 .. Len(ts)
        /\ ts[old(i)].address = ts[old(j)].address
    BY <1>2, <1>3
  <2>2. old(i) = old(j)
    BY <2>1 DEF Serves
  <2> QED
    BY <1>5, <2>1, <2>2
<1> QED
  BY <1>6, <1>7, <1>8 DEF Serves, new

\* Adding a timer for an agent that has none.
LEMMA PushTimerServes ==
  ASSUME NEW ts \in Seq(Timer), NEW S, Serves(ts, S), NEW a \in Agent, a \notin S
  PROVE  Serves(push_timer(ts, a), S \cup {a})
<1> DEFINE new == push_timer(ts, a)
<1>1. /\ Len(ts) \in Nat /\ Len(new) = Len(ts) + 1
      /\ \A j \in 1 .. Len(ts) : new[j].address = ts[j].address
      /\ new[Len(ts) + 1].address = a
  BY PushTimer
<1> HIDE DEF new
<1>2. \A j \in 1 .. Len(new) : new[j].address \in S \cup {a}
  BY <1>1 DEF Serves
<1>3. \A b \in S \cup {a} : \E j \in 1 .. Len(new) : new[j].address = b
  <2> TAKE b \in S \cup {a}
  <2>1. CASE b = a
    BY <1>1, <2>1
  <2>2. CASE b \in S
    <3>1. PICK i \in 1 .. Len(ts) : ts[i].address = b
      BY <2>2 DEF Serves
    <3> QED
      BY <1>1, <3>1
  <2> QED
    BY <2>1, <2>2
<1>4. \A i, j \in 1 .. Len(new) : new[i].address = new[j].address => i = j
  BY <1>1 DEF Serves
<1> QED
  BY <1>2, <1>3, <1>4 DEF Serves, new

\* Every stored advertisement has its one timer and every timer its stored
\* advertisement, however agents come, go and are busy: the invariant is
\* inductive with the type invariant, because push erases the timer of an
\* agent exactly when it erases the advertisement, and run_timer neither.
THEOREM TimersServeAdvertisements == Spec => []OneTimerPerAdvertisement
<1>0. OneTimerPerAdvertisement <=> Serves(timers, Known)
  BY DEF OneTimerPerAdvertisement, Serves
<1>1. Init => Serves(timers, Known)
  BY DEF Init, Serves, Known
<1>2. TypeOK /\ Serves(timers, Known) /\ [Next]_vars => Serves(timers', Known')
  <2> SUFFICES ASSUME TypeOK, Serves(timers, Known), [Next]_vars
               PROVE  Serves(timers', Known')
    OBVIOUS
  <2>1. timers \in Seq(Timer)
    BY DEF TypeOK, Timer
  <2>2. ASSUME NEW ad \in Advertisement, ProcessAdvertisements_push(ad)
        PROVE  Serves(timers', Known')
    <3> DEFINE a == ad.address
    <3>1. a \in Agent
      BY DEF Advertisement
    <3>2. Known' = IF ad.busy THEN Known \ {a} ELSE Known \cup {a}
      <4>1. [seq_nr |-> ad.seq_nr, lifetime |-> AdLifetime] # NoAd
        BY MobileNodeAssumption DEF Advertisement
      <4>2. \A b \in Agent : advertisements'[b] =
              IF b = a THEN IF ad.busy THEN NoAd ELSE [seq_nr |-> ad.seq_nr, lifetime |-> AdLifetime]
              ELSE advertisements[b]
        BY <2>2, <3>1 DEF ProcessAdvertisements_push, TypeOK
      <4> QED
        BY <3>1, <4>1, <4>2 DEF Known
    <3>3. ASSUME NEW ts \in without_timer(a)
          PROVE  ts \in Seq(Timer) /\ Serves(ts, Known \ {a})
      <4>1. ts \in Seq(Timer)
        BY <3>1, WithoutTimer
      <4>2. CASE a \notin Known
        <5>1. ts = timers
          BY <3>1, <4>2 DEF without_timer, Known
        <5> QED
          BY <4>1, <4>2, <5>1 DEF Serves
      <4>3. CASE a \in Known
        <5>1. PICK i \in 1 .. Len(timers) : timers[i].address = a
          BY <4>3 DEF Serves
        <5>2. PICK k \in 1 .. Len(timers) : timers[k].address = a /\ ts = erase_timer(timers, k)
          BY <3>1, <4>3, <5>1 DEF without_timer, Known
        <5> QED
          BY <2>1, <4>1, <5>2, EraseTimerServes
      <4> QED
        BY <4>2, <4>3
    <3>4. PICK ts \in without_timer(a) :
            IF ad.busy THEN timers' = ts ELSE timers' = push_timer(ts, a)
      BY <2>2 DEF ProcessAdvertisements_push
    <3>5. CASE ad.busy
      BY <3>2, <3>3, <3>4, <3>5
    <3>6. CASE ~ ad.busy
      <4>1. Serves(push_timer(ts, a), (Known \ {a}) \cup {a})
        BY <3>1, <3>3, PushTimerServes
      <4>2. (Known \ {a}) \cup {a} = Known \cup {a}
        OBVIOUS
      <4> QED
        BY <3>2, <3>4, <3>6, <4>1, <4>2
    <3> QED
      BY <3>5, <3>6
  <2>3. ASSUME NEW i \in 1 .. Len(timers), ProcessAdvertisements_run_timer(i)
        PROVE  Serves(timers', Known')
    <3>0. timers[i] \in Timer
      BY <2>1
    <3>1. timers[i] \in Timer /\ timers[i].address \in Agent
      BY <3>0 DEF Timer
    <3>2. Known' = Known
      <4>1. \A b \in Agent : advertisements'[b] = NoAd <=> advertisements[b] = NoAd
        <5>1. CASE UNCHANGED advertisements
          BY <5>1
        <5>2. CASE /\ advertisements[timers[i].address] # NoAd
                   /\ advertisements' =
                        [advertisements EXCEPT ![timers[i].address].lifetime = @ - 1]
                   /\ advertisements[timers[i].address].lifetime > 0
          <6>1. advertisements[timers[i].address] \in Stored
            BY <3>1, <5>2 DEF TypeOK
          <6>2. [advertisements[timers[i].address] EXCEPT !.lifetime = @ - 1] \in Stored
            BY <5>2, <6>1, MobileNodeAssumption DEF Stored
          <6>3. NoAd \notin Stored
            BY MobileNodeAssumption DEF Stored
          <6> QED
            BY <3>1, <5>2, <6>2, <6>3 DEF TypeOK
        <5> QED
          BY <2>3, <5>1, <5>2 DEF ProcessAdvertisements_run_timer
      <4> QED
        BY <4>1 DEF Known
    <3>3. Len(timers') = Len(timers) /\ \A j \in 1 .. Len(timers) : timers'[j].address = timers[j].address
      <4>1. CASE UNCHANGED timers
        BY <4>1
      <4>2. CASE timers' = [timers EXCEPT ![i].scheduled = FALSE]
        <5>1. [timers[i] EXCEPT !.scheduled = FALSE].address = timers[i].address
          BY <3>1 DEF Timer
        <5> QED
          BY <2>1, <4>2, <5>1
      <4> QED
        BY <2>3, <4>1, <4>2 DEF ProcessAdvertisements_run_timer
    <3> QED
      BY <3>2, <3>3 DEF Serves
  <2>4. CASE UNCHANGED <<advertisements, timers>>
    BY <2>4 DEF Known
  <2> QED
    BY <2>2, <2>3, <2>4 DEF Next, vars, RegReq_run_timer, RegNode_push, RegNode_run_timer,
       Solicitation_run_timer, MNInfo_push, AttemptAges
<1>3. OneTimerPerAdvertisement' <=> Serves(timers', Known')
  BY DEF OneTimerPerAdvertisement, Serves
<1>4. Init => OneTimerPerAdvertisement
  BY <1>0, <1>1
<1>5. TypeOK /\ OneTimerPerAdvertisement /\ [Next]_vars => OneTimerPerAdvertisement'
  BY <1>0, <1>2, <1>3
<1> QED
  BY <1>4, <1>5, TypeCorrect, PTL DEF Spec

\* What RegReq::push does to the invariant below: only its deregistration
\* branch touches the agent, and that branch clears the lifetime.
LEMMA RegReqHome ==
  ASSUME NEW a, NEW lt, RegReq_push(a, lt), foreign_agent = Gateway => lt = 0
  PROVE  HomeHasNoLifetime'
  BY DEF RegReq_push, HomeHasNoLifetime

\* A node whose agent is its gateway counts no lifetime: the invariant is
\* inductive, because only RegNode::push starts a lifetime and it does so
\* for other agents only.
THEOREM NoLifetimeAtHome == Spec => []HomeHasNoLifetime
<1>1. Init => HomeHasNoLifetime
  BY MobileNodeAssumption DEF Init, HomeHasNoLifetime
<1>2. TypeOK /\ HomeHasNoLifetime /\ [Next]_vars => HomeHasNoLifetime'
  <2> SUFFICES ASSUME TypeOK, HomeHasNoLifetime, [Next]_vars
               PROVE  HomeHasNoLifetime'
    OBVIOUS
  <2>1. CASE UNCHANGED <<foreign_agent, lifetime>>
    BY <2>1 DEF HomeHasNoLifetime
  <2>2. ASSUME NEW a, RegReq_push(a, lifetime)
        PROVE  HomeHasNoLifetime'
    BY <2>2, RegReqHome DEF HomeHasNoLifetime
  <2>3. ASSUME NEW r \in Reply, RegNode_push(r)
        PROVE  HomeHasNoLifetime'
    BY <2>3 DEF RegNode_push, HomeHasNoLifetime
  <2>4. CASE RegNode_run_timer
    <3>1. CASE lifetime > 0
      <4>1. foreign_agent # Gateway
        BY <3>1 DEF HomeHasNoLifetime
      <4>2. \/ RegReq_push(foreign_agent, lifetime - 1)
            \/ UNCHANGED foreign_agent
        BY <2>4, <3>1 DEF RegNode_run_timer
      <4> QED
        BY <4>1, <4>2, RegReqHome DEF HomeHasNoLifetime
    <3>2. CASE ~ (lifetime > 0)
      BY <2>1, <2>4, <3>2 DEF RegNode_run_timer
    <3> QED
      BY <3>1, <3>2
  <2> QED
    BY <2>1, <2>2, <2>3, <2>4 DEF Next, vars, ProcessAdvertisements_push,
       ProcessAdvertisements_run_timer, RegReq_run_timer, Solicitation_run_timer,
       MNInfo_push, AttemptAges
<1> QED
  BY <1>1, <1>2, TypeCorrect, PTL DEF Spec

-----------------------------------------------------------------------------
\* What connects the node or prolongs its lifetime, and what is read to be
\* the effect of a reply (the step behind OnlyAcceptedRequestsConnect).
Gains == (connected' /\ ~ connected) \/ lifetime' > lifetime
Changes == <<connected, foreign_agent, lifetime>>' # <<connected, foreign_agent, lifetime>>

\* RegReq::push never prolongs a lifetime.
LEMMA RegReqShortens ==
  ASSUME NEW a, NEW lt \in Int, lt >= 0, RegReq_push(a, lt)
  PROVE  lifetime' \in Int /\ lifetime' <= lt
  BY DEF RegReq_push

\* The two subtractions of RegNode::push give back the granted lifetime while
\* the request has not been counted down.
LEMMA MinusTwice ==
  ASSUME NEW w \in Word, NEW g \in Word
  PROVE  Minus(w, Minus(w, g)) = g
<1>1. PICK b \in Nat : b = Byte * Byte
  BY ByteAssumption
<1>2. w \in Nat /\ w < b /\ g \in Nat /\ g < b
  BY <1>1 DEF Word
<1>3. CASE w >= g
  <2>1. (w - g) % b = w - g /\ g % b = g
    BY <1>2, <1>3
  <2>2. w - (w - g) = g
    BY <1>2
  <2> QED  BY <1>1, <2>1, <2>2 DEF Minus
<1>4. CASE w < g
  <2>1. (w - g) % b = w - g + b /\ (g - b) % b = g
    BY <1>2, <1>4
  <2>2. w - (w - g + b) = g - b
    BY <1>2
  <2> QED  BY <1>1, <2>1, <2>2 DEF Minus
<1> QED  BY <1>2, <1>3, <1>4

\* A reply that changes the node's registration is one that it accepts.
LEMMA ReplyAccepted ==
  ASSUME TypeOK, NEW r \in Reply, RegNode_push(r), Changes
  PROVE  \E i \in 1 .. Len(pending) : AcceptedFor(i, r)
<1>1. PICK i \in 1 .. Len(pending) :
        /\ pending[i].dest = r.src /\ pending[i].port = r.port
        /\ pending' = pending_after(i, r)
        /\ accepts(pending[i], r) /\ r.src # Gateway
        /\ connected' = TRUE /\ foreign_agent' = r.src
        /\ lifetime' = granted_lifetime(pending[i], r)
  BY Zenon DEF RegNode_push, Changes
<1>2. r.intact /\ r.id = pending[i].id /\ r.code \in {0, 1}
  BY <1>1, Zenon DEF accepts
<1>3. pending' = erase(pending, i)
  BY <1>1, <1>2, Zenon DEF pending_after
<1>4. ASSUME pending[i].rem_lt = pending[i].req_lt PROVE lifetime' = r.lifetime
  <2>1. pending[i] \in request
    BY DEF TypeOK
  <2>2. pending[i].req_lt \in Word /\ r.lifetime \in Word
    BY <2>1, MobileNodeAssumption DEF request, Reply
  <2> QED  BY <1>1, <1>4, <2>2, MinusTwice, Zenon DEF granted_lifetime
<1>5. AcceptedFor(i, r)
  BY <1>1, <1>2, <1>3, <1>4, Zenon DEF AcceptedFor
<1> QED  BY <1>5

\* Only RegNode::push connects the node or prolongs its lifetime, and a reply
\* that changes the node's registration is an intact acceptance of a request
\* that is still pending and leaves the list; RegReq::push and the timers only
\* lower the lifetime.
THEOREM RepliesAreAcceptedOnce == Spec => OnlyAcceptedRequestsConnect
<1> DEFINE ByReply == Gains => \E r \in Reply : RegNode_push(r)
           Step == /\ ByReply
                   /\ Changes => \A r \in Reply :
                        RegNode_push(r) => \E i \in 1 .. Len(pending) : AcceptedFor(i, r)
<1>1. TypeOK /\ [Next]_vars => [Step]_vars
  <2> SUFFICES ASSUME TypeOK, Next PROVE ByReply
    BY ReplyAccepted
  <2>1. lifetime \in Int /\ lifetime >= 0
    BY DEF TypeOK, Word
  <2>2. CASE UNCHANGED <<connected, lifetime>>
    BY <2>1, <2>2 DEF Gains
  <2>3. ASSUME NEW a, RegReq_push(a, lifetime), UNCHANGED connected
        PROVE  ByReply
    BY <2>1, <2>3, RegReqShortens DEF Gains
  <2>4. CASE RegNode_run_timer
    <3>1. connected' => connected
      BY <2>4 DEF RegNode_run_timer
    <3>2. \/ RegReq_push(foreign_agent, lifetime - 1) /\ lifetime > 0
          \/ lifetime' = lifetime - 1
          \/ UNCHANGED lifetime
      BY <2>4 DEF RegNode_run_timer
    <3>3. ~ (lifetime' > lifetime)
      BY <2>1, <3>2, RegReqShortens
    <3> QED  BY <3>1, <3>3 DEF Gains
  <2> QED
    BY <2>2, <2>3, <2>4 DEF Next, ProcessAdvertisements_push,
       ProcessAdvertisements_run_timer, RegReq_run_timer, Solicitation_run_timer,
       MNInfo_push, AttemptAges
<1>2. [][Step]_vars => OnlyAcceptedRequestsConnect
  BY PTL DEF OnlyAcceptedRequestsConnect, Gains, Changes
<1> QED
  BY <1>1, <1>2, TypeCorrect, PTL DEF Spec

-----------------------------------------------------------------------------
\* The step behind PendingRunsDown: the j-th pending request was there, with
\* so many seconds more, or has just been sent.
WasPending(j, seconds) ==
  \E i \in 1 .. Len(pending) :
    /\ pending'[j] = [pending[i] EXCEPT !.rem_lt = pending'[j].rem_lt]
    /\ ntohs(pending'[j].rem_lt) = ntohs(pending[i].rem_lt) - seconds

JustSent(j) ==
  /\ out' # << >> /\ out'[1].kind = "request"
  /\ pending'[j] =
       [dest |-> out'[1].dest, id |-> out'[1].id, req_lt |-> out'[1].lifetime,
        rem_lt |-> out'[1].lifetime, port |-> out'[1].port]

\* A count above zero loses one, in whichever byte order it is stored.
LEMMA CountsDown ==
  ASSUME NEW w \in Word, ntohs(w) > 0
  PROVE  ntohs(htons(Minus(ntohs(w), 1))) = ntohs(w) - 1
<1>1. PICK n \in Word : n = ntohs(w)
  BY SwapType
<1>2. PICK b \in Nat : b = Byte * Byte
  BY ByteAssumption
<1>3. n \in Nat /\ n > 0 /\ n < b
  BY <1>1, <1>2 DEF Word
<1>4. (n - 1) % b = n - 1
  BY <1>3
<1>5. Minus(n, 1) = n - 1 /\ Minus(n, 1) \in Word
  BY <1>2, <1>4, MinusType DEF Minus
<1> QED
  BY <1>1, <1>5, SwapTwice

\* RegReq::run_timer takes one off every request it keeps.
LEMMA TimerRunsDown ==
  ASSUME TypeOK, RegReq_run_timer, NEW j \in 1 .. Len(pending')
  PROVE  WasPending(j, 1)
<1> DEFINE v == [i \in 1 .. Len(pending) |->
                   [pending[i] EXCEPT !.rem_lt = htons(Minus(ntohs(@), 1))]]
           K == {i \in 1 .. Len(pending) : ntohs(pending[i].rem_lt) > 0}
<1>1. pending \in Seq(request) /\ Len(pending) \in Nat
  BY DEF TypeOK
<1>2. v \in Seq({v[i] : i \in 1 .. Len(pending)}) /\ Len(v) = Len(pending)
  BY <1>1
<1>3. K \in SUBSET (1 .. Len(v)) /\ pending' \in Kept(v, K)
  BY <1>2 DEF RegReq_run_timer
<1>4. PICK f : Selects(f, pending', v, K)
  <2> HIDE DEF v, K
  <2> QED
    BY <1>2, <1>3, KeptPositions
<1>5. PICK i \in 1 .. Len(pending) : pending'[j] = v[i] /\ i \in K
  BY <1>4 DEF Selects
<1>6. /\ pending[i] \in request /\ ntohs(pending[i].rem_lt) > 0
      /\ pending'[j] = [pending[i] EXCEPT !.rem_lt = htons(Minus(ntohs(pending[i].rem_lt), 1))]
  BY <1>1, <1>5
<1> HIDE DEF v, K
<1>7. /\ pending[i].rem_lt \in Word
      /\ pending'[j].rem_lt = htons(Minus(ntohs(pending[i].rem_lt), 1))
  BY <1>6 DEF request
<1>8. ntohs(pending'[j].rem_lt) = ntohs(pending[i].rem_lt) - 1
  BY <1>6, <1>7, CountsDown
<1> QED
  BY <1>6, <1>7, <1>8 DEF WasPending

\* A request is put at the end of the list when it is sent.
Sends ==
  /\ out' # << >> /\ out'[1].kind = "request"
  /\ pending' = Append(pending,
       [dest |-> out'[1].dest, id |-> out'[1].id, req_lt |-> out'[1].lifetime,
        rem_lt |-> out'[1].lifetime, port |-> out'[1].port])

\* RegReq::push sends a request or leaves the list alone.
LEMMA RegReqSends ==
  \A a, lt : RegReq_push(a, lt) => UNCHANGED pending \/ Sends
<1> SUFFICES ASSUME NEW a, NEW lt, RegReq_push(a, lt), ~ UNCHANGED pending PROVE Sends
  OBVIOUS
<1>1. PICK dest, l, coa, port, id :
        /\ pending' = Append(pending, [dest |-> dest, id |-> id, req_lt |-> l,
                                       rem_lt |-> l, port |-> port])
        /\ out' = <<[kind |-> "request", dest |-> dest, lifetime |-> l,
                     coa |-> coa, port |-> port, id |-> id]>>
  BY DEF RegReq_push, make_packet
<1> QED
  BY <1>1 DEF Sends

\* The other handlers append what they send, erase or leave the list alone.
LEMMA OthersKeep ==
  ASSUME TypeOK, Next, ~ RegReq_run_timer, NEW j \in 1 .. Len(pending')
  PROVE  (\E i \in 1 .. Len(pending) : pending'[j] = pending[i]) \/ JustSent(j)
<1> DEFINE Goal == (\E i \in 1 .. Len(pending) : pending'[j] = pending[i]) \/ JustSent(j)
<1>1. pending \in Seq(request) /\ Len(pending) \in Nat
  BY DEF TypeOK
<1>2. CASE UNCHANGED pending
  BY <1>2
<1>3. CASE Sends
  <2>1. CASE j = Len(pending) + 1
    BY <1>1, <1>3, <2>1 DEF Sends, JustSent
  <2>2. CASE j # Len(pending) + 1
    <3>1. j \in 1 .. Len(pending)
      BY <1>1, <1>3, <2>2 DEF Sends
    <3> QED
      BY <1>1, <1>3, <3>1 DEF Sends
  <2> QED
    BY <2>1, <2>2
<1>4. CASE UNCHANGED pending \/ Sends
  BY <1>2, <1>3, <1>4
<1>5. ASSUME NEW r \in Reply, RegNode_push(r) PROVE Goal
  <2>1. UNCHANGED pending \/ \E i \in 1 .. Len(pending) : pending' = erase(pending, i)
    BY <1>5 DEF RegNode_push, pending_after
  <2>2. ASSUME NEW i \in 1 .. Len(pending), pending' = erase(pending, i) PROVE Goal
    <3>1. pending' = [k \in 1 .. (Len(pending) - 1) |-> IF k < i THEN pending[k] ELSE pending[k + 1]]
      BY <2>2 DEF erase
    <3>2. j \in 1 .. (Len(pending) - 1)
      BY <1>1, <2>2, <3>1
    <3>3. pending'[j] = pending[j] \/ pending'[j] = pending[j + 1]
      BY <3>1, <3>2
    <3>4. j \in 1 .. Len(pending) /\ j + 1 \in 1 .. Len(pending)
      BY <1>1, <3>2
    <3> QED
      BY <3>3, <3>4
  <2> QED
    BY <1>2, <2>1, <2>2
<1>6. UNCHANGED pending \/ Sends \/ \E r \in Reply : RegNode_push(r)
  <2>1. ASSUME NEW ad, ProcessAdvertisements_push(ad) PROVE UNCHANGED pending \/ Sends
    <3>1. UNCHANGED pending \/ RegReq_push(ad.address, lifetime)
      BY <2>1, Zenon DEF ProcessAdvertisements_push
    <3> QED
      BY <3>1, RegReqSends, Zenon
  <2>2. ASSUME NEW i, ProcessAdvertisements_run_timer(i) PROVE UNCHANGED pending \/ Sends
    <3>1. UNCHANGED pending \/ \E b : RegReq_push(b, lifetime)
      BY <2>2, Zenon DEF ProcessAdvertisements_run_timer
    <3> QED
      BY <3>1, RegReqSends, Zenon
  <2>3. CASE RegNode_run_timer
    <3>1. UNCHANGED pending \/ RegReq_push(foreign_agent, lifetime - 1)
      BY <2>3, Zenon DEF RegNode_run_timer
    <3> QED
      BY <3>1, RegReqSends, Zenon
  <2>4. CASE Solicitation_run_timer \/ MNInfo_push \/ AttemptAges
    BY <2>4 DEF Solicitation_run_timer, MNInfo_push, AttemptAges
  <2> QED
    BY <2>1, <2>2, <2>3, <2>4, Zenon DEF Next
<1> QED
  BY <1>4, <1>5, <1>6, Zenon

\* Pending requests are counted down from what they asked for, for any width
\* of a byte and any number of agents and requests: ntohs undoes htons, so
\* that the count in the wrong byte order still loses one a second.
THEOREM RequestsRunDown == Spec => PendingRunsDown
<1> DEFINE Step ==
      LET seconds == IF RegReq_run_timer THEN 1 ELSE 0
      IN  \A j \in 1 .. Len(pending') :
            \/ \E i \in 1 .. Len(pending) :
                 /\ pending'[j] = [pending[i] EXCEPT !.rem_lt = pending'[j].rem_lt]
                 /\ ntohs(pending'[j].rem_lt) = ntohs(pending[i].rem_lt) - seconds
            \/ /\ out' # << >> /\ out'[1].kind = "request"
               /\ pending'[j] =
                    [dest |-> out'[1].dest, id |-> out'[1].id, req_lt |-> out'[1].lifetime,
                     rem_lt |-> out'[1].lifetime, port |-> out'[1].port]
<1>1. TypeOK /\ [Next]_vars => [Step]_vars
  <2> SUFFICES ASSUME TypeOK, Next, NEW j \in 1 .. Len(pending')
               PROVE  WasPending(j, IF RegReq_run_timer THEN 1 ELSE 0) \/ JustSent(j)
    BY DEF WasPending, JustSent
  <2>1. CASE RegReq_run_timer
    <3>1. WasPending(j, 1)
      BY <2>1, TimerRunsDown
    <3> QED
      BY <2>1, <3>1
  <2>2. ASSUME ~ RegReq_run_timer, NEW i \in 1 .. Len(pending), pending'[j] = pending[i]
        PROVE  WasPending(j, 0)
    <3>1. pending[i] \in request
      BY DEF TypeOK
    <3>2. ntohs(pending[i].rem_lt) \in Int
      BY <3>1, SwapType DEF request, Word
    <3> QED
      BY <2>2, <3>1, <3>2 DEF WasPending, request
  <2>3. CASE ~ RegReq_run_timer
    <3>1. WasPending(j, 0) \/ JustSent(j)
      BY <2>2, <2>3, OthersKeep
    <3> QED
      BY <2>3, <3>1
  <2> QED
    BY <2>1, <2>3
<1>2. [][Step]_vars => PendingRunsDown
  BY PTL DEF PendingRunsDown
<1> QED
  BY <1>1, <1>2, TypeCorrect, PTL DEF Spec
=============================================================================
